--------------------------- MODULE Sgtin96_proofs ---------------------------
(***************************************************************************)
(* Proofs about pkg/sgtin96: what the EPCs are decoded to, for every EPC.  *)
(*                                                                         *)
(* Numbers up to 10^13 are reached by recursive functions; what they are   *)
(* is shown by an induction on the set of the indices reached so far.      *)
(***************************************************************************)
EXTENDS Sgtin96, WellFoundedInduction, SequenceTheorems, TLAPS

------------------------------------------------------------------------------
\* Induction and recursion up to a bound.

LEMMA SetInduction ==
  ASSUME NEW m \in Nat, NEW T, 0 \in T, \A i \in 0 .. m - 1 : i \in T => i + 1 \in T
  PROVE  0 .. m \subseteq T
<1> SUFFICES ASSUME NEW x \in 0 .. m, x \notin T PROVE FALSE
  OBVIOUS
<1> DEFINE U == {i \in 0 .. m : i \notin T}
           R == OpToRel(<, Nat)
<1>1. PICK i \in U : \A j \in U : <<j, i>> \notin R
  <2>1. IsWellFoundedOn(R, Nat)
    BY NatLessThanWellFounded
  <2>2. U \subseteq Nat /\ U # {}
    OBVIOUS
  <2> HIDE DEF U, R
  <2> QED BY <2>1, <2>2, WFMin
<1>2. \A j \in U : ~ (j < i)
  <2>1. ASSUME NEW a \in Nat, NEW b \in Nat, a < b PROVE <<a, b>> \in R
    BY <2>1, Zenon DEF OpToRel
  <2>2. U \subseteq Nat
    OBVIOUS
  <2> HIDE DEF R, U
  <2> QED BY <1>1, <2>1, <2>2
<1>3. i # 0 /\ i - 1 \in 0 .. m - 1
  OBVIOUS
<1>4. i - 1 \in U
  BY <1>3
<1> QED
  BY <1>2, <1>4

\* The functions that start from base and go on by step, up to k.
Iterations(k, S, base, step) ==
  {f \in [0 .. k -> S] : f[0] = base /\ \A i \in 1 .. k : f[i] = step[i][f[i - 1]]}

StaysIn(m, S, step) == \A i \in 1 .. m, x \in S : step[i][x] \in S

LEMMA Iteration ==
  ASSUME NEW m \in Nat, NEW S, NEW base \in S, NEW step, StaysIn(m, S, step)
  PROVE  Iterations(m, S, base, step) # {}
<1> DEFINE Upto(k) == Iterations(k, S, base, step)
           T == {k \in 0 .. m : Upto(k) # {}}
<1>1. 0 \in T
  <2>1. [i \in 0 .. 0 |-> base] \in Upto(0)
    BY DEF Iterations
  <2> QED BY <2>1
<1>2. ASSUME NEW k \in 0 .. m - 1, k \in T PROVE k + 1 \in T
  <2>1. PICK f : f \in Upto(k)
    BY <1>2
  <2> DEFINE g == [i \in 0 .. k + 1 |-> IF i = k + 1 THEN step[i][f[k]] ELSE f[i]]
  <2>2. f \in [0 .. k -> S] /\ f[0] = base /\ \A i \in 1 .. k : f[i] = step[i][f[i - 1]]
    BY <2>1 DEF Iterations
  <2>3. f[k] \in S /\ k + 1 \in 1 .. m /\ step[k + 1][f[k]] \in S
    BY <2>2 DEF StaysIn
  <2>4. g \in [0 .. k + 1 -> S]
    BY <2>2, <2>3
  <2>5. g[0] = base /\ g[k + 1] = step[k + 1][f[k]] /\ \A i \in 0 .. k : g[i] = f[i]
    BY <2>2
  <2>6. ASSUME NEW i \in 1 .. k + 1 PROVE g[i] = step[i][g[i - 1]]
    <3>1. CASE i = k + 1
      BY <3>1, <2>5
    <3>2. CASE i # k + 1
      <4>1. i \in 1 .. k /\ i - 1 \in 0 .. k /\ i \in 0 .. k
        BY <3>2
      <4> QED BY <4>1, <2>2, <2>5
    <3> QED BY <3>1, <3>2
  <2>7. g \in Upto(k + 1)
    <3>1. g[0] = base /\ \A i \in 1 .. k + 1 : g[i] = step[i][g[i - 1]]
      BY <2>5, <2>6
    <3> HIDE DEF g
    <3> QED BY <2>4, <3>1 DEF Iterations
  <2>8. k + 1 \in 0 .. m
    OBVIOUS
  <2> HIDE DEF g, Upto
  <2> QED BY <2>7, <2>8
<1>3. 0 .. m \subseteq T
  <2> HIDE DEF T
  <2> QED BY <1>1, <1>2, SetInduction
<1>4. m \in T
  BY <1>3
<1> QED
  BY <1>4

------------------------------------------------------------------------------
\* Numbers as pairs, and the number a pair stands for.
Number    == {n \in Nat \X Nat : n[2] < Low}
Amount(n) == n[1] * Low + n[2]

LEMMA NumberPair ==
  ASSUME NEW a \in Nat, NEW b \in Nat, b < 10000000
  PROVE  <<a, b>> \in Number /\ Amount(<<a, b>>) = 10000000 * a + b
BY SMT DEF Number, Amount, Low

LEMMA PairOfNumber ==
  ASSUME NEW n \in Number
  PROVE  \E a \in Nat, b \in Nat :
           n = <<a, b>> /\ n[1] = a /\ n[2] = b /\ b < 10000000 /\ Amount(n) = 10000000 * a + b
<1>1. PICK a \in Nat, b \in Nat : n = <<a, b>>
  BY SMT DEF Number
<1>2. n[1] = a /\ n[2] = b
  BY <1>1, SMT
<1>3. b < 10000000 /\ Amount(n) = 10000000 * a + b
  BY <1>2, SMT DEF Number, Amount, Low
<1> QED
  BY <1>1, <1>2, <1>3, SMT

LEMMA DoubleAddAmount ==
  ASSUME NEW n \in Number, NEW b \in 0 .. 1
  PROVE  DoubleAdd(n, b) \in Number /\ Amount(DoubleAdd(n, b)) = 2 * Amount(n) + b
<1>1. PICK h \in Nat, t \in Nat : 
        n = <<h, t>> /\ n[1] = h /\ n[2] = t /\ t < 10000000 /\ Amount(n) = 10000000 * h + t
  BY PairOfNumber, SMT
<1> DEFINE h2 == 2 * h + (2 * t + b) \div 10000000
           t2 == (2 * t + b) % 10000000
<1>2. h2 \in Nat /\ t2 \in Nat /\ t2 < 10000000 /\ 10000000 * h2 + t2 = 2 * (10000000 * h + t) + b
  BY SMT
<1>3. DoubleAdd(n, b) = <<h2, t2>>
  BY <1>1, SMT DEF DoubleAdd, Low
<1> HIDE DEF h2, t2
<1> QED
  BY <1>1, <1>2, <1>3, NumberPair, SMT

LEMMA TenTimesAmount ==
  ASSUME NEW n \in Number, NEW d \in 0 .. 9
  PROVE  TenTimes(n, d) \in Number /\ Amount(TenTimes(n, d)) = 10 * Amount(n) + d
<1>1. PICK h \in Nat, t \in Nat : 
        n = <<h, t>> /\ n[1] = h /\ n[2] = t /\ t < 10000000 /\ Amount(n) = 10000000 * h + t
  BY PairOfNumber, SMT
<1> DEFINE h2 == 10 * h + t \div 1000000
           t2 == 10 * (t % 1000000) + d
<1>2. h2 \in Nat /\ t2 \in Nat /\ t2 < 10000000 /\ 10000000 * h2 + t2 = 10 * (10000000 * h + t) + d
  BY SMT
<1>3. TenTimes(n, d) = <<h2, t2>>
  BY <1>1, SMT DEF TenTimes
<1> HIDE DEF h2, t2
<1> QED
  BY <1>1, <1>2, <1>3, NumberPair, SMT

LEMMA HalveAmount ==
  ASSUME NEW n \in Number
  PROVE  /\ Halve(n) \in Number
         /\ Amount(n) \in Nat
         /\ Amount(Halve(n)) \in Nat
         /\ Amount(n) = 2 * Amount(Halve(n)) + (n[2] % 2)
         /\ n[2] % 2 \in {0, 1}
<1>1. PICK h \in Nat, t \in Nat : 
        n = <<h, t>> /\ n[1] = h /\ n[2] = t /\ t < 10000000 /\ Amount(n) = 10000000 * h + t
  BY PairOfNumber, SMT
<1> DEFINE h2 == h \div 2
           t2 == (t + (h % 2) * 10000000) \div 2
<1>2. /\ h2 \in Nat /\ t2 \in Nat /\ t2 < 10000000
      /\ 10000000 * h + t = 2 * (10000000 * h2 + t2) + (t % 2)
      /\ t % 2 \in {0, 1}
  <2>1. h2 \in Nat /\ h = 2 * h2 + (h % 2) /\ h % 2 \in {0, 1} /\ t % 2 \in {0, 1}
    BY SMT
  <2>2. CASE h % 2 = 0
    <3>1. t2 \in Nat /\ t2 < 10000000 /\ t = 2 * t2 + (t % 2)
      BY <1>1, <2>2, SMT
    <3> HIDE DEF h2, t2
    <3> QED BY <2>1, <2>2, <3>1, SMT
  <2>3. CASE h % 2 = 1
    <3>1. t2 \in Nat /\ t2 < 10000000 /\ t + 10000000 = 2 * t2 + (t % 2)
      BY <1>1, <2>3, SMT
    <3> HIDE DEF h2, t2
    <3> QED BY <2>1, <2>3, <3>1, SMT
  <2> QED BY <2>1, <2>2, <2>3, SMT
<1>3. Halve(n) = <<h2, t2>>
  BY <1>1, SMT DEF Halve, Low
<1>4. n[2] % 2 = t % 2
  BY <1>1, SMT
<1> DEFINE rest == t % 2
<1>5. /\ h2 \in Nat /\ t2 \in Nat /\ t2 < 10000000 /\ rest \in {0, 1}
      /\ 10000000 * h + t = 2 * (10000000 * h2 + t2) + rest
  BY <1>2
<1> HIDE DEF h2, t2, rest
<1>6. Halve(n) \in Number /\ Amount(Halve(n)) = 10000000 * h2 + t2
  BY <1>3, <1>5, NumberPair, SMT
<1>7. n[2] % 2 = rest
  BY <1>4 DEF rest
<1> QED
  BY <1>1, <1>5, <1>6, <1>7, SMT

------------------------------------------------------------------------------
\* The recursive functions.
Bit(k, bits) == IF k \in bits THEN 1 ELSE 0

LEMMA BitValue == ASSUME NEW k, NEW bits PROVE Bit(k, bits) \in 0 .. 1
BY DEF Bit

LEMMA LeadingSteps ==
  ASSUME NEW bits
  PROVE  /\ Leading(bits) \in [0 .. 40 -> Number]
         /\ Amount(Leading(bits)[0]) = 0
         /\ \A i \in 1 .. 40 :
              Amount(Leading(bits)[i]) = 2 * Amount(Leading(bits)[i - 1]) + Bit(40 - i, bits)
<1> DEFINE step == [i \in 1 .. 40 |-> [x \in Number |-> DoubleAdd(x, Bit(40 - i, bits))]]
           Next0(g, i) == IF i = 0 THEN <<0, 0>> ELSE DoubleAdd(g[i - 1], Bit(40 - i, bits))
<1>1. ASSUME NEW i \in 1 .. 40, NEW x \in Number
      PROVE  step[i][x] = DoubleAdd(x, Bit(40 - i, bits)) /\ step[i][x] \in Number
  <2>1. step[i][x] = DoubleAdd(x, Bit(40 - i, bits))
    OBVIOUS
  <2> QED BY <2>1, DoubleAddAmount, BitValue, Zenon
<1>2. <<0, 0>> \in Number /\ Amount(<<0, 0>>) = 0
  BY NumberPair, SMT
<1>3. PICK f \in [0 .. 40 -> Number] :
        f[0] = <<0, 0>> /\ \A i \in 1 .. 40 : f[i] = step[i][f[i - 1]]
  <2> DEFINE m    == 40
             zero == <<0, 0>>
  <2>1. m \in Nat /\ zero \in Number /\ StaysIn(m, Number, step)
    BY <1>1, <1>2 DEF StaysIn
  <2> HIDE DEF step, m, zero
  <2>2. PICK f : f \in Iterations(m, Number, zero, step)
    BY <2>1, Iteration
  <2>3. f \in [0 .. m -> Number] /\ f[0] = zero /\ \A i \in 1 .. m : f[i] = step[i][f[i - 1]]
    BY <2>2 DEF Iterations
  <2> QED BY <2>3 DEF m, zero
<1>4. ASSUME NEW i \in 1 .. 40
      PROVE  f[i - 1] \in Number /\ f[i] = DoubleAdd(f[i - 1], Bit(40 - i, bits))
  <2>1. i - 1 \in 0 .. 40
    OBVIOUS
  <2> HIDE DEF step
  <2> QED BY <1>1, <1>3, <2>1
<1>5. f = [i \in 0 .. 40 |-> Next0(f, i)]
  <2>1. \A i \in 0 .. 40 : i = 0 \/ i \in 1 .. 40
    OBVIOUS
  <2>2. \A i \in 0 .. 40 : f[i] = Next0(f, i)
    BY <1>3, <1>4, <2>1
  <2> HIDE DEF Next0
  <2> QED BY <1>3, <2>2
<1> DEFINE F == CHOOSE g : g = [i \in 0 .. 40 |-> Next0(g, i)]
<1>6. F = [i \in 0 .. 40 |-> Next0(F, i)]
  <2> HIDE DEF Next0
  <2> QED BY <1>5
<1>7. Leading(bits) = F
  BY Zenon DEF Leading, Bit
<1> HIDE DEF F
<1>8. F[0] = <<0, 0>> /\ \A i \in 1 .. 40 : F[i] = DoubleAdd(F[i - 1], Bit(40 - i, bits))
  <2>1. \A i \in 0 .. 40 : F[i] = Next0(F, i)
    <3> HIDE DEF Next0
    <3> QED BY <1>6
  <2>2. 0 \in 0 .. 40 /\ \A i \in 1 .. 40 : i \in 0 .. 40 /\ i # 0
    OBVIOUS
  <2> QED BY <2>1, <2>2, Zenon
<1> DEFINE T == {i \in 0 .. 40 : F[i] \in Number}
<1>9. 0 .. 40 \subseteq T
  <2>1. 0 \in T
    BY <1>2, <1>8
  <2>2. ASSUME NEW i \in 0 .. 40 - 1, i \in T PROVE i + 1 \in T
    <3>1. i + 1 \in 1 .. 40 /\ i + 1 \in 0 .. 40 /\ (i + 1) - 1 = i
      OBVIOUS
    <3>2. F[i + 1] = DoubleAdd(F[i], Bit(40 - (i + 1), bits))
      BY <1>8, <3>1
    <3> QED BY <2>2, <3>1, <3>2, DoubleAddAmount, BitValue, Zenon
  <2> HIDE DEF T
  <2> QED BY <2>1, <2>2, SetInduction
<1>10. F \in [0 .. 40 -> Number]
  <2> HIDE DEF Next0
  <2> QED BY <1>6, <1>9
<1>11. ASSUME NEW i \in 1 .. 40
       PROVE  Amount(F[i]) = 2 * Amount(F[i - 1]) + Bit(40 - i, bits)
  <2>1. i - 1 \in 0 .. 40
    OBVIOUS
  <2>2. F[i - 1] \in Number
    BY <2>1, <1>9
  <2> QED BY <1>8, <2>2, DoubleAddAmount, BitValue, Zenon
<1> QED
  BY <1>2, <1>7, <1>8, <1>10, <1>11, Zenon

LEMMA ReadingSteps ==
  ASSUME NEW digits \in Seq(0 .. 9)
  PROVE  /\ Reading(digits) \in [0 .. Len(digits) -> Number]
         /\ Amount(Reading(digits)[0]) = 0
         /\ \A i \in 1 .. Len(digits) :
              Amount(Reading(digits)[i]) = 10 * Amount(Reading(digits)[i - 1]) + digits[i]
<1> DEFINE step == [i \in 1 .. Len(digits) |-> [x \in Number |-> TenTimes(x, digits[i])]]
           Next0(g, i) == IF i = 0 THEN <<0, 0>> ELSE TenTimes(g[i - 1], digits[i])
<1>0. Len(digits) \in Nat /\ \A i \in 1 .. Len(digits) : digits[i] \in 0 .. 9
  OBVIOUS
<1>1. ASSUME NEW i \in 1 .. Len(digits), NEW x \in Number
      PROVE  step[i][x] = TenTimes(x, digits[i]) /\ step[i][x] \in Number
  <2>1. step[i][x] = TenTimes(x, digits[i])
    OBVIOUS
  <2> QED BY <2>1, TenTimesAmount, <1>0, Zenon
<1>2. <<0, 0>> \in Number /\ Amount(<<0, 0>>) = 0
  BY NumberPair, SMT
<1>3. PICK f \in [0 .. Len(digits) -> Number] :
        f[0] = <<0, 0>> /\ \A i \in 1 .. Len(digits) : f[i] = step[i][f[i - 1]]
  <2> DEFINE m    == Len(digits)
             zero == <<0, 0>>
  <2>1. m \in Nat /\ zero \in Number /\ StaysIn(m, Number, step)
    BY <1>1, <1>2 DEF StaysIn
  <2> HIDE DEF step, m, zero
  <2>2. PICK f : f \in Iterations(m, Number, zero, step)
    BY <2>1, Iteration
  <2>3. f \in [0 .. m -> Number] /\ f[0] = zero /\ \A i \in 1 .. m : f[i] = step[i][f[i - 1]]
    BY <2>2 DEF Iterations
  <2> QED BY <2>3 DEF m, zero
<1>4. ASSUME NEW i \in 1 .. Len(digits)
      PROVE  f[i - 1] \in Number /\ f[i] = TenTimes(f[i - 1], digits[i])
  <2>1. i - 1 \in 0 .. Len(digits)
    OBVIOUS
  <2> HIDE DEF step
  <2> QED BY <1>1, <1>3, <2>1
<1>5. f = [i \in 0 .. Len(digits) |-> Next0(f, i)]
  <2>1. \A i \in 0 .. Len(digits) : i = 0 \/ i \in 1 .. Len(digits)
    OBVIOUS
  <2>2. \A i \in 0 .. Len(digits) : f[i] = Next0(f, i)
    BY <1>3, <1>4, <2>1
  <2> HIDE DEF Next0
  <2> QED BY <1>3, <2>2
<1> DEFINE F == CHOOSE g : g = [i \in 0 .. Len(digits) |-> Next0(g, i)]
<1>6. F = [i \in 0 .. Len(digits) |-> Next0(F, i)]
  <2> HIDE DEF Next0
  <2> QED BY <1>5
<1>7. Reading(digits) = F
  BY Zenon DEF Reading
<1> HIDE DEF F
<1>8. F[0] = <<0, 0>> /\ \A i \in 1 .. Len(digits) : F[i] = TenTimes(F[i - 1], digits[i])
  <2>1. \A i \in 0 .. Len(digits) : F[i] = Next0(F, i)
    <3> HIDE DEF Next0
    <3> QED BY <1>6
  <2>2. 0 \in 0 .. Len(digits) /\ \A i \in 1 .. Len(digits) : i \in 0 .. Len(digits) /\ i # 0
    OBVIOUS
  <2> QED BY <2>1, <2>2, Zenon
<1> DEFINE T == {i \in 0 .. Len(digits) : F[i] \in Number}
<1>9. 0 .. Len(digits) \subseteq T
  <2>1. 0 \in T
    BY <1>2, <1>8
  <2>2. ASSUME NEW i \in 0 .. Len(digits) - 1, i \in T PROVE i + 1 \in T
    <3>1. i + 1 \in 1 .. Len(digits) /\ i + 1 \in 0 .. Len(digits) /\ (i + 1) - 1 = i
      OBVIOUS
    <3>2. F[i + 1] = TenTimes(F[i], digits[i + 1])
      BY <1>8, <3>1
    <3> QED BY <2>2, <3>1, <3>2, TenTimesAmount, <1>0, Zenon
  <2> HIDE DEF T
  <2> QED BY <1>0, <2>1, <2>2, SetInduction
<1>10. F \in [0 .. Len(digits) -> Number]
  <2> HIDE DEF Next0
  <2> QED BY <1>6, <1>9
<1>11. ASSUME NEW i \in 1 .. Len(digits)
       PROVE  Amount(F[i]) = 10 * Amount(F[i - 1]) + digits[i]
  <2>1. i - 1 \in 0 .. Len(digits)
    OBVIOUS
  <2>2. F[i - 1] \in Number
    BY <2>1, <1>9
  <2> QED BY <1>8, <2>2, TenTimesAmount, <1>0, Zenon
<1> QED
  BY <1>2, <1>7, <1>8, <1>10, <1>11, Zenon

LEMMA HalvesSteps ==
  ASSUME NEW n \in Number
  PROVE  /\ Halves(n) \in [0 .. 44 -> Number]
         /\ Halves(n)[0] = n
         /\ \A i \in 1 .. 44 : Halves(n)[i] = Halve(Halves(n)[i - 1])
<1> DEFINE step == [i \in 1 .. 44 |-> [x \in Number |-> Halve(x)]]
           Next0(g, i) == IF i = 0 THEN n ELSE Halve(g[i - 1])
<1>1. ASSUME NEW i \in 1 .. 44, NEW x \in Number
      PROVE  step[i][x] = Halve(x) /\ step[i][x] \in Number
  <2>1. step[i][x] = Halve(x)
    OBVIOUS
  <2> QED BY <2>1, HalveAmount, Zenon
<1>3. PICK f \in [0 .. 44 -> Number] :
        f[0] = n /\ \A i \in 1 .. 44 : f[i] = step[i][f[i - 1]]
  <2> DEFINE m    == 44
             zero == n
  <2>1. m \in Nat /\ zero \in Number /\ StaysIn(m, Number, step)
    BY <1>1 DEF StaysIn
  <2> HIDE DEF step, m, zero
  <2>2. PICK f : f \in Iterations(m, Number, zero, step)
    BY <2>1, Iteration
  <2>3. f \in [0 .. m -> Number] /\ f[0] = zero /\ \A i \in 1 .. m : f[i] = step[i][f[i - 1]]
    BY <2>2 DEF Iterations
  <2> QED BY <2>3 DEF m, zero
<1>4. ASSUME NEW i \in 1 .. 44
      PROVE  f[i - 1] \in Number /\ f[i] = Halve(f[i - 1])
  <2>1. i - 1 \in 0 .. 44
    OBVIOUS
  <2> HIDE DEF step
  <2> QED BY <1>1, <1>3, <2>1
<1>5. f = [i \in 0 .. 44 |-> Next0(f, i)]
  <2>1. \A i \in 0 .. 44 : i = 0 \/ i \in 1 .. 44
    OBVIOUS
  <2>2. \A i \in 0 .. 44 : f[i] = Next0(f, i)
    BY <1>3, <1>4, <2>1
  <2> HIDE DEF Next0
  <2> QED BY <1>3, <2>2
<1> DEFINE F == CHOOSE g : g = [i \in 0 .. 44 |-> Next0(g, i)]
<1>6. F = [i \in 0 .. 44 |-> Next0(F, i)]
  <2> HIDE DEF Next0
  <2> QED BY <1>5
<1>7. Halves(n) = F
  BY Zenon DEF Halves
<1> HIDE DEF F
<1>8. F[0] = n /\ \A i \in 1 .. 44 : F[i] = Halve(F[i - 1])
  <2>1. \A i \in 0 .. 44 : F[i] = Next0(F, i)
    <3> HIDE DEF Next0
    <3> QED BY <1>6
  <2>2. 0 \in 0 .. 44 /\ \A i \in 1 .. 44 : i \in 0 .. 44 /\ i # 0
    OBVIOUS
  <2> QED BY <2>1, <2>2, Zenon
<1> DEFINE T == {i \in 0 .. 44 : F[i] \in Number}
<1>9. 0 .. 44 \subseteq T
  <2>1. 0 \in T
    BY <1>8
  <2>2. ASSUME NEW i \in 0 .. 44 - 1, i \in T PROVE i + 1 \in T
    <3>1. i + 1 \in 1 .. 44 /\ i + 1 \in 0 .. 44 /\ (i + 1) - 1 = i
      OBVIOUS
    <3>2. F[i + 1] = Halve(F[i])
      BY <1>8, <3>1
    <3> QED BY <2>2, <3>1, <3>2, HalveAmount, Zenon
  <2> HIDE DEF T
  <2> QED BY <2>1, <2>2, SetInduction
<1>10. F \in [0 .. 44 -> Number]
  <2> HIDE DEF Next0
  <2> QED BY <1>6, <1>9
<1> QED
  BY <1>7, <1>8, <1>10, Zenon

------------------------------------------------------------------------------
\* Numbers are compared by the highest bit in which they differ.
SameFrom(k, m, A, B) == \A j \in k .. m - 1 : j \in A <=> j \in B
BelowFrom(k, A, B)   == \E b \in B \ A : b >= k /\ \A c \in A \ B : c < b

LEMMA SameOneMore ==
  ASSUME NEW m \in Nat, NEW k \in 0 .. m - 1, NEW A, NEW B, SameFrom(k + 1, m, A, B),
         k \in A <=> k \in B
  PROVE  SameFrom(k, m, A, B)
<1>1. \A j \in k .. m - 1 : j = k \/ j \in k + 1 .. m - 1
  OBVIOUS
<1> QED
  BY <1>1 DEF SameFrom

LEMMA FirstDifference ==
  ASSUME NEW m \in Nat, NEW k \in 0 .. m - 1, NEW A, NEW B, SameFrom(k + 1, m, A, B),
         A \subseteq 0 .. m - 1, k \in B, k \notin A
  PROVE  BelowFrom(k, A, B)
<1>1. ASSUME NEW c \in A \ B PROVE c < k
  <2>1. c \in 0 .. m - 1 /\ c # k /\ c \notin k + 1 .. m - 1
    BY DEF SameFrom
  <2> QED BY <2>1
<1> QED
  BY <1>1 DEF BelowFrom

LEMMA BelowOneMore ==
  ASSUME NEW k \in Nat, NEW A, NEW B, A \subseteq Nat, B \subseteq Nat, BelowFrom(k + 1, A, B)
  PROVE  BelowFrom(k, A, B)
<1>1. PICK b \in B \ A : b >= k + 1 /\ \A c \in A \ B : c < b
  BY DEF BelowFrom
<1>2. b \in Nat /\ b >= k
  BY <1>1
<1> QED
  BY <1>1, <1>2 DEF BelowFrom

LEMMA BelowOneWay ==
  ASSUME NEW A, NEW B, A \subseteq Nat, B \subseteq Nat, BelowFrom(0, A, B)
  PROVE  ~ BelowFrom(0, B, A) /\ A # B
<1>1. PICK b \in B \ A : \A c \in A \ B : c < b
  BY DEF BelowFrom
<1>2. ASSUME NEW a \in A \ B, \A c \in B \ A : c < a PROVE FALSE
  <2>1. a < b /\ b < a
    BY <1>1, <1>2
  <2>2. a \in Nat /\ b \in Nat
    OBVIOUS
  <2> QED BY <2>1, <2>2
<1> QED
  BY <1>1, <1>2 DEF BelowFrom

LEMMA BelowFromZero ==
  ASSUME NEW A, NEW B, A \subseteq Nat, B \subseteq Nat
  PROVE  BelowFrom(0, A, B) <=> \E b \in B \ A : \A c \in A \ B : c < b
<1>1. \A b \in B \ A : b >= 0
  OBVIOUS
<1> QED
  BY <1>1, Zenon DEF BelowFrom

\* G[k] is the number that the bits of A from k on make.
Halving(G, m, A) ==
  /\ A \subseteq 0 .. m - 1
  /\ G \in [0 .. m -> Nat]
  /\ G[m] = 0
  /\ \A k \in 0 .. m - 1 : G[k] = 2 * G[k + 1] + Bit(k, A)

Compared(k, m, A, B, G, H) ==
  \/ SameFrom(k, m, A, B) /\ G[k] = H[k]
  \/ BelowFrom(k, A, B) /\ G[k] < H[k]
  \/ BelowFrom(k, B, A) /\ G[k] > H[k]

LEMMA CompareOneMore ==
  ASSUME NEW m \in Nat, NEW A, NEW B, NEW G, NEW H, Halving(G, m, A), Halving(H, m, B),
         NEW k \in 0 .. m - 1, Compared(k + 1, m, A, B, G, H)
  PROVE  Compared(k, m, A, B, G, H)
<1>r. A \subseteq 0 .. m - 1 /\ B \subseteq 0 .. m - 1
  BY Zenon DEF Halving
<1>n. 0 .. m - 1 \subseteq Nat
  OBVIOUS
<1>0. A \subseteq Nat /\ B \subseteq Nat /\ A \subseteq 0 .. m - 1 /\ B \subseteq 0 .. m - 1
  BY <1>r, <1>n, Zenon
<1>1. k \in Nat /\ k \in 0 .. m /\ k + 1 \in 0 .. m
  OBVIOUS
<1>3. /\ G[k] = 2 * G[k + 1] + Bit(k, A) /\ H[k] = 2 * H[k + 1] + Bit(k, B)
      /\ G[k] \in Nat /\ H[k] \in Nat /\ G[k + 1] \in Nat /\ H[k + 1] \in Nat
      /\ Bit(k, A) \in 0 .. 1 /\ Bit(k, B) \in 0 .. 1 
  BY <1>1, BitValue DEF Halving
<1>4. CASE SameFrom(k + 1, m, A, B) /\ G[k + 1] = H[k + 1]
  <2>1. CASE k \in A <=> k \in B
    <3>1. SameFrom(k, m, A, B)
      BY <1>1, <1>4, <2>1, SameOneMore
    <3>2. Bit(k, A) = Bit(k, B)
      BY <2>1 DEF Bit
    <3>3. G[k] = H[k]
      BY <1>3, <1>4, <3>2
    <3> QED BY <3>1, <3>3 DEF Compared
  <2>2. CASE k \in B /\ k \notin A
    <3>1. BelowFrom(k, A, B)
      BY <1>0, <1>1, <1>4, <2>2, FirstDifference
    <3>2. Bit(k, A) = 0 /\ Bit(k, B) = 1
      BY <2>2 DEF Bit
    <3>3. G[k] < H[k]
      BY <1>3, <1>4, <3>2
    <3> QED BY <3>1, <3>3 DEF Compared
  <2>3. CASE k \in A /\ k \notin B
    <3>1. SameFrom(k + 1, m, B, A)
      BY <1>4 DEF SameFrom
    <3>2. BelowFrom(k, B, A)
      BY <1>0, <1>1, <3>1, <2>3, FirstDifference
    <3>3. Bit(k, A) = 1 /\ Bit(k, B) = 0
      BY <2>3 DEF Bit
    <3>4. G[k] > H[k]
      BY <1>3, <1>4, <3>3
    <3> QED BY <3>2, <3>4 DEF Compared
  <2> QED BY <2>1, <2>2, <2>3
<1>5. CASE BelowFrom(k + 1, A, B) /\ G[k + 1] < H[k + 1]
  <2>1. BelowFrom(k, A, B)
    BY <1>0, <1>1, <1>5, BelowOneMore
  <2>2. G[k] < H[k]
    BY <1>3, <1>5
  <2> QED BY <2>1, <2>2 DEF Compared
<1>6. CASE BelowFrom(k + 1, B, A) /\ G[k + 1] > H[k + 1]
  <2>1. BelowFrom(k, B, A)
    BY <1>0, <1>1, <1>6, BelowOneMore
  <2>2. G[k] > H[k]
    BY <1>3, <1>6
  <2> QED BY <2>1, <2>2 DEF Compared
<1> QED
  BY <1>4, <1>5, <1>6 DEF Compared

LEMMA CompareBits ==
  ASSUME NEW m \in Nat, NEW A, NEW B, NEW G, NEW H, Halving(G, m, A), Halving(H, m, B)
  PROVE  /\ G[0] = H[0] <=> A = B
         /\ G[0] < H[0] <=> \E b \in B \ A : \A c \in A \ B : c < b
<1> DEFINE T == {i \in 0 .. m : Compared(m - i, m, A, B, G, H)}
<1>r. A \subseteq 0 .. m - 1 /\ B \subseteq 0 .. m - 1
  BY Zenon DEF Halving
<1>n. 0 .. m - 1 \subseteq Nat
  OBVIOUS
<1>0. A \subseteq Nat /\ B \subseteq Nat /\ A \subseteq 0 .. m - 1 /\ B \subseteq 0 .. m - 1
  BY <1>r, <1>n, Zenon
<1>1. 0 \in T
  <2>1. SameFrom(m, m, A, B) /\ m - 0 = m /\ 0 \in 0 .. m /\ G[m] = H[m]
    BY DEF SameFrom, Halving
  <2> QED BY <2>1 DEF Compared
<1>2. ASSUME NEW i \in 0 .. m - 1, i \in T PROVE i + 1 \in T
  <2> DEFINE k == m - (i + 1)
  <2>1. k \in 0 .. m - 1 /\ k + 1 = m - i /\ i + 1 \in 0 .. m
    OBVIOUS
  <2>2. Compared(k + 1, m, A, B, G, H)
    BY <1>2, <2>1
  <2> HIDE DEF k
  <2>3. Compared(k, m, A, B, G, H)
    BY <2>1, <2>2, CompareOneMore
  <2> QED BY <2>1, <2>3 DEF k
<1>3. 0 .. m \subseteq T
  <2> HIDE DEF T
  <2> QED BY <1>1, <1>2, SetInduction
<1>4. Compared(0, m, A, B, G, H)
  <2>1. m \in T /\ m - m = 0
    BY <1>3
  <2> QED BY <2>1
<1>5. G[0] \in Nat /\ H[0] \in Nat
  BY DEF Halving
<1>6. SameFrom(0, m, A, B) => A = B
  BY <1>0 DEF SameFrom
<1>7. BelowFrom(0, A, B) <=> \E b \in B \ A : \A c \in A \ B : c < b
  BY <1>0, BelowFromZero
<1>8. /\ BelowFrom(0, A, B) => ~ BelowFrom(0, B, A) /\ A # B
      /\ BelowFrom(0, B, A) => ~ BelowFrom(0, A, B) /\ A # B
  BY <1>0, BelowOneWay
<1>9. A = B => G[0] = H[0]
  BY <1>4, <1>8 DEF Compared
<1> QED
  BY <1>4, <1>5, <1>6, <1>7, <1>8, <1>9 DEF Compared

\* No number has more than 40 bits.
Limit == 1099511627776

LEMMA NumberOfBounded ==
  ASSUME NEW bits
  PROVE  /\ NumberOf(bits) \in Number
         /\ Amount(NumberOf(bits)) \in Nat
         /\ Amount(NumberOf(bits)) < Limit
<1> DEFINE V == [i \in 0 .. 40 |-> Amount(Leading(bits)[i])]
<1>1. /\ V \in [0 .. 40 -> Nat]
      /\ V[0] = 0
      /\ \A i \in 1 .. 40 : V[i] <= 2 * V[i - 1] + 1
  <2>1. \A i \in 0 .. 40 : Leading(bits)[i] \in Number
    BY LeadingSteps
  <2>2. \A i \in 0 .. 40 : V[i] = Amount(Leading(bits)[i]) /\ V[i] \in Nat
    BY <2>1, HalveAmount
  <2>3. ASSUME NEW i \in 1 .. 40 PROVE V[i] <= 2 * V[i - 1] + 1
    <3>1. i - 1 \in 0 .. 40 /\ i \in 0 .. 40
      OBVIOUS
    <3>2. V[i] = 2 * V[i - 1] + Bit(40 - i, bits)
      BY <2>2, <3>1, LeadingSteps, Zenon
    <3>3. Bit(40 - i, bits) \in 0 .. 1 /\ V[i] \in Nat /\ V[i - 1] \in Nat
      BY <2>2, <3>1, BitValue
    <3> HIDE DEF V
    <3> QED BY <3>2, <3>3
  <2> QED BY <2>2, <2>3, LeadingSteps
<1> HIDE DEF V
<1>2. ASSUME NEW i \in 0 .. 36 PROVE V[i + 4] <= 16 * V[i] + 15
  <2>1. /\ V[i] \in Nat /\ V[i + 1] \in Nat /\ V[i + 2] \in Nat /\ V[i + 3] \in Nat
        /\ V[i + 4] \in Nat
    BY <1>1
  <2>2. V[i + 1] <= 2 * V[i] + 1 
    <3>1. i + 1 \in 1 .. 40 /\ (i + 1) - 1 = i
      OBVIOUS
    <3> QED BY <1>1, <3>1
  <2>3. V[i + 2] <= 2 * V[i + 1] + 1
    <3>1. i + 2 \in 1 .. 40 /\ (i + 2) - 1 = i + 1
      OBVIOUS
    <3> QED BY <1>1, <3>1
  <2>4. V[i + 3] <= 2 * V[i + 2] + 1
    <3>1. i + 3 \in 1 .. 40 /\ (i + 3) - 1 = i + 2
      OBVIOUS
    <3> QED BY <1>1, <3>1
  <2>5. V[i + 4] <= 2 * V[i + 3] + 1
    <3>1. i + 4 \in 1 .. 40 /\ (i + 4) - 1 = i + 3
      OBVIOUS
    <3> QED BY <1>1, <3>1
  <2> QED BY <2>1, <2>2, <2>3, <2>4, <2>5
<1>3. /\ V[4] <= 16 * V[0] + 15 /\ V[8] <= 16 * V[4] + 15 /\ V[12] <= 16 * V[8] + 15
      /\ V[16] <= 16 * V[12] + 15 /\ V[20] <= 16 * V[16] + 15 /\ V[24] <= 16 * V[20] + 15
      /\ V[28] <= 16 * V[24] + 15 /\ V[32] <= 16 * V[28] + 15 /\ V[36] <= 16 * V[32] + 15
      /\ V[40] <= 16 * V[36] + 15
  <2>1. /\ 0 \in 0 .. 36 /\ 0 + 4 = 4 /\ 4 \in 0 .. 36 /\ 4 + 4 = 8
        /\ 8 \in 0 .. 36 /\ 8 + 4 = 12 /\ 12 \in 0 .. 36 /\ 12 + 4 = 16
        /\ 16 \in 0 .. 36 /\ 16 + 4 = 20 /\ 20 \in 0 .. 36 /\ 20 + 4 = 24
        /\ 24 \in 0 .. 36 /\ 24 + 4 = 28 /\ 28 \in 0 .. 36 /\ 28 + 4 = 32
        /\ 32 \in 0 .. 36 /\ 32 + 4 = 36 /\ 36 \in 0 .. 36 /\ 36 + 4 = 40
    BY SMT
  <2> QED BY <1>2, <2>1, SMT
<1>4. \A i \in {0, 4, 8, 12, 16, 20, 24, 28, 32, 36, 40} : V[i] \in Nat
  BY <1>1, SMT
<1>5. V[40] \in Nat /\ V[40] < Limit
  BY <1>1, <1>3, <1>4, SMT DEF Limit
<1>6. V[40] = Amount(NumberOf(bits)) /\ NumberOf(bits) \in Number
  <2>1. 40 \in 0 .. 40
    OBVIOUS
  <2> QED BY <2>1, LeadingSteps DEF NumberOf, V
<1> QED
  BY <1>5, <1>6, SMT

\* The bits of a number that a pair stands for, as BitsOf finds them.
OddHalves(n) == {k \in 0 .. 43 : Halves(n)[k][2] % 2 = 1}

LEMMA HalvesHalving ==
  ASSUME NEW n \in Number, Amount(n) < Limit
  PROVE  Halving([k \in 0 .. 40 |-> Amount(Halves(n)[k])], 40, OddHalves(n))
<1> DEFINE V == [k \in 0 .. 44 |-> Amount(Halves(n)[k])]
           W == [k \in 0 .. 40 |-> Amount(Halves(n)[k])]
           odd(k) == Halves(n)[k][2] % 2
<1>1. \A k \in 0 .. 44 : V[k] = Amount(Halves(n)[k]) /\ V[k] \in Nat
  <2>1. \A k \in 0 .. 44 : Halves(n)[k] \in Number
    BY HalvesSteps
  <2> QED BY <2>1, HalveAmount
<1>2. ASSUME NEW k \in 0 .. 43 PROVE V[k] = 2 * V[k + 1] + odd(k) /\ odd(k) \in {0, 1}
  <2>1. k + 1 \in 1 .. 44 /\ (k + 1) - 1 = k /\ k \in 0 .. 44 /\ k + 1 \in 0 .. 44
    OBVIOUS
  <2>2. Halves(n)[k + 1] = Halve(Halves(n)[k]) /\ Halves(n)[k] \in Number
    BY <2>1, HalvesSteps
  <2> HIDE DEF V
  <2> QED BY <1>1, <2>1, <2>2, HalveAmount
<1>3. V[0] = Amount(n)
  <2>1. 0 \in 0 .. 44
    OBVIOUS
  <2> QED BY <2>1, HalvesSteps
<1>4. W \in [0 .. 40 -> Nat] /\ \A k \in 0 .. 40 : W[k] = V[k]
  <2>1. \A k \in 0 .. 40 : k \in 0 .. 44
    OBVIOUS
  <2>2. \A k \in 0 .. 40 : Amount(Halves(n)[k]) \in Nat
    BY <1>1, <2>1
  <2> QED BY <2>2, <2>1
<1> HIDE DEF V, odd
<1>5. ASSUME NEW k \in 0 .. 40 PROVE V[k] >= 16 * V[k + 4]
  <2>1. /\ k \in 0 .. 43 /\ k + 1 \in 0 .. 43 /\ k + 2 \in 0 .. 43 /\ k + 3 \in 0 .. 43
        /\ (k + 1) + 1 = k + 2 /\ (k + 2) + 1 = k + 3 /\ (k + 3) + 1 = k + 4
    OBVIOUS
  <2>2. /\ V[k] = 2 * V[k + 1] + odd(k) /\ odd(k) \in {0, 1}
        /\ V[k + 1] = 2 * V[k + 2] + odd(k + 1) /\ odd(k + 1) \in {0, 1}
        /\ V[k + 2] = 2 * V[k + 3] + odd(k + 2) /\ odd(k + 2) \in {0, 1}
        /\ V[k + 3] = 2 * V[k + 4] + odd(k + 3) /\ odd(k + 3) \in {0, 1}
    BY <1>2, <2>1
  <2>3. V[k] \in Nat /\ V[k + 1] \in Nat /\ V[k + 2] \in Nat /\ V[k + 3] \in Nat /\ V[k + 4] \in Nat
    BY <1>1
  <2> QED BY <2>2, <2>3
<1>6. /\ V[0] >= 16 * V[4] /\ V[4] >= 16 * V[8] /\ V[8] >= 16 * V[12] /\ V[12] >= 16 * V[16]
      /\ V[16] >= 16 * V[20] /\ V[20] >= 16 * V[24] /\ V[24] >= 16 * V[28]
      /\ V[28] >= 16 * V[32] /\ V[32] >= 16 * V[36] /\ V[36] >= 16 * V[40] /\ V[40] >= 16 * V[44]
  <2>1. /\ 0 \in 0 .. 40 /\ 0 + 4 = 4 /\ 4 \in 0 .. 40 /\ 4 + 4 = 8
        /\ 8 \in 0 .. 40 /\ 8 + 4 = 12 /\ 12 \in 0 .. 40 /\ 12 + 4 = 16
        /\ 16 \in 0 .. 40 /\ 16 + 4 = 20 /\ 20 \in 0 .. 40 /\ 20 + 4 = 24
        /\ 24 \in 0 .. 40 /\ 24 + 4 = 28 /\ 28 \in 0 .. 40 /\ 28 + 4 = 32
        /\ 32 \in 0 .. 40 /\ 32 + 4 = 36 /\ 36 \in 0 .. 40 /\ 36 + 4 = 40
        /\ 40 \in 0 .. 40 /\ 40 + 4 = 44
    BY SMT
  <2> QED BY <1>5, <2>1, SMT
<1>7. \A i \in {0, 4, 8, 12, 16, 20, 24, 28, 32, 36, 40} : V[i] \in Nat
  BY <1>1, SMT
<1>8. V[40] = 0
  BY <1>3, <1>6, <1>7, SMT DEF Limit
<1>9. odd(40) = 0 /\ odd(41) = 0 /\ odd(42) = 0 /\ odd(43) = 0
  <2>1. V[40] = 2 * V[41] + odd(40) /\ odd(40) \in {0, 1} /\ V[41] \in Nat
    BY <1>1, <1>2
  <2>2. V[41] = 2 * V[42] + odd(41) /\ odd(41) \in {0, 1} /\ V[42] \in Nat
    BY <1>1, <1>2
  <2>3. V[42] = 2 * V[43] + odd(42) /\ odd(42) \in {0, 1} /\ V[43] \in Nat
    BY <1>1, <1>2
  <2>4. V[43] = 2 * V[44] + odd(43) /\ odd(43) \in {0, 1} /\ V[44] \in Nat
    BY <1>1, <1>2
  <2>5. odd(40) = 0 /\ V[41] = 0
    BY <1>8, <2>1
  <2>6. odd(41) = 0 /\ V[42] = 0
    BY <2>2, <2>5
  <2>7. odd(42) = 0 /\ V[43] = 0
    BY <2>3, <2>6
  <2>8. odd(43) = 0
    BY <2>4, <2>7
  <2> QED BY <2>5, <2>6, <2>7, <2>8
<1>10. OddHalves(n) = {k \in 0 .. 43 : odd(k) = 1}
  BY DEF OddHalves, odd
<1>11. OddHalves(n) \subseteq 0 .. 40 - 1
  <2>1. ASSUME NEW k \in 0 .. 43, odd(k) = 1 PROVE k \in 0 .. 40 - 1
    <3>1. k # 40 /\ k # 41 /\ k # 42 /\ k # 43
      BY <1>9, <2>1
    <3> QED BY <3>1
  <2> QED BY <1>10, <2>1
<1>12. ASSUME NEW k \in 0 .. 40 - 1 PROVE W[k] = 2 * W[k + 1] + Bit(k, OddHalves(n))
  <2>1. k \in 0 .. 43 /\ k \in 0 .. 40 /\ k + 1 \in 0 .. 40
    OBVIOUS
  <2>2. Bit(k, OddHalves(n)) = odd(k)
    BY <1>2, <1>10, <2>1 DEF Bit
  <2> HIDE DEF W
  <2> QED BY <1>2, <1>4, <2>1, <2>2
<1>13. W[40] = 0
  BY <1>4, <1>8
<1> HIDE DEF W
<1>14. Halving(W, 40, OddHalves(n))
  BY <1>4, <1>11, <1>12, <1>13, Zenon DEF Halving
<1> QED
  BY <1>14 DEF W

LEMMA LeadingHalving ==
  ASSUME NEW bits, bits \subseteq 0 .. 39
  PROVE  Halving([k \in 0 .. 40 |-> Amount(Leading(bits)[40 - k])], 40, bits)
<1> DEFINE G == [k \in 0 .. 40 |-> Amount(Leading(bits)[40 - k])]
<1>1. ASSUME NEW k \in 0 .. 40 PROVE Leading(bits)[40 - k] \in Number /\ 40 - k \in 0 .. 40
  <2>1. 40 - k \in 0 .. 40
    OBVIOUS
  <2> QED BY <2>1, LeadingSteps
<1>2. G \in [0 .. 40 -> Nat]
  BY <1>1, HalveAmount
<1>3. ASSUME NEW k \in 0 .. 40 - 1 PROVE G[k] = 2 * G[k + 1] + Bit(k, bits)
  <2>1. /\ k \in 0 .. 40 /\ k + 1 \in 0 .. 40 /\ 40 - k \in 1 .. 40
        /\ 40 - (k + 1) = (40 - k) - 1 /\ 40 - (40 - k) = k
    OBVIOUS
  <2>2. Amount(Leading(bits)[40 - k]) =
          2 * Amount(Leading(bits)[(40 - k) - 1]) + Bit(40 - (40 - k), bits)
    BY <2>1, LeadingSteps, Zenon
  <2> QED BY <2>1, <2>2, Zenon
<1>4. G[40] = 0
  <2>1. 40 \in 0 .. 40 /\ 40 - 40 = 0
    OBVIOUS
  <2> QED BY <2>1, LeadingSteps, Zenon
<1>5. bits \subseteq 0 .. 40 - 1
  OBVIOUS
<1> HIDE DEF G
<1>6. Halving(G, 40, bits)
  BY <1>2, <1>3, <1>4, <1>5, Zenon DEF Halving
<1> QED
  BY <1>6 DEF G

\* A number is one set of bits, and numbers are compared by their highest different bit.
LEMMA NumberComparison ==
  ASSUME NEW bits, bits \subseteq 0 .. 39, NEW n \in Number, Amount(n) < Limit
  PROVE  /\ Amount(NumberOf(bits)) = Amount(n) <=> bits = OddHalves(n)
         /\ Amount(NumberOf(bits)) < Amount(n) <=>
              \E b \in OddHalves(n) \ bits : \A c \in bits \ OddHalves(n) : c < b
<1> DEFINE G == [k \in 0 .. 40 |-> Amount(Leading(bits)[40 - k])]
           H == [k \in 0 .. 40 |-> Amount(Halves(n)[k])]
           m == 40
<1>1. m \in Nat /\ Halving(G, m, bits) /\ Halving(H, m, OddHalves(n))
  BY LeadingHalving, HalvesHalving
<1>2. G[0] = Amount(NumberOf(bits)) /\ H[0] = Amount(n)
  <2>1. 0 \in 0 .. 40 /\ 40 - 0 = 40 /\ 0 \in 0 .. 44
    OBVIOUS
  <2> QED BY <2>1, HalvesSteps DEF NumberOf
<1> HIDE DEF G, H, m
<1>3. /\ G[0] = H[0] <=> bits = OddHalves(n)
      /\ G[0] < H[0] <=> \E b \in OddHalves(n) \ bits : \A c \in bits \ OddHalves(n) : c < b
  BY <1>1, CompareBits
<1> QED
  BY <1>2, <1>3

------------------------------------------------------------------------------
\* Numbers and their decimal digits.

\* Seven digits and the number they make.
Seven(e) ==
  e[0] + 10 * e[1] + 100 * e[2] + 1000 * e[3] + 10000 * e[4] + 100000 * e[5] + 1000000 * e[6]

AreLowDigits(e, t) ==
  /\ e[0] = t % 10
  /\ e[1] = (t \div 10) % 10
  /\ e[2] = (t \div 100) % 10
  /\ e[3] = (t \div 1000) % 10
  /\ e[4] = (t \div 10000) % 10
  /\ e[5] = (t \div 100000) % 10
  /\ e[6] = (t \div 1000000) % 10
  /\ t = Seven(e)

LEMMA LowDigits ==
  ASSUME NEW t \in Nat, t < 10000000
  PROVE  \E e \in [0 .. 6 -> 0 .. 9] : AreLowDigits(e, t)
<1>1. \A x \in Nat : x \div 10 \in Nat /\ x % 10 \in 0 .. 9 /\ x = 10 * (x \div 10) + (x % 10)
  BY SMT
<1>2. t \div 100 = (t \div 10) \div 10 /\ t \div 100 \in Nat
  BY SMT
<1>3. t \div 1000 = (t \div 100) \div 10 /\ t \div 1000 \in Nat
  BY SMT
<1>4. t \div 10000 = (t \div 1000) \div 10 /\ t \div 10000 \in Nat
  BY SMT
<1>5. t \div 100000 = (t \div 10000) \div 10 /\ t \div 100000 \in Nat
  BY SMT
<1>6. t \div 1000000 = (t \div 100000) \div 10 /\ t \div 1000000 \in Nat
  BY SMT
<1>7. t \div 10 \in Nat /\ t \div 1000000 < 10
  BY SMT
<1> DEFINE q1 == t \div 10
           q2 == t \div 100
           q3 == t \div 1000
           q4 == t \div 10000
           q5 == t \div 100000
           q6 == t \div 1000000
<1>8. /\ q1 \in Nat /\ q2 \in Nat /\ q3 \in Nat /\ q4 \in Nat /\ q5 \in Nat /\ q6 \in Nat /\ q6 < 10
      /\ q2 = q1 \div 10 /\ q3 = q2 \div 10 /\ q4 = q3 \div 10 /\ q5 = q4 \div 10 /\ q6 = q5 \div 10
      /\ q1 = t \div 10
  BY <1>2, <1>3, <1>4, <1>5, <1>6, <1>7, SMT
<1> HIDE DEF q1, q2, q3, q4, q5, q6
<1>9. /\ t = 10 * q1 + (t % 10) /\ q1 = 10 * q2 + (q1 % 10) /\ q2 = 10 * q3 + (q2 % 10)
      /\ q3 = 10 * q4 + (q3 % 10) /\ q4 = 10 * q5 + (q4 % 10) /\ q5 = 10 * q6 + (q5 % 10)
      /\ q6 = q6 % 10
  BY <1>8, SMT
<1>10. \A x \in {t, q1, q2, q3, q4, q5, q6} : x \in Nat /\ x % 10 \in 0 .. 9
  BY <1>1, <1>8, SMT
<1>11. t = (t % 10) + 10 * (q1 % 10) + 100 * (q2 % 10) + 1000 * (q3 % 10) + 10000 * (q4 % 10)
           + 100000 * (q5 % 10) + 1000000 * (q6 % 10)
  BY <1>8, <1>9, <1>10, SMT
<1> DEFINE e == [k \in 0 .. 6 |->
                  <<t % 10, q1 % 10, q2 % 10, q3 % 10, q4 % 10, q5 % 10, q6 % 10>>[k + 1]]
<1>12. /\ e[0] = t % 10 /\ e[1] = q1 % 10 /\ e[2] = q2 % 10 /\ e[3] = q3 % 10 /\ e[4] = q4 % 10
       /\ e[5] = q5 % 10 /\ e[6] = q6 % 10
  BY SMT
<1>13. e \in [0 .. 6 -> 0 .. 9]
  <2>1. ASSUME NEW k \in 0 .. 6 PROVE e[k] \in 0 .. 9
    <3>1. k \in {0, 1, 2, 3, 4, 5, 6}
      OBVIOUS
    <3> HIDE DEF e
    <3> QED BY <1>10, <1>12, <3>1, SMT
  <2> QED BY <2>1
<1> HIDE DEF e
<1>14. t = Seven(e)
  BY <1>11, <1>12, SMT DEF Seven
<1> QED
  BY <1>12, <1>13, <1>14, SMT DEF AreLowDigits, q1, q2, q3, q4, q5, q6

\* The number that thirteen decimal digits make.
Thirteen(d) ==
  d[13] + 10 * d[12] + 100 * d[11] + 1000 * d[10] + 10000 * d[9] + 100000 * d[8]
  + 1000000 * d[7] + 10000000 * d[6] + 100000000 * d[5] + 1000000000 * d[4]
  + 10000000000 * d[3] + 100000000000 * d[2] + 1000000000000 * d[1]

LEMMA DecimalDigits ==
  ASSUME NEW bits
  PROVE  /\ Decimal(bits) \in [1 .. 13 -> 0 .. 9]
         /\ Amount(NumberOf(bits)) = Thirteen(Decimal(bits))
<1> DEFINE n == NumberOf(bits)
           d == Decimal(bits)
<1>1. PICK h \in Nat, t \in Nat :
        n[1] = h /\ n[2] = t /\ t < 10000000 /\ Amount(n) = 10000000 * h + t
  BY NumberOfBounded, PairOfNumber, SMT
<1>2. h < 1000000
  <2>1. Amount(n) < Limit
    BY NumberOfBounded
  <2> HIDE DEF n
  <2> QED BY <1>1, <2>1, SMT DEF Limit
<1>3. d = [i \in 1 .. 13 |-> Digit(n, 13 - i)]
  BY DEF Decimal, digitCount
<1> HIDE DEF n, d
<1>4. /\ Digit(n, 0) = t % 10
      /\ Digit(n, 1) = (t \div 10) % 10
      /\ Digit(n, 2) = (t \div 100) % 10
      /\ Digit(n, 3) = (t \div 1000) % 10
      /\ Digit(n, 4) = (t \div 10000) % 10
      /\ Digit(n, 5) = (t \div 100000) % 10
      /\ Digit(n, 6) = (t \div 1000000) % 10
  BY <1>1, SMT DEF Digit
<1>5. /\ Digit(n, 7) = h % 10
      /\ Digit(n, 8) = (h \div 10) % 10
      /\ Digit(n, 9) = (h \div 100) % 10
      /\ Digit(n, 10) = (h \div 1000) % 10
      /\ Digit(n, 11) = (h \div 10000) % 10
      /\ Digit(n, 12) = (h \div 100000) % 10
  BY <1>1, SMT DEF Digit
<1>6. /\ d[13] = Digit(n, 0) /\ d[12] = Digit(n, 1) /\ d[11] = Digit(n, 2) /\ d[10] = Digit(n, 3)
      /\ d[9] = Digit(n, 4) /\ d[8] = Digit(n, 5) /\ d[7] = Digit(n, 6) /\ d[6] = Digit(n, 7)
      /\ d[5] = Digit(n, 8) /\ d[4] = Digit(n, 9) /\ d[3] = Digit(n, 10)
      /\ d[2] = Digit(n, 11) /\ d[1] = Digit(n, 12)
  BY <1>3, SMT
<1>7. PICK e \in [0 .. 6 -> 0 .. 9] : AreLowDigits(e, t)
  BY <1>1, LowDigits, SMT
<1>8. PICK f \in [0 .. 6 -> 0 .. 9] : AreLowDigits(f, h)
  <2>1. h < 10000000
    BY <1>2, SMT
  <2> QED BY <2>1, LowDigits, SMT
<1>9. f[6] = 0
  BY <1>2, <1>8, SMT DEF AreLowDigits
<1>10. /\ d[13] = e[0] /\ d[12] = e[1] /\ d[11] = e[2] /\ d[10] = e[3]
       /\ d[9] = e[4] /\ d[8] = e[5] /\ d[7] = e[6]
       /\ d[6] = f[0] /\ d[5] = f[1] /\ d[4] = f[2] /\ d[3] = f[3] /\ d[2] = f[4] /\ d[1] = f[5]
  BY <1>4, <1>5, <1>6, <1>7, <1>8, SMT DEF AreLowDigits
<1>11. d \in [1 .. 13 -> 0 .. 9]
  <2>1. ASSUME NEW i \in 1 .. 13 PROVE d[i] \in 0 .. 9
    BY <1>10, SMT
  <2> QED BY <1>3, <2>1
<1>12. Amount(n) = Thirteen(d)
  <2>1. t = Seven(e) /\ h = Seven(f)
    BY <1>7, <1>8, SMT DEF AreLowDigits
  <2>2. \A k \in 0 .. 6 : e[k] \in Nat /\ f[k] \in Nat
    OBVIOUS
  <2> QED BY <1>1, <1>9, <1>10, <2>1, <2>2, SMT DEF Thirteen, Seven
<1> QED
  BY <1>11, <1>12, SMT DEF n, d

------------------------------------------------------------------------------
\* Decimal digits are read back.

LEMMA Slice ==
  ASSUME NEW S, NEW s, NEW a \in Int, NEW b \in Int, a <= b, \A i \in a .. b : s[i] \in S
  PROVE  /\ SubSeq(s, a, b) \in Seq(S)
         /\ Len(SubSeq(s, a, b)) = b - a + 1
         /\ \A i \in 1 .. b - a + 1 : SubSeq(s, a, b)[i] = s[a + i - 1]
BY SubSeqProperties

LEMMA FunctionIsSequence ==
  ASSUME NEW n \in Nat, NEW S, NEW d \in [1 .. n -> S]
  PROVE  d \in Seq(S) /\ Len(d) = n
<1>1. d \in Seq(S)
  BY SeqDef
<1>2. Len(d) \in Nat /\ 1 .. Len(d) = 1 .. n
  BY <1>1, LenProperties
<1> QED
  BY <1>1, <1>2

\* V[i] is the number that the first i digits make.
Horner(V, d) ==
  /\ \A i \in 1 .. 13 : V[i] \in Nat /\ d[i] \in Nat
  /\ V[1] = d[1]
  /\ V[2] = 10 * V[1] + d[2] /\ V[3] = 10 * V[2] + d[3] /\ V[4] = 10 * V[3] + d[4]
  /\ V[5] = 10 * V[4] + d[5] /\ V[6] = 10 * V[5] + d[6] /\ V[7] = 10 * V[6] + d[7]
  /\ V[8] = 10 * V[7] + d[8] /\ V[9] = 10 * V[8] + d[9] /\ V[10] = 10 * V[9] + d[10]
  /\ V[11] = 10 * V[10] + d[11] /\ V[12] = 10 * V[11] + d[12] /\ V[13] = 10 * V[12] + d[13]

LEMMA HornerSum ==
  ASSUME NEW V, NEW d, Horner(V, d)
  PROVE  V[13] = Thirteen(d)
<1> DEFINE d1  == d[1]   v1  == V[1]
           d2  == d[2]   v2  == V[2]
           d3  == d[3]   v3  == V[3]
           d4  == d[4]   v4  == V[4]
           d5  == d[5]   v5  == V[5]
           d6  == d[6]   v6  == V[6]
           d7  == d[7]   v7  == V[7]
           d8  == d[8]   v8  == V[8]
           d9  == d[9]   v9  == V[9]
           d10 == d[10]   v10 == V[10]
           d11 == d[11]   v11 == V[11]
           d12 == d[12]   v12 == V[12]
           d13 == d[13]   v13 == V[13]
<1>1. /\ d1 \in Nat /\ d2 \in Nat /\ d3 \in Nat /\ d4 \in Nat /\ d5 \in Nat /\ d6 \in Nat
      /\ d7 \in Nat /\ d8 \in Nat /\ d9 \in Nat /\ d10 \in Nat /\ d11 \in Nat /\ d12 \in Nat
      /\ d13 \in Nat /\ v1 \in Nat /\ v2 \in Nat /\ v3 \in Nat /\ v4 \in Nat /\ v5 \in Nat
      /\ v6 \in Nat /\ v7 \in Nat /\ v8 \in Nat /\ v9 \in Nat /\ v10 \in Nat /\ v11 \in Nat
      /\ v12 \in Nat /\ v13 \in Nat
  BY DEF Horner
<1>2. /\ v1 = d1
      /\ v2 = 10 * v1 + d2 /\ v3 = 10 * v2 + d3 /\ v4 = 10 * v3 + d4 /\ v5 = 10 * v4 + d5
      /\ v6 = 10 * v5 + d6 /\ v7 = 10 * v6 + d7 /\ v8 = 10 * v7 + d8 /\ v9 = 10 * v8 + d9
      /\ v10 = 10 * v9 + d10 /\ v11 = 10 * v10 + d11 /\ v12 = 10 * v11 + d12
      /\ v13 = 10 * v12 + d13
  BY DEF Horner
<1> HIDE DEF d1, d2, d3, d4, d5, d6, d7, d8, d9, d10, d11, d12, d13, v1, v2, v3, v4, v5, v6
             , v7, v8, v9, v10, v11, v12, v13
<1>3. v13 = d13 + 10 * d12 + 100 * d11 + 1000 * d10 + 10000 * d9 + 100000 * d8
            + 1000000 * d7 + 10000000 * d6 + 100000000 * d5 + 1000000000 * d4
            + 10000000000 * d3 + 100000000000 * d2 + 1000000000000 * d1
  BY <1>1, <1>2, SMT
<1> QED
  BY <1>3, SMT DEF Thirteen, v13, d1, d2, d3, d4, d5, d6, d7, d8, d9, d10, d11, d12, d13

LEMMA ThirteenReading ==
  ASSUME NEW d \in [1 .. 13 -> 0 .. 9]
  PROVE  /\ d \in Seq(0 .. 9) /\ Len(d) = 13
         /\ Amount(Reading(d)[13]) = Thirteen(d)
<1>1. d \in Seq(0 .. 9) /\ Len(d) = 13
  BY FunctionIsSequence
<1> DEFINE V == [i \in 0 .. 13 |-> Amount(Reading(d)[i])]
<1>2. /\ V[0] = 0
      /\ \A i \in 0 .. 13 : V[i] \in Nat /\ V[i] = Amount(Reading(d)[i])
      /\ \A i \in 1 .. 13 : V[i] = 10 * V[i - 1] + d[i]
  <2>1. \A i \in 0 .. 13 : Reading(d)[i] \in Number
    BY <1>1, ReadingSteps
  <2>2. \A i \in 0 .. 13 : V[i] \in Nat /\ V[i] = Amount(Reading(d)[i])
    BY <2>1, HalveAmount
  <2>3. \A i \in 1 .. 13 : i \in 0 .. 13 /\ i - 1 \in 0 .. 13
    OBVIOUS
  <2>4. /\ Amount(Reading(d)[0]) = 0
        /\ \A i \in 1 .. 13 : Amount(Reading(d)[i]) = 10 * Amount(Reading(d)[i - 1]) + d[i]
    BY <1>1, ReadingSteps
  <2>5. 0 \in 0 .. 13
    OBVIOUS
  <2> HIDE DEF V
  <2> QED BY <2>2, <2>3, <2>4, <2>5, Zenon
<1> HIDE DEF V
<1>3. \A i \in 1 .. 13, k \in 0 .. 12 : k = i - 1 => V[i] = 10 * V[k] + d[i]
  BY <1>2
<1>4. \A i \in 1 .. 13 : V[i] \in Nat /\ d[i] \in Nat
  BY <1>2
<1>5. V[13] = Thirteen(d)
  <2>1. /\ 1 - 1 = 0 /\ 2 - 1 = 1 /\ 3 - 1 = 2 /\ 4 - 1 = 3 /\ 5 - 1 = 4 /\ 6 - 1 = 5 /\ 7 - 1 = 6
        /\ 8 - 1 = 7 /\ 9 - 1 = 8 /\ 10 - 1 = 9 /\ 11 - 1 = 10 /\ 12 - 1 = 11 /\ 13 - 1 = 12
    OBVIOUS
  <2>2. Horner(V, d)
    BY <1>2, <1>3, <1>4, <2>1, SMT DEF Horner
  <2> QED BY <2>2, HornerSum
<1>6. 13 \in 0 .. 13
  OBVIOUS
<1> QED
  BY <1>1, <1>2, <1>5, <1>6, Zenon

\* The last digits make the number if the others are zeros.
LEMMA TailReading ==
  ASSUME NEW d \in [1 .. 13 -> 0 .. 9], NEW n \in 1 .. 13, \A i \in 1 .. 13 - n : d[i] = 0
  PROVE  LET p == SubSeq(d, 13 - n + 1, 13)
         IN  /\ p \in Seq(0 .. 9) /\ Len(p) = n
             /\ Reading(p)[Len(p)] \in Number
             /\ Amount(Reading(p)[Len(p)]) = Thirteen(d)
<1> DEFINE p == SubSeq(d, 13 - n + 1, 13)
           z == 13 - n
<1>1. p \in Seq(0 .. 9) /\ Len(p) = n /\ \A i \in 1 .. n : p[i] = d[z + i]
  <2> DEFINE j == z + 1
             b == 13
             S == 0 .. 9
  <2>1. /\ j \in Int /\ b \in Int /\ j <= b /\ b - j + 1 = n
        /\ \A i \in 1 .. n : j + i - 1 = z + i
    OBVIOUS
  <2>2. \A i \in j .. b : d[i] \in S
    OBVIOUS
  <2> HIDE DEF j, b, S, z
  <2>3. /\ SubSeq(d, j, b) \in Seq(S)
        /\ Len(SubSeq(d, j, b)) = b - j + 1
        /\ \A i \in 1 .. b - j + 1 : SubSeq(d, j, b)[i] = d[j + i - 1]
    BY <2>1, <2>2, Slice
  <2>4. p = SubSeq(d, j, b)
    BY DEF j, b, z
  <2> HIDE DEF p
  <2>5. p \in Seq(S) /\ Len(p) = n /\ \A i \in 1 .. n : p[i] = d[z + i]
    BY <2>1, <2>3, <2>4
  <2> QED BY <2>5 DEF S
<1> HIDE DEF p
<1>2. z \in 0 .. 12 /\ n \in Nat /\ z + n = 13
  OBVIOUS
<1>3. d \in Seq(0 .. 9) /\ Len(d) = 13
  BY ThirteenReading
<1>4. /\ Amount(Reading(d)[0]) = 0
      /\ \A i \in 1 .. 13 : Amount(Reading(d)[i]) = 10 * Amount(Reading(d)[i - 1]) + d[i]
  BY <1>3, ReadingSteps
<1>5. /\ Reading(p) \in [0 .. n -> Number]
      /\ Amount(Reading(p)[0]) = 0
      /\ \A i \in 1 .. n : Amount(Reading(p)[i]) = 10 * Amount(Reading(p)[i - 1]) + p[i]
  BY <1>1, ReadingSteps
<1>6. Amount(Reading(d)[z]) = 0
  <2> DEFINE T == {i \in 0 .. z : Amount(Reading(d)[i]) = 0}
  <2>1. 0 \in T
    BY <1>2, <1>4
  <2>2. ASSUME NEW i \in 0 .. z - 1, i \in T PROVE i + 1 \in T
    <3>1. i + 1 \in 1 .. 13 /\ i + 1 \in 1 .. 13 - n /\ (i + 1) - 1 = i /\ i + 1 \in 0 .. z
      BY <1>2
    <3>2. d[i + 1] = 0
      BY <3>1
    <3>3. Amount(Reading(d)[i + 1]) = 10 * Amount(Reading(d)[i]) + d[i + 1]
      BY <1>4, <3>1
    <3>4. Amount(Reading(d)[i + 1]) = 0
      BY <2>2, <3>2, <3>3
    <3> QED BY <3>1, <3>4
  <2>3. z \in Nat
    BY <1>2
  <2> HIDE DEF T, z
  <2>4. 0 .. z \subseteq T
    BY <2>1, <2>2, <2>3, SetInduction
  <2>5. z \in T
    BY <2>3, <2>4
  <2> QED BY <2>5 DEF T
<1> DEFINE T == {i \in 0 .. n : Amount(Reading(p)[i]) = Amount(Reading(d)[z + i])}
<1>7. 0 \in T
  <2>1. z + 0 = z /\ 0 \in 0 .. n
    OBVIOUS
  <2> HIDE DEF z
  <2> QED BY <1>5, <1>6, <2>1
<1>8. ASSUME NEW i \in 0 .. n - 1, i \in T PROVE i + 1 \in T
  <2>1. /\ i + 1 \in 1 .. n /\ i + 1 \in 0 .. n /\ (i + 1) - 1 = i
        /\ z + (i + 1) \in 1 .. 13 /\ (z + (i + 1)) - 1 = z + i
    OBVIOUS
  <2> HIDE DEF z
  <2>2. Amount(Reading(p)[i + 1]) = 10 * Amount(Reading(p)[i]) + p[i + 1]
    BY <1>5, <2>1
  <2>3. Amount(Reading(d)[z + (i + 1)]) = 10 * Amount(Reading(d)[z + i]) + d[z + (i + 1)]
    BY <1>4, <2>1
  <2>4. p[i + 1] = d[z + (i + 1)]
    BY <1>1, <2>1
  <2> QED BY <1>8, <2>1, <2>2, <2>3, <2>4
<1>9. n \in T
  <2> HIDE DEF T
  <2>1. 0 .. n \subseteq T
    BY <1>2, <1>7, <1>8, SetInduction
  <2> QED BY <1>2, <2>1
<1>10. Amount(Reading(p)[n]) = Thirteen(d)
  BY <1>2, <1>9, ThirteenReading
<1>11. Reading(p)[n] \in Number
  BY <1>5
<1> QED
  BY <1>1, <1>10, <1>11 DEF p

------------------------------------------------------------------------------
\* Numbers and powers of ten.
PowerDigits(n) == [i \in 1 .. 13 |-> IF i = 13 - n THEN 1 ELSE 0]

LEMMA PowerBounds ==
  ASSUME NEW d \in [1 .. 13 -> 0 .. 9], NEW n \in 1 .. 12
  PROVE  /\ (\A i \in 1 .. 13 - n : d[i] = 0) <=> Thirteen(d) < Thirteen(PowerDigits(n))
         /\ Thirteen(PowerDigits(n)) < Limit
<1> DEFINE q == PowerDigits(n)
           d1  == d[1]   q1  == q[1]
           d2  == d[2]   q2  == q[2]
           d3  == d[3]   q3  == q[3]
           d4  == d[4]   q4  == q[4]
           d5  == d[5]   q5  == q[5]
           d6  == d[6]   q6  == q[6]
           d7  == d[7]   q7  == q[7]
           d8  == d[8]   q8  == q[8]
           d9  == d[9]   q9  == q[9]
           d10 == d[10]   q10 == q[10]
           d11 == d[11]   q11 == q[11]
           d12 == d[12]   q12 == q[12]
           d13 == d[13]   q13 == q[13]
<1>1. \A i \in 1 .. 13 : q[i] = IF n = 13 - i THEN 1 ELSE 0
  BY DEF PowerDigits
<1>2. /\ q1 = (IF n = 12 THEN 1 ELSE 0) /\ q2 = (IF n = 11 THEN 1 ELSE 0)
      /\ q3 = (IF n = 10 THEN 1 ELSE 0) /\ q4 = (IF n = 9 THEN 1 ELSE 0)
      /\ q5 = (IF n = 8 THEN 1 ELSE 0) /\ q6 = (IF n = 7 THEN 1 ELSE 0)
      /\ q7 = (IF n = 6 THEN 1 ELSE 0) /\ q8 = (IF n = 5 THEN 1 ELSE 0)
      /\ q9 = (IF n = 4 THEN 1 ELSE 0) /\ q10 = (IF n = 3 THEN 1 ELSE 0)
      /\ q11 = (IF n = 2 THEN 1 ELSE 0) /\ q12 = (IF n = 1 THEN 1 ELSE 0)
      /\ q13 = (IF n = 0 THEN 1 ELSE 0)
  <2> HIDE DEF q
  <2> QED BY <1>1
<1>3. /\ d1 \in 0 .. 9 /\ d2 \in 0 .. 9 /\ d3 \in 0 .. 9 /\ d4 \in 0 .. 9 /\ d5 \in 0 .. 9
      /\ d6 \in 0 .. 9 /\ d7 \in 0 .. 9 /\ d8 \in 0 .. 9 /\ d9 \in 0 .. 9 /\ d10 \in 0 .. 9
      /\ d11 \in 0 .. 9 /\ d12 \in 0 .. 9 /\ d13 \in 0 .. 9
  OBVIOUS
<1>4. (\A i \in 1 .. 13 - n : d[i] = 0) <=>
        /\ (n <= 12 => d1 = 0) /\ (n <= 11 => d2 = 0) /\ (n <= 10 => d3 = 0)
        /\ (n <= 9 => d4 = 0) /\ (n <= 8 => d5 = 0) /\ (n <= 7 => d6 = 0) /\ (n <= 6 => d7 = 0)
        /\ (n <= 5 => d8 = 0) /\ (n <= 4 => d9 = 0) /\ (n <= 3 => d10 = 0)
        /\ (n <= 2 => d11 = 0) /\ (n <= 1 => d12 = 0)
  OBVIOUS
<1>5. /\ Thirteen(d) = d13 + 10 * d12 + 100 * d11 + 1000 * d10 + 10000 * d9 + 100000 * d8
                         + 1000000 * d7 + 10000000 * d6 + 100000000 * d5 + 1000000000 * d4
                         + 10000000000 * d3 + 100000000000 * d2 + 1000000000000 * d1
      /\ Thirteen(q) = q13 + 10 * q12 + 100 * q11 + 1000 * q10 + 10000 * q9 + 100000 * q8
                         + 1000000 * q7 + 10000000 * q6 + 100000000 * q5 + 1000000000 * q4
                         + 10000000000 * q3 + 100000000000 * q2 + 1000000000000 * q1
  BY SMT DEF Thirteen
<1> DEFINE zeros == \A i \in 1 .. 13 - n : d[i] = 0
           x     == Thirteen(d)
           y     == Thirteen(q)
<1> HIDE DEF q, zeros, x, y, d1, d2, d3, d4, d5, d6, d7, d8, d9, d10, d11, d12, d13,
             q1, q2, q3, q4, q5, q6
             , q7, q8, q9, q10, q11, q12, q13
<1>6. zeros <=> x < y
  BY <1>2, <1>3, <1>4, <1>5, SMT DEF zeros, x, y
<1>7. y < Limit
  BY <1>2, <1>5, SMT DEF y, Limit
<1> QED
  BY <1>6, <1>7 DEF zeros, x, y, q

LEMMA PrintedDigits ==
  ASSUME NEW bits, NEW n \in 1 .. 13
  PROVE  /\ Printed(bits, n) \in Seq(0 .. 9)
         /\ Len(Printed(bits, n)) = n
<1> DEFINE d == Decimal(bits)
           a == 13 - n + 1
           b == 13
           S == 0 .. 9
<1>1. a \in Int /\ b \in Int /\ a <= b /\ b - a + 1 = n
  OBVIOUS
<1>2. \A i \in a .. b : d[i] \in S
  <2>1. \A i \in a .. b : i \in 1 .. 13
    OBVIOUS
  <2>2. d \in [1 .. 13 -> 0 .. 9]
    BY DecimalDigits
  <2> HIDE DEF d, a, b
  <2> QED BY <2>1, <2>2
<1>3. Printed(bits, n) = SubSeq(d, a, b)
  BY DEF Printed, digitCount
<1> HIDE DEF d, a, b, S
<1>4. SubSeq(d, a, b) \in Seq(S) /\ Len(SubSeq(d, a, b)) = n
  BY <1>1, <1>2, Slice
<1> QED
  BY <1>3, <1>4 DEF S

\* A number that has no more than n digits is not changed by printing n of them.
LEMMA PrintedReads ==
  ASSUME NEW bits, bits \subseteq 0 .. 39, NEW n \in 1 .. 13, ~ AtLeastPower(bits, n)
  PROVE  BitsOf(Printed(bits, n)) = bits
<1> DEFINE d == Decimal(bits)
           p == Printed(bits, n)
           m == Reading(p)[Len(p)]
<1>1. d \in [1 .. 13 -> 0 .. 9] /\ Amount(NumberOf(bits)) = Thirteen(d)
  BY DecimalDigits
<1>2. \A i \in 1 .. 13 - n : d[i] = 0
  BY DEF AtLeastPower, digitCount
<1>3. p = SubSeq(d, 13 - n + 1, 13)
  BY DEF Printed, digitCount
<1> HIDE DEF d, p
<1>4. m \in Number /\ Amount(m) = Thirteen(d)
  BY <1>1, <1>2, <1>3, TailReading
<1> HIDE DEF m
<1>5. Amount(m) < Limit /\ Amount(NumberOf(bits)) = Amount(m)
  BY <1>1, <1>4, NumberOfBounded
<1>6. bits = OddHalves(m)
  BY <1>4, <1>5, NumberComparison
<1> QED
  BY <1>6, Zenon DEF BitsOf, OddHalves, m, p

LEMMA PowerReads ==
  ASSUME NEW n \in 1 .. 12
  PROVE  \E m \in Number : /\ Amount(m) = Thirteen(PowerDigits(n))
                            /\ BitsOf(<<1>> \o [i \in 1 .. n |-> 0]) = OddHalves(m)
<1> DEFINE q == PowerDigits(n)
           p == SubSeq(q, 13 - (n + 1) + 1, 13)
           r == <<1>> \o [i \in 1 .. n |-> 0]
<1>1. /\ q \in [1 .. 13 -> 0 .. 9] /\ n + 1 \in 1 .. 13
      /\ \A i \in 1 .. 13 - (n + 1) : q[i] = 0
  BY DEF PowerDigits
<1>2. \A i \in 1 .. n + 1 : q[13 - (n + 1) + i] = IF i = 1 THEN 1 ELSE 0
  BY DEF PowerDigits
<1> HIDE DEF q
<1>3. /\ p \in Seq(0 .. 9) /\ Len(p) = n + 1
      /\ Reading(p)[Len(p)] \in Number
      /\ Amount(Reading(p)[Len(p)]) = Thirteen(q)
  BY <1>1, TailReading
<1>4. p = r
  <2> DEFINE z == [i \in 1 .. n |-> 0]
             one == <<1>>
             S == 0 .. 9
  <2>1. z \in Seq(S) /\ Len(z) = n /\ \A i \in 1 .. n : z[i] = 0
    BY FunctionIsSequence
  <2>2. one \in Seq(S) /\ Len(one) = 1 /\ one[1] = 1
    OBVIOUS
  <2> HIDE DEF z, one, S
  <2>3. /\ one \o z \in Seq(S) /\ Len(one \o z) = n + 1
        /\ \A i \in 1 .. n + 1 : (one \o z)[i] = IF i <= 1 THEN one[i] ELSE z[i - 1]
    <3>1. 1 + n = n + 1
      OBVIOUS
    <3>2. /\ one \o z \in Seq(S) /\ Len(one \o z) = Len(one) + Len(z)
          /\ \A i \in 1 .. Len(one) + Len(z) :
               (one \o z)[i] = IF i <= Len(one) THEN one[i] ELSE z[i - Len(one)]
      <4>1. one \in Seq(S) /\ z \in Seq(S)
        BY <2>1, <2>2
      <4> QED BY ONLY <4>1, ConcatProperties
    <3> QED BY <2>1, <2>2, <3>1, <3>2
  <2>4. \A i \in 1 .. n + 1 : (one \o z)[i] = IF i = 1 THEN 1 ELSE 0
    BY <2>1, <2>2, <2>3
  <2>5. \A i \in 1 .. n + 1 : p[i] = IF i = 1 THEN 1 ELSE 0
    <3>1. \A i \in 1 .. n + 1 : p[i] = q[13 - (n + 1) + i]
      BY <1>1
    <3> HIDE DEF p
    <3> QED BY <1>2, <3>1
  <2>6. p = one \o z
    <3>1. p \in Seq(S) /\ Len(p) = n + 1
      BY <1>3 DEF S
    <3> HIDE DEF p
    <3> QED BY <3>1, <2>3, <2>4, <2>5, SeqEqual
  <2> QED BY <2>6 DEF z, one
<1> HIDE DEF p
<1>5. BitsOf(p) = OddHalves(Reading(p)[Len(p)])
  BY Zenon DEF BitsOf, OddHalves
<1> QED
  BY <1>3, <1>4, <1>5, Zenon DEF q

LEMMA BelowPowerExact ==
  ASSUME NEW bits, bits \subseteq 0 .. 39, NEW n \in 1 .. 12
  PROVE  BelowPower(bits, n) <=> ~ AtLeastPower(bits, n)
<1> DEFINE d == Decimal(bits)
           power == BitsOf(<<1>> \o [i \in 1 .. n |-> 0])
<1>1. d \in [1 .. 13 -> 0 .. 9] /\ Amount(NumberOf(bits)) = Thirteen(d)
  BY DecimalDigits
<1>2. ~ AtLeastPower(bits, n) <=> \A i \in 1 .. 13 - n : d[i] = 0
  BY DEF AtLeastPower, digitCount
<1>3. PICK m \in Number : Amount(m) = Thirteen(PowerDigits(n)) /\ power = OddHalves(m)
  BY PowerReads
<1>4. BelowPower(bits, n) <=> \E b \in power \ bits : \A c \in bits \ power : c < b
  BY DEF BelowPower
<1> HIDE DEF d, power
<1>5. /\ (\A i \in 1 .. 13 - n : d[i] = 0) <=> Thirteen(d) < Thirteen(PowerDigits(n))
      /\ Thirteen(PowerDigits(n)) < Limit
  BY <1>1, PowerBounds
<1>6. Amount(m) < Limit
  BY <1>3, <1>5
<1>7. Amount(NumberOf(bits)) < Amount(m) <=>
        \E b \in OddHalves(m) \ bits : \A c \in bits \ OddHalves(m) : c < b
  BY <1>6, NumberComparison
<1> QED
  BY <1>1, <1>2, <1>3, <1>4, <1>5, <1>7

------------------------------------------------------------------------------
\* The bits of an EPC, of its bytes and of its fields.

LEMMA EpcBit ==
  ASSUME NEW s, NEW i \in 1 .. 24, NEW k \in 0 .. 3
  PROVE  4 * (24 - i) + k \in EpcBits(s) <=> k \in DigitBits(s[i])
<1>1. \A j \in 1 .. 24 : DigitBits(s[j]) \subseteq 0 .. 3
  BY DEF DigitBits
<1>2. 4 * (24 - i) + k \in EpcBits(s) <=>
        \E j \in 1 .. 24 : \E h \in DigitBits(s[j]) : 4 * (24 - i) + k = 4 * (24 - j) + h
  <2> DEFINE S == 1 .. 24
             x == 4 * (24 - i) + k
             Places(j) == {4 * (24 - j) + h : h \in DigitBits(s[j])}
  <2>1. EpcBits(s) = UNION {Places(j) : j \in S}
    BY DEF EpcBits, numEpcDigits
  <2>2. \A j \in S : x \in Places(j) <=> \E h \in DigitBits(s[j]) : x = 4 * (24 - j) + h
    OBVIOUS
  <2> HIDE DEF S, Places, x
  <2>3. x \in UNION {Places(j) : j \in S} <=> \E j \in S : x \in Places(j)
    OBVIOUS
  <2> QED BY <2>1, <2>2, <2>3 DEF S, x
<1>3. ASSUME NEW j \in 1 .. 24, NEW h \in 0 .. 3, 4 * (24 - i) + k = 4 * (24 - j) + h
      PROVE  j = i /\ h = k
  BY <1>3
<1> QED
  BY <1>1, <1>2, <1>3, Zenon

LEMMA ByteBit ==
  ASSUME NEW s, ~ Failed(getEpcBytes(s)), NEW i \in 0 .. 11, NEW b \in 0 .. 7
  PROVE  b \in getEpcBytes(s).value[i] <=> 8 * (11 - i) + b \in EpcBits(s)
<1>1. getEpcBytes(s).value[i] =
        {k + 4 : k \in DigitBits(s[2 * i + 1])} \cup DigitBits(s[2 * i + 2])
  BY DEF getEpcBytes, Failed, Error, Value, numEpcBytes
<1>2. DigitBits(s[2 * i + 1]) \subseteq 0 .. 3 /\ DigitBits(s[2 * i + 2]) \subseteq 0 .. 3
  BY DEF DigitBits
<1>3. CASE b \in 0 .. 3
  <2>1. b \in getEpcBytes(s).value[i] <=> b \in DigitBits(s[2 * i + 2])
    <3>1. b \notin {k + 4 : k \in DigitBits(s[2 * i + 1])}
      BY <1>2, <1>3
    <3> QED BY <1>1, <3>1
  <2>2. 2 * i + 2 \in 1 .. 24 /\ 4 * (24 - (2 * i + 2)) + b = 8 * (11 - i) + b
    OBVIOUS
  <2>3. 4 * (24 - (2 * i + 2)) + b \in EpcBits(s) <=> b \in DigitBits(s[2 * i + 2])
    BY <1>3, <2>2, EpcBit
  <2> QED BY <2>1, <2>2, <2>3, Zenon
<1>4. CASE b \in 4 .. 7
  <2>1. b \in getEpcBytes(s).value[i] <=> b - 4 \in DigitBits(s[2 * i + 1])
    <3>1. b \notin DigitBits(s[2 * i + 2])
      BY <1>2, <1>4
    <3>2. b \in {k + 4 : k \in DigitBits(s[2 * i + 1])} <=> b - 4 \in DigitBits(s[2 * i + 1])
      BY <1>2, <1>4
    <3> QED BY <1>1, <3>1, <3>2, Zenon
  <2>2. /\ 2 * i + 1 \in 1 .. 24 /\ b - 4 \in 0 .. 3
        /\ 4 * (24 - (2 * i + 1)) + (b - 4) = 8 * (11 - i) + b
    BY <1>4
  <2>3. 4 * (24 - (2 * i + 1)) + (b - 4) \in EpcBits(s) <=> b - 4 \in DigitBits(s[2 * i + 1])
    BY <2>2, EpcBit
  <2> QED BY <2>1, <2>2, <2>3, Zenon
<1> QED
  BY <1>3, <1>4

\* The bits of an EPC from position from + a to from + b.
Run(s, from, a, b) == {k \in a .. b : from + k \in EpcBits(s)}

LEMMA MaskedRun ==
  ASSUME NEW s, ~ Failed(getEpcBytes(s)), NEW i \in 0 .. 11, NEW lo \in 0 .. 7, NEW hi \in 0 .. 7,
         NEW n \in Int, NEW from \in Int, from = 8 * (11 - i) - n,
         NEW first, first = lo + n, NEW last, last = hi + n
  PROVE  Masked(getEpcBytes(s).value, Part(i, lo .. hi, n)) = Run(s, from, first, last)
<1> DEFINE B == getEpcBytes(s).value[i]
<1>1. Masked(getEpcBytes(s).value, Part(i, lo .. hi, n)) = {b + n : b \in B \cap (lo .. hi)}
  BY DEF Masked, Part
<1>2. \A b \in lo .. hi : b \in B <=> 8 * (11 - i) + b \in EpcBits(s)
  BY ByteBit
<1> HIDE DEF B
<1>3. ASSUME NEW k PROVE k \in {b + n : b \in B \cap (lo .. hi)} <=> k \in Run(s, from, first, last)
  <2>1. ASSUME NEW b \in B \cap (lo .. hi), k = b + n PROVE k \in Run(s, from, first, last)
    <3>1. k \in first .. last /\ from + k = 8 * (11 - i) + b
      BY <2>1
    <3> QED BY <1>2, <3>1 DEF Run
  <2>2. ASSUME k \in Run(s, from, first, last) PROVE \E b \in B \cap (lo .. hi) : k = b + n
    <3>1. k \in first .. last /\ from + k \in EpcBits(s)
      BY <2>2 DEF Run
    <3>2. k - n \in lo .. hi /\ 8 * (11 - i) + (k - n) = from + k /\ k = (k - n) + n
      BY <3>1
    <3>3. k - n \in B
      BY <1>2, <3>1, <3>2
    <3> QED BY <3>2, <3>3
  <2> QED BY <2>1, <2>2, Zenon
<1> QED
  BY <1>1, <1>3

\* The masks and shifts put the bits of the company prefix together, and no others.
LEMMA CompanyPrefixBits ==
  ASSUME NEW s, ~ Failed(getEpcBytes(s)), NEW p \in 0 .. 6
  PROVE  Assemble(getEpcBytes(s).value, companyPrefixParts(p)) =
           Field(s, 82 - PrefixWidth(p), PrefixWidth(p))
<1> DEFINE bytes == getEpcBytes(s).value
<1>0. {7} = 7 .. 7
  OBVIOUS
<1>1. CASE p = 0
  <2>1. Assemble(bytes, companyPrefixParts(p)) =
          Masked(bytes, Part(1, 0 .. 1, 38)) \cup Masked(bytes, Part(2, Bits, 30)) \cup
          Masked(bytes, Part(3, Bits, 22)) \cup Masked(bytes, Part(4, Bits, 14)) \cup
          Masked(bytes, Part(5, Bits, 6)) \cup Masked(bytes, Part(6, 2 .. 7, -2))
    <3> HIDE DEF bytes
    <3> QED BY <1>1 DEF Assemble, companyPrefixParts
  <2>2. Masked(bytes, Part(1, 0 .. 1, 38)) = Run(s, 42, 38, 39)
    BY MaskedRun
  <2>3. Masked(bytes, Part(2, Bits, 30)) = Run(s, 42, 30, 37)
    BY MaskedRun DEF Bits
  <2>4. Masked(bytes, Part(3, Bits, 22)) = Run(s, 42, 22, 29)
    BY MaskedRun DEF Bits
  <2>5. Masked(bytes, Part(4, Bits, 14)) = Run(s, 42, 14, 21)
    BY MaskedRun DEF Bits
  <2>6. Masked(bytes, Part(5, Bits, 6)) = Run(s, 42, 6, 13)
    BY MaskedRun DEF Bits
  <2>7. Masked(bytes, Part(6, 2 .. 7, -2)) = Run(s, 42, 0, 5)
    BY MaskedRun
  <2>8. Run(s, 42, 38, 39) \cup Run(s, 42, 30, 37) \cup Run(s, 42, 22, 29) \cup
        Run(s, 42, 14, 21) \cup Run(s, 42, 6, 13) \cup Run(s, 42, 0, 5)
          = Run(s, 42, 0, 39)
    BY DEF Run
  <2> QED BY <1>1, <2>1, <2>2, <2>3, <2>4, <2>5, <2>6, <2>7, <2>8 DEF Run, Field, PrefixWidth
<1>2. CASE p = 1
  <2>1. Assemble(bytes, companyPrefixParts(p)) =
          Masked(bytes, Part(1, 0 .. 1, 35)) \cup Masked(bytes, Part(2, Bits, 27)) \cup
          Masked(bytes, Part(3, Bits, 19)) \cup Masked(bytes, Part(4, Bits, 11)) \cup
          Masked(bytes, Part(5, Bits, 3)) \cup Masked(bytes, Part(6, 5 .. 7, -5))
    <3> HIDE DEF bytes
    <3> QED BY <1>2 DEF Assemble, companyPrefixParts
  <2>2. Masked(bytes, Part(1, 0 .. 1, 35)) = Run(s, 45, 35, 36)
    BY MaskedRun
  <2>3. Masked(bytes, Part(2, Bits, 27)) = Run(s, 45, 27, 34)
    BY MaskedRun DEF Bits
  <2>4. Masked(bytes, Part(3, Bits, 19)) = Run(s, 45, 19, 26)
    BY MaskedRun DEF Bits
  <2>5. Masked(bytes, Part(4, Bits, 11)) = Run(s, 45, 11, 18)
    BY MaskedRun DEF Bits
  <2>6. Masked(bytes, Part(5, Bits, 3)) = Run(s, 45, 3, 10)
    BY MaskedRun DEF Bits
  <2>7. Masked(bytes, Part(6, 5 .. 7, -5)) = Run(s, 45, 0, 2)
    BY MaskedRun
  <2>8. Run(s, 45, 35, 36) \cup Run(s, 45, 27, 34) \cup Run(s, 45, 19, 26) \cup
        Run(s, 45, 11, 18) \cup Run(s, 45, 3, 10) \cup Run(s, 45, 0, 2)
          = Run(s, 45, 0, 36)
    BY DEF Run
  <2> QED BY <1>2, <2>1, <2>2, <2>3, <2>4, <2>5, <2>6, <2>7, <2>8 DEF Run, Field, PrefixWidth
<1>3. CASE p = 2
  <2>1. Assemble(bytes, companyPrefixParts(p)) =
          Masked(bytes, Part(1, 0 .. 1, 32)) \cup Masked(bytes, Part(2, Bits, 24)) \cup
          Masked(bytes, Part(3, Bits, 16)) \cup Masked(bytes, Part(4, Bits, 8)) \cup
          Masked(bytes, Part(5, Bits, 0))
    <3> HIDE DEF bytes
    <3> QED BY <1>3 DEF Assemble, companyPrefixParts
  <2>2. Masked(bytes, Part(1, 0 .. 1, 32)) = Run(s, 48, 32, 33)
    BY MaskedRun
  <2>3. Masked(bytes, Part(2, Bits, 24)) = Run(s, 48, 24, 31)
    BY MaskedRun DEF Bits
  <2>4. Masked(bytes, Part(3, Bits, 16)) = Run(s, 48, 16, 23)
    BY MaskedRun DEF Bits
  <2>5. Masked(bytes, Part(4, Bits, 8)) = Run(s, 48, 8, 15)
    BY MaskedRun DEF Bits
  <2>6. Masked(bytes, Part(5, Bits, 0)) = Run(s, 48, 0, 7)
    BY MaskedRun DEF Bits
  <2>7. Run(s, 48, 32, 33) \cup Run(s, 48, 24, 31) \cup Run(s, 48, 16, 23) \cup
        Run(s, 48, 8, 15) \cup Run(s, 48, 0, 7)
          = Run(s, 48, 0, 33)
    BY DEF Run
  <2> QED BY <1>3, <2>1, <2>2, <2>3, <2>4, <2>5, <2>6, <2>7 DEF Run, Field, PrefixWidth
<1>4. CASE p = 3
  <2>1. Assemble(bytes, companyPrefixParts(p)) =
          Masked(bytes, Part(1, 0 .. 1, 28)) \cup Masked(bytes, Part(2, Bits, 20)) \cup
          Masked(bytes, Part(3, Bits, 12)) \cup Masked(bytes, Part(4, Bits, 4)) \cup
          Masked(bytes, Part(5, 4 .. 7, -4))
    <3> HIDE DEF bytes
    <3> QED BY <1>4 DEF Assemble, companyPrefixParts
  <2>2. Masked(bytes, Part(1, 0 .. 1, 28)) = Run(s, 52, 28, 29)
    BY MaskedRun
  <2>3. Masked(bytes, Part(2, Bits, 20)) = Run(s, 52, 20, 27)
    BY MaskedRun DEF Bits
  <2>4. Masked(bytes, Part(3, Bits, 12)) = Run(s, 52, 12, 19)
    BY MaskedRun DEF Bits
  <2>5. Masked(bytes, Part(4, Bits, 4)) = Run(s, 52, 4, 11)
    BY MaskedRun DEF Bits
  <2>6. Masked(bytes, Part(5, 4 .. 7, -4)) = Run(s, 52, 0, 3)
    BY MaskedRun
  <2>7. Run(s, 52, 28, 29) \cup Run(s, 52, 20, 27) \cup Run(s, 52, 12, 19) \cup
        Run(s, 52, 4, 11) \cup Run(s, 52, 0, 3)
          = Run(s, 52, 0, 29)
    BY DEF Run
  <2> QED BY <1>4, <2>1, <2>2, <2>3, <2>4, <2>5, <2>6, <2>7 DEF Run, Field, PrefixWidth
<1>5. CASE p = 4
  <2>1. Assemble(bytes, companyPrefixParts(p)) =
          Masked(bytes, Part(1, 0 .. 1, 25)) \cup Masked(bytes, Part(2, Bits, 17)) \cup
          Masked(bytes, Part(3, Bits, 9)) \cup Masked(bytes, Part(4, Bits, 1)) \cup
          Masked(bytes, Part(5, {7}, -7))
    <3> HIDE DEF bytes
    <3> QED BY <1>5 DEF Assemble, companyPrefixParts
  <2>2. Masked(bytes, Part(1, 0 .. 1, 25)) = Run(s, 55, 25, 26)
    BY MaskedRun
  <2>3. Masked(bytes, Part(2, Bits, 17)) = Run(s, 55, 17, 24)
    BY MaskedRun DEF Bits
  <2>4. Masked(bytes, Part(3, Bits, 9)) = Run(s, 55, 9, 16)
    BY MaskedRun DEF Bits
  <2>5. Masked(bytes, Part(4, Bits, 1)) = Run(s, 55, 1, 8)
    BY MaskedRun DEF Bits
  <2>6. Masked(bytes, Part(5, {7}, -7)) = Run(s, 55, 0, 0)
    BY <1>0, MaskedRun
  <2>7. Run(s, 55, 25, 26) \cup Run(s, 55, 17, 24) \cup Run(s, 55, 9, 16) \cup
        Run(s, 55, 1, 8) \cup Run(s, 55, 0, 0)
          = Run(s, 55, 0, 26)
    BY DEF Run
  <2> QED BY <1>5, <2>1, <2>2, <2>3, <2>4, <2>5, <2>6, <2>7 DEF Run, Field, PrefixWidth
<1>6. CASE p = 5
  <2>1. Assemble(bytes, companyPrefixParts(p)) =
          Masked(bytes, Part(1, 0 .. 1, 22)) \cup Masked(bytes, Part(2, Bits, 14)) \cup
          Masked(bytes, Part(3, Bits, 6)) \cup Masked(bytes, Part(4, 2 .. 7, -2))
    <3> HIDE DEF bytes
    <3> QED BY <1>6 DEF Assemble, companyPrefixParts
  <2>2. Masked(bytes, Part(1, 0 .. 1, 22)) = Run(s, 58, 22, 23)
    BY MaskedRun
  <2>3. Masked(bytes, Part(2, Bits, 14)) = Run(s, 58, 14, 21)
    BY MaskedRun DEF Bits
  <2>4. Masked(bytes, Part(3, Bits, 6)) = Run(s, 58, 6, 13)
    BY MaskedRun DEF Bits
  <2>5. Masked(bytes, Part(4, 2 .. 7, -2)) = Run(s, 58, 0, 5)
    BY MaskedRun
  <2>6. Run(s, 58, 22, 23) \cup Run(s, 58, 14, 21) \cup Run(s, 58, 6, 13) \cup Run(s, 58, 0, 5)
          = Run(s, 58, 0, 23)
    BY DEF Run
  <2> QED BY <1>6, <2>1, <2>2, <2>3, <2>4, <2>5, <2>6 DEF Run, Field, PrefixWidth
<1>7. CASE p = 6
  <2>1. Assemble(bytes, companyPrefixParts(p)) =
          Masked(bytes, Part(1, 0 .. 1, 18)) \cup Masked(bytes, Part(2, Bits, 10)) \cup
          Masked(bytes, Part(3, Bits, 2)) \cup Masked(bytes, Part(4, 6 .. 7, -6))
    <3> HIDE DEF bytes
    <3> QED BY <1>7 DEF Assemble, companyPrefixParts
  <2>2. Masked(bytes, Part(1, 0 .. 1, 18)) = Run(s, 62, 18, 19)
    BY MaskedRun
  <2>3. Masked(bytes, Part(2, Bits, 10)) = Run(s, 62, 10, 17)
    BY MaskedRun DEF Bits
  <2>4. Masked(bytes, Part(3, Bits, 2)) = Run(s, 62, 2, 9)
    BY MaskedRun DEF Bits
  <2>5. Masked(bytes, Part(4, 6 .. 7, -6)) = Run(s, 62, 0, 1)
    BY MaskedRun
  <2>6. Run(s, 62, 18, 19) \cup Run(s, 62, 10, 17) \cup Run(s, 62, 2, 9) \cup Run(s, 62, 0, 1)
          = Run(s, 62, 0, 19)
    BY DEF Run
  <2> QED BY <1>7, <2>1, <2>2, <2>3, <2>4, <2>5, <2>6 DEF Run, Field, PrefixWidth
<1> QED
  BY <1>1, <1>2, <1>3, <1>4, <1>5, <1>6, <1>7

\* So they do with those of the item reference.
LEMMA ItemReferenceBits ==
  ASSUME NEW s, ~ Failed(getEpcBytes(s)), NEW p \in 0 .. 6
  PROVE  Assemble(getEpcBytes(s).value, itemReferenceParts(p)) = Field(s, 38, 44 - PrefixWidth(p))
<1> DEFINE bytes == getEpcBytes(s).value
<1>1. CASE p = 0
  <2>1. Assemble(bytes, itemReferenceParts(p)) =
          Masked(bytes, Part(6, 0 .. 1, 2)) \cup Masked(bytes, Part(7, 6 .. 7, -6))
    <3> HIDE DEF bytes
    <3> QED BY <1>1 DEF Assemble, itemReferenceParts
  <2>2. Masked(bytes, Part(6, 0 .. 1, 2)) = Run(s, 38, 2, 3)
    BY MaskedRun
  <2>3. Masked(bytes, Part(7, 6 .. 7, -6)) = Run(s, 38, 0, 1)
    BY MaskedRun
  <2>4. Run(s, 38, 2, 3) \cup Run(s, 38, 0, 1) = Run(s, 38, 0, 3)
    BY DEF Run
  <2> QED BY <1>1, <2>1, <2>2, <2>3, <2>4 DEF Run, Field, PrefixWidth
<1>2. CASE p = 1
  <2>1. Assemble(bytes, itemReferenceParts(p)) =
          Masked(bytes, Part(6, 0 .. 4, 2)) \cup Masked(bytes, Part(7, 6 .. 7, -6))
    <3> HIDE DEF bytes
    <3> QED BY <1>2 DEF Assemble, itemReferenceParts
  <2>2. Masked(bytes, Part(6, 0 .. 4, 2)) = Run(s, 38, 2, 6)
    BY MaskedRun
  <2>3. Masked(bytes, Part(7, 6 .. 7, -6)) = Run(s, 38, 0, 1)
    BY MaskedRun
  <2>4. Run(s, 38, 2, 6) \cup Run(s, 38, 0, 1) = Run(s, 38, 0, 6)
    BY DEF Run
  <2> QED BY <1>2, <2>1, <2>2, <2>3, <2>4 DEF Run, Field, PrefixWidth
<1>3. CASE p = 2
  <2>1. Assemble(bytes, itemReferenceParts(p)) =
          Masked(bytes, Part(6, Bits, 2)) \cup Masked(bytes, Part(7, 6 .. 7, -6))
    <3> HIDE DEF bytes
    <3> QED BY <1>3 DEF Assemble, itemReferenceParts
  <2>2. Masked(bytes, Part(6, Bits, 2)) = Run(s, 38, 2, 9)
    BY MaskedRun DEF Bits
  <2>3. Masked(bytes, Part(7, 6 .. 7, -6)) = Run(s, 38, 0, 1)
    BY MaskedRun
  <2>4. Run(s, 38, 2, 9) \cup Run(s, 38, 0, 1) = Run(s, 38, 0, 9)
    BY DEF Run
  <2> QED BY <1>3, <2>1, <2>2, <2>3, <2>4 DEF Run, Field, PrefixWidth
<1>4. CASE p = 3
  <2>1. Assemble(bytes, itemReferenceParts(p)) =
          Masked(bytes, Part(6, Bits, 2)) \cup Masked(bytes, Part(5, 0 .. 3, 10)) \cup
          Masked(bytes, Part(7, 6 .. 7, -6))
    <3> HIDE DEF bytes
    <3> QED BY <1>4 DEF Assemble, itemReferenceParts
  <2>2. Masked(bytes, Part(6, Bits, 2)) = Run(s, 38, 2, 9)
    BY MaskedRun DEF Bits
  <2>3. Masked(bytes, Part(5, 0 .. 3, 10)) = Run(s, 38, 10, 13)
    BY MaskedRun
  <2>4. Masked(bytes, Part(7, 6 .. 7, -6)) = Run(s, 38, 0, 1)
    BY MaskedRun
  <2>5. Run(s, 38, 2, 9) \cup Run(s, 38, 10, 13) \cup Run(s, 38, 0, 1) = Run(s, 38, 0, 13)
    BY DEF Run
  <2> QED BY <1>4, <2>1, <2>2, <2>3, <2>4, <2>5 DEF Run, Field, PrefixWidth
<1>5. CASE p = 4
  <2>1. Assemble(bytes, itemReferenceParts(p)) =
          Masked(bytes, Part(6, Bits, 2)) \cup Masked(bytes, Part(5, 0 .. 6, 10)) \cup
          Masked(bytes, Part(7, 6 .. 7, -6))
    <3> HIDE DEF bytes
    <3> QED BY <1>5 DEF Assemble, itemReferenceParts
  <2>2. Masked(bytes, Part(6, Bits, 2)) = Run(s, 38, 2, 9)
    BY MaskedRun DEF Bits
  <2>3. Masked(bytes, Part(5, 0 .. 6, 10)) = Run(s, 38, 10, 16)
    BY MaskedRun
  <2>4. Masked(bytes, Part(7, 6 .. 7, -6)) = Run(s, 38, 0, 1)
    BY MaskedRun
  <2>5. Run(s, 38, 2, 9) \cup Run(s, 38, 10, 16) \cup Run(s, 38, 0, 1) = Run(s, 38, 0, 16)
    BY DEF Run
  <2> QED BY <1>5, <2>1, <2>2, <2>3, <2>4, <2>5 DEF Run, Field, PrefixWidth
<1>6. CASE p = 5
  <2>1. Assemble(bytes, itemReferenceParts(p)) =
          Masked(bytes, Part(6, Bits, 2)) \cup Masked(bytes, Part(5, Bits, 10)) \cup
          Masked(bytes, Part(4, 0 .. 1, 18)) \cup Masked(bytes, Part(7, 6 .. 7, -6))
    <3> HIDE DEF bytes
    <3> QED BY <1>6 DEF Assemble, itemReferenceParts
  <2>2. Masked(bytes, Part(6, Bits, 2)) = Run(s, 38, 2, 9)
    BY MaskedRun DEF Bits
  <2>3. Masked(bytes, Part(5, Bits, 10)) = Run(s, 38, 10, 17)
    BY MaskedRun DEF Bits
  <2>4. Masked(bytes, Part(4, 0 .. 1, 18)) = Run(s, 38, 18, 19)
    BY MaskedRun
  <2>5. Masked(bytes, Part(7, 6 .. 7, -6)) = Run(s, 38, 0, 1)
    BY MaskedRun
  <2>6. Run(s, 38, 2, 9) \cup Run(s, 38, 10, 17) \cup Run(s, 38, 18, 19) \cup Run(s, 38, 0, 1)
          = Run(s, 38, 0, 19)
    BY DEF Run
  <2> QED BY <1>6, <2>1, <2>2, <2>3, <2>4, <2>5, <2>6 DEF Run, Field, PrefixWidth
<1>7. CASE p = 6
  <2>1. Assemble(bytes, itemReferenceParts(p)) =
          Masked(bytes, Part(6, Bits, 2)) \cup Masked(bytes, Part(5, Bits, 10)) \cup
          Masked(bytes, Part(4, 0 .. 5, 18)) \cup Masked(bytes, Part(7, 6 .. 7, -6))
    <3> HIDE DEF bytes
    <3> QED BY <1>7 DEF Assemble, itemReferenceParts
  <2>2. Masked(bytes, Part(6, Bits, 2)) = Run(s, 38, 2, 9)
    BY MaskedRun DEF Bits
  <2>3. Masked(bytes, Part(5, Bits, 10)) = Run(s, 38, 10, 17)
    BY MaskedRun DEF Bits
  <2>4. Masked(bytes, Part(4, 0 .. 5, 18)) = Run(s, 38, 18, 23)
    BY MaskedRun
  <2>5. Masked(bytes, Part(7, 6 .. 7, -6)) = Run(s, 38, 0, 1)
    BY MaskedRun
  <2>6. Run(s, 38, 2, 9) \cup Run(s, 38, 10, 17) \cup Run(s, 38, 18, 23) \cup Run(s, 38, 0, 1)
          = Run(s, 38, 0, 23)
    BY DEF Run
  <2> QED BY <1>7, <2>1, <2>2, <2>3, <2>4, <2>5, <2>6 DEF Run, Field, PrefixWidth
<1> QED
  BY <1>1, <1>2, <1>3, <1>4, <1>5, <1>6, <1>7

LEMMA SmallFields ==
  ASSUME NEW s, ~ Failed(getEpcBytes(s))
  PROVE  /\ getPartitionValue(getEpcBytes(s).value) = Partition(s)
         /\ filterValue(getEpcBytes(s).value) = Small(Field(s, 85, 3))
         /\ Partition(s) \in 0 .. 7
<1>1. Masked(getEpcBytes(s).value, Part(1, 2 .. 4, -2)) = Run(s, 82, 0, 2)
  BY MaskedRun
<1>2. Masked(getEpcBytes(s).value, Part(1, 5 .. 7, -5)) = Run(s, 85, 0, 2)
  BY MaskedRun
<1>3. Run(s, 82, 0, 2) = Field(s, 82, 3) /\ Run(s, 85, 0, 2) = Field(s, 85, 3)
  BY DEF Run, Field
<1>4. \A bits : Small(bits) \in 0 .. 7
  BY DEF Small
<1> QED
  BY <1>1, <1>2, <1>3, <1>4 DEF getPartitionValue, filterValue, Partition

------------------------------------------------------------------------------
\* The digits of a GTIN-14.

\* w is s followed by t, element by element.
Joins(w, s, t, S) ==
  /\ w \in Seq(S)
  /\ Len(w) = Len(s) + Len(t)
  /\ \A i \in 1 .. Len(s) : w[i] = s[i]
  /\ \A i \in 1 .. Len(t) : w[Len(s) + i] = t[i]

LEMMA ConcatOf ==
  ASSUME NEW S, NEW s \in Seq(S), NEW t \in Seq(S)
  PROVE  Joins(s \o t, s, t, S)
<1> DEFINE w == s \o t
           a == Len(s)
           b == Len(t)
<1>1. /\ w \in Seq(S) /\ Len(w) = a + b
      /\ \A i \in 1 .. a + b : w[i] = IF i <= a THEN s[i] ELSE t[i - a]
  BY ONLY s \in Seq(S), t \in Seq(S), ConcatProperties
<1>2. a \in Nat /\ b \in Nat
  BY LenProperties
<1> HIDE DEF w, a, b
<1>3. ASSUME NEW i \in 1 .. b PROVE w[a + i] = t[i]
  <2>1. a + i \in 1 .. a + b /\ ~ (a + i <= a) /\ (a + i) - a = i
    BY <1>2
  <2> QED BY <1>1, <2>1
<1>4. \A i \in 1 .. a : w[i] = s[i]
  BY <1>1, <1>2
<1> QED
  BY <1>1, <1>3, <1>4 DEF Joins, w, a, b

LEMMA JoinsAtAppend ==
  ASSUME NEW S, NEW s \in Seq(S), NEW e \in S
  PROVE  Joins(Append(s, e), s, <<e>>, S)
<1>1. Append(s, e) = s \o <<e>>
  BY AppendIsConcat
<1>2. <<e>> \in Seq(S)
  OBVIOUS
<1> QED
  BY <1>1, <1>2, ConcatOf

\* The head of the item, the prefix, the tail of the item, and a check digit.
Row(item, prefix) == (<<Head(item)>> \o prefix) \o Tail(item)

Arranged(item, prefix, check) == Append(Row(item, prefix), check)

\* w is such a row, and v is one with a check digit.
IsRow(w, item, prefix, n, m, S) ==
  /\ w \in Seq(S)
  /\ Len(w) = (1 + n) + m
  /\ w[1] = item[1]
  /\ \A i \in 1 .. n : w[1 + i] = prefix[i]
  /\ \A i \in 1 .. m : w[(1 + n) + i] = item[1 + i]

IsArranged(v, item, prefix, check, n, S) ==
  /\ \A i \in 1 .. 13 : v[i] = Row(item, prefix)[i]
  /\ v \in Seq(S)
  /\ Len(v) = 14
  /\ v[14] = check
  /\ SubSeq(v, 2, n + 1) = prefix
  /\ <<Head(v)>> \o SubSeq(v, n + 2, 13) = item

LEMMA RowDigits ==
  ASSUME NEW S, NEW item \in Seq(S), NEW prefix \in Seq(S),
         NEW n \in Nat, NEW m \in Nat, Len(prefix) = n, Len(item) = m + 1
  PROVE  IsRow(Row(item, prefix), item, prefix, n, m, S)
<1> DEFINE first == <<Head(item)>>
           A == first \o prefix
           B == A \o Tail(item)
<1>1. item # <<>>
  BY EmptySeq
<1>2. /\ Head(item) \in S /\ Tail(item) \in Seq(S) /\ Len(Tail(item)) = m
      /\ \A i \in 1 .. m : Tail(item)[i] = item[1 + i]
  BY <1>1, HeadTailProperties
<1>3. first \in Seq(S) /\ Len(first) = 1 /\ first[1] = item[1]
  BY <1>1, <1>2
<1> HIDE DEF first
<1>4. Joins(A, first, prefix, S)
  BY <1>3, ConcatOf
<1> HIDE DEF A
<1>5. /\ A \in Seq(S) /\ Len(A) = 1 + n /\ A[1] = item[1]
      /\ \A i \in 1 .. n : A[1 + i] = prefix[i]
  BY <1>3, <1>4 DEF Joins
<1>6. Joins(B, A, Tail(item), S)
  BY <1>2, <1>5, ConcatOf
<1>7. B = Row(item, prefix)
  BY DEF B, A, first, Row
<1> HIDE DEF B
<1>8. /\ B \in Seq(S) /\ Len(B) = (1 + n) + m
      /\ \A i \in 1 .. 1 + n : B[i] = A[i]
      /\ \A i \in 1 .. m : B[(1 + n) + i] = Tail(item)[i]
  BY <1>2, <1>5, <1>6 DEF Joins
<1>9. B[1] = A[1] /\ \A i \in 1 .. n : B[1 + i] = A[1 + i]
  <2>1. 1 \in 1 .. 1 + n /\ \A i \in 1 .. n : 1 + i \in 1 .. 1 + n
    OBVIOUS
  <2> QED BY <1>8, <2>1
<1> QED
  BY <1>2, <1>5, <1>7, <1>8, <1>9 DEF IsRow

LEMMA Arrangement ==
  ASSUME NEW S, NEW item \in Seq(S), NEW prefix \in Seq(S), NEW check \in S,
         NEW n \in Nat, NEW m \in Nat, Len(prefix) = n, Len(item) = m + 1, n + m = 12
  PROVE  IsArranged(Arranged(item, prefix, check), item, prefix, check, n, S)
<1> DEFINE B == Row(item, prefix)
           D == Arranged(item, prefix, check)
           back == SubSeq(D, n + 2, 13)
           first == <<Head(D)>>
<1>1. /\ B \in Seq(S) /\ Len(B) = 13 /\ B[1] = item[1]
      /\ \A i \in 1 .. n : B[1 + i] = prefix[i]
      /\ \A i \in 1 .. m : B[(1 + n) + i] = item[1 + i]
  <2>1. IsRow(B, item, prefix, n, m, S)
    BY RowDigits
  <2> HIDE DEF B
  <2> QED BY <2>1 DEF IsRow
<1> HIDE DEF B
<1>2. /\ D \in Seq(S) /\ Len(D) = 14 /\ D[14] = check
      /\ \A i \in 1 .. 13 : D[i] = B[i]
  <2>1. Joins(D, B, <<check>>, S)
    BY <1>1, JoinsAtAppend DEF Arranged, B
  <2> HIDE DEF D
  <2>2. Len(<<check>>) = 1 /\ <<check>>[1] = check
    OBVIOUS
  <2>3. /\ D \in Seq(S) /\ Len(D) = 14
        /\ \A i \in 1 .. 13 : D[i] = B[i]
        /\ \A i \in 1 .. 1 : D[13 + i] = <<check>>[i]
    BY <1>1, <2>1, <2>2 DEF Joins
  <2>4. 1 \in 1 .. 1 /\ 13 + 1 = 14
    OBVIOUS
  <2> QED BY <2>2, <2>3, <2>4
<1> HIDE DEF D
<1>3. \A i \in 1 .. 14 : D[i] \in S
  BY <1>2, ElementOfSeq
<1>4. /\ D[1] = item[1]
      /\ \A i \in 1 .. n : D[1 + i] = prefix[i]
      /\ \A i \in 1 .. m : D[(1 + n) + i] = item[1 + i]
  <2>1. /\ 1 \in 1 .. 13
        /\ \A i \in 1 .. n : 1 + i \in 1 .. 13
        /\ \A i \in 1 .. m : (1 + n) + i \in 1 .. 13
    OBVIOUS
  <2> QED BY <1>1, <1>2, <2>1
<1>5. SubSeq(D, 2, n + 1) = prefix
  <2> DEFINE w == SubSeq(D, 2, n + 1)
  <2>1. \A i \in 2 .. n + 1 : D[i] \in S
    BY <1>3
  <2>2. w \in Seq(S) /\ Len(w) = n /\ \A i \in 1 .. (n + 1) - 2 + 1 : w[i] = D[2 + i - 1]
    BY <2>1, SubSeqProperties
  <2> HIDE DEF w
  <2>3. \A i \in 1 .. n : w[i] = prefix[i]
    <3>1. ASSUME NEW i \in 1 .. n PROVE i \in 1 .. (n + 1) - 2 + 1 /\ 2 + i - 1 = 1 + i
      OBVIOUS
    <3> QED BY <1>4, <2>2, <3>1
  <2>4. w = prefix
    BY <2>2, <2>3, SeqEqual
  <2> QED BY <2>4 DEF w
<1>6. /\ back \in Seq(S) /\ Len(back) = m
      /\ \A i \in 1 .. m : back[i] = item[1 + i]
  <2>1. \A i \in n + 2 .. 13 : D[i] \in S
    BY <1>3
  <2>2. /\ back \in Seq(S)
        /\ Len(back) = IF n + 2 <= 13 THEN 13 - (n + 2) + 1 ELSE 0
        /\ \A i \in 1 .. 13 - (n + 2) + 1 : back[i] = D[(n + 2) + i - 1]
    BY <2>1, SubSeqProperties
  <2> HIDE DEF back
  <2>3. Len(back) = m
    BY <2>2
  <2>4. ASSUME NEW i \in 1 .. m PROVE i \in 1 .. 13 - (n + 2) + 1 /\ (n + 2) + i - 1 = (1 + n) + i
    OBVIOUS
  <2> QED BY <1>4, <2>2, <2>3, <2>4
<1> HIDE DEF back
<1>7. first \in Seq(S) /\ Len(first) = 1 /\ first[1] = item[1]
  <2>1. Head(D) = D[1] /\ D[1] \in S
    BY <1>2, <1>3
  <2> QED BY <1>4, <2>1
<1> HIDE DEF first
<1>8. first \o back = item
  <2> DEFINE w == first \o back
  <2>1. Joins(w, first, back, S)
    BY <1>6, <1>7, ConcatOf
  <2> HIDE DEF w
  <2>2. /\ w \in Seq(S) /\ Len(w) = m + 1 /\ w[1] = item[1]
        /\ \A i \in 1 .. m : w[1 + i] = item[1 + i]
    <3>1. /\ w \in Seq(S) /\ Len(w) = 1 + m
          /\ \A i \in 1 .. 1 : w[i] = first[i]
          /\ \A i \in 1 .. m : w[1 + i] = back[i]
      BY <1>6, <1>7, <2>1 DEF Joins
    <3>2. w[1] = first[1]
      BY <3>1
    <3>3. \A i \in 1 .. m : w[1 + i] = item[1 + i]
      BY ONLY <1>6, <3>1
    <3> QED BY <1>7, <3>1, <3>2, <3>3
  <2>3. ASSUME NEW i \in 1 .. m + 1 PROVE w[i] = item[i]
    <3>1. CASE i = 1
      BY <2>2, <3>1
    <3>2. CASE i # 1
      <4>1. i - 1 \in 1 .. m /\ 1 + (i - 1) = i
        BY <3>2
      <4> QED BY <2>2, <4>1
    <3> QED BY <3>1, <3>2
  <2>4. w = item
    BY <2>2, <2>3, SeqEqual
  <2> QED BY <2>4 DEF w
<1> QED
  BY <1>2, <1>5, <1>8 DEF IsArranged, B, D, back, first

LEMMA CheckDigit ==
  ASSUME NEW d \in [1 .. 13 -> 0 .. 9]
  PROVE  /\ checkDigit(d) \in 0 .. 9
         /\ (3 * odds(d) + even(d) + checkDigit(d)) % 10 = 0
<1> DEFINE x == 3 * odds(d) + even(d)
           y == (-3 * odds(d)) - even(d)
<1>1. x \in Nat /\ y = - x
  <2>1. \A i \in 1 .. 13 : d[i] \in Nat
    OBVIOUS
  <2>2. odds(d) \in Nat /\ even(d) \in Nat
    BY <2>1 DEF odds, even
  <2> QED BY <2>2
<1>2. checkDigit(d) = IF Rem(y, 10) < 0 THEN Rem(y, 10) + 10 ELSE Rem(y, 10)
  BY DEF checkDigit
<1> HIDE DEF x, y
<1>3. Rem(y, 10) = IF x % 10 = 0 THEN 0 ELSE - (x % 10)
  BY <1>1 DEF Rem
<1>4. checkDigit(d) = IF x % 10 = 0 THEN 0 ELSE 10 - (x % 10)
  BY <1>1, <1>2, <1>3
<1> QED
  BY <1>1, <1>4 DEF x

\* d are the digits of a GTIN-14 with this prefix and this item.
DigitsOfGtin(d, p, prefix, item) ==
  /\ d \in Seq(0 .. 9)
  /\ Len(d) = 14
  /\ (3 * odds(d) + even(d) + d[14]) % 10 = 0
  /\ SubSeq(d, 2, (12 - p) + 1) = Printed(prefix, 12 - p)
  /\ <<Head(d)>> \o SubSeq(d, (12 - p) + 2, 13) = Printed(item, p + 1)

LEMMA GtinDigits ==
  ASSUME NEW p \in 0 .. 6, NEW prefix, NEW item
  PROVE  DigitsOfGtin(getCheckDigit(p, prefix, item), p, prefix, item)
<1> DEFINE S == 0 .. 9
           n == 12 - p
           a == Printed(item, p + 1)
           b == Printed(prefix, n)
           r == Row(a, b)
           d == getCheckDigit(p, prefix, item)
<1>1. n \in Nat /\ p \in Nat /\ n \in 1 .. 13 /\ p + 1 \in 1 .. 13 /\ n + p = 12
  OBVIOUS
<1>2. a \in Seq(S) /\ Len(a) = p + 1 /\ b \in Seq(S) /\ Len(b) = n
  BY <1>1, PrintedDigits
<1>3. d = Arranged(a, b, checkDigit(r))
  <2>1. l[p] = n /\ digitCount - l[p] = p + 1
    BY DEF l, digitCount, maxPartitionValue
  <2> QED BY <2>1 DEF getCheckDigit, Arranged, Row
<1> HIDE DEF S, n, a, b, r, d
<1>4. r \in [1 .. 13 -> S]
  <2>1. IsRow(r, a, b, n, p, S)
    BY <1>1, <1>2, RowDigits DEF r
  <2>2. r \in Seq(S) /\ Len(r) = 13
    BY <1>1, <2>1 DEF IsRow
  <2> QED BY <2>2, LenProperties
<1>5. checkDigit(r) \in S /\ (3 * odds(r) + even(r) + checkDigit(r)) % 10 = 0
  BY <1>4, CheckDigit DEF S
<1>6. /\ \A i \in 1 .. 13 : d[i] = r[i]
      /\ d \in Seq(S) /\ Len(d) = 14 /\ d[14] = checkDigit(r)
      /\ SubSeq(d, 2, n + 1) = b
      /\ <<Head(d)>> \o SubSeq(d, n + 2, 13) = a
  <2>1. IsArranged(d, a, b, checkDigit(r), n, S)
    BY <1>1, <1>2, <1>3, <1>5, Arrangement
  <2> QED BY <2>1 DEF IsArranged, r
<1>7. odds(d) = odds(r) /\ even(d) = even(r)
  BY <1>6 DEF odds, even
<1> QED
  BY <1>5, <1>6, <1>7 DEF DigitsOfGtin, S, n, a, b, d

------------------------------------------------------------------------------
\* Which EPCs have a GTIN-14, and what it is.

LEMMA PrefixWidths ==
  ASSUME NEW p \in 0 .. 6
  PROVE  PrefixWidth(p) \in 20 .. 40
BY DEF PrefixWidth

LEMMA FieldBounds ==
  ASSUME NEW s, Partition(s) \in 0 .. 6
  PROVE  CompanyPrefix(s) \subseteq 0 .. 39 /\ ItemReference(s) \subseteq 0 .. 39
<1>1. PrefixWidth(Partition(s)) \in 20 .. 40
  BY PrefixWidths
<1> QED
  BY <1>1 DEF CompanyPrefix, ItemReference, Field

\* What the code asks of an EPC before it returns a GTIN-14.
Accepted(s) ==
  /\ checkEpc(s) = "none"
  /\ ~ Failed(getEpcBytes(s))
  /\ Partition(s) \in 0 .. 6
  /\ ~ AtLeastPower(CompanyPrefix(s), 12 - Partition(s))
  /\ ~ AtLeastPower(ItemReference(s), Partition(s) + 1)

LEMMA GtinDecided ==
  ASSUME NEW s
  PROVE  /\ ~ Failed(GetGtin14(s)) <=> Accepted(s)
         /\ Accepted(s) =>
              /\ GetGtin14(s) =
                   Value(getCheckDigit(Partition(s), CompanyPrefix(s), ItemReference(s)))
              /\ GetCompanyPrefixByEpc(s) = Value(CompanyPrefix(s))
<1> DEFINE bytes == getEpcBytes(s)
           p == Partition(s)
           gtin == GetGtin14(s)
           prefix == getCompanyPrefix(bytes.value, p)
           item == getItemReference(bytes.value, p)
<1>1. /\ \A e : Failed(Error(e)) <=> e # "none"
      /\ \A v : ~ Failed(Value(v)) /\ Value(v).value = v
  BY DEF Failed, Error, Value
<1>2. CASE checkEpc(s) # "none"
  BY <1>1, <1>2 DEF GetGtin14, Accepted
<1>3. CASE Failed(getEpcBytes(s))
  <2>1. checkEpc(s) = "none" => GetGtin14(s) = getEpcBytes(s)
    BY <1>3 DEF GetGtin14
  <2> QED BY <1>2, <1>3, <2>1 DEF Accepted
<1>4. CASE checkEpc(s) = "none" /\ ~ Failed(getEpcBytes(s))
  <2>1. getPartitionValue(bytes.value) = p /\ p \in 0 .. 7
    BY <1>4, SmallFields
  <2>2. /\ gtin = IF p > 6 THEN Error("partition")
                  ELSE IF Failed(prefix) THEN prefix
                  ELSE IF Failed(item) THEN item
                  ELSE Value(getCheckDigit(p, prefix.value, item.value))
        /\ GetCompanyPrefixByEpc(s) = IF p > 6 THEN Error("partition") ELSE prefix
    BY <1>4, <2>1 DEF GetGtin14, GetCompanyPrefixByEpc, maxPartitionValue
  <2>3. ASSUME p \in 0 .. 6
        PROVE  /\ prefix = IF AtLeastPower(CompanyPrefix(s), 12 - p)
                           THEN Error("company prefix") ELSE Value(CompanyPrefix(s))
               /\ item = IF AtLeastPower(ItemReference(s), p + 1)
                         THEN Error("item reference") ELSE Value(ItemReference(s))
    <3>1. /\ Assemble(bytes.value, companyPrefixParts(p)) = CompanyPrefix(s)
          /\ Assemble(bytes.value, itemReferenceParts(p)) = ItemReference(s)
      BY <1>4, <2>3, CompanyPrefixBits, ItemReferenceBits DEF CompanyPrefix, ItemReference
    <3>2. l[p] = 12 - p
      BY <2>3 DEF l, maxPartitionValue
    <3> QED BY <3>1, <3>2 DEF getCompanyPrefix, getItemReference
  <2> HIDE DEF bytes, p, gtin, prefix, item
  <2>4. /\ ~ Failed(gtin) <=> /\ p \in 0 .. 6
                              /\ ~ AtLeastPower(CompanyPrefix(s), 12 - p)
                              /\ ~ AtLeastPower(ItemReference(s), p + 1)
        /\ ~ Failed(gtin) =>
             /\ gtin = Value(getCheckDigit(p, CompanyPrefix(s), ItemReference(s)))
             /\ GetCompanyPrefixByEpc(s) = Value(CompanyPrefix(s))
    <3>1. CASE p = 7
      BY <1>1, <2>2, <3>1
    <3>2. CASE p \in 0 .. 6
      <4>1. ~ (p > 6)
        BY <3>2
      <4>2. CASE AtLeastPower(CompanyPrefix(s), 12 - p)
        BY <1>1, <2>2, <2>3, <3>2, <4>1, <4>2
      <4>3. CASE ~ AtLeastPower(CompanyPrefix(s), 12 - p) /\ AtLeastPower(ItemReference(s), p + 1)
        BY <1>1, <2>2, <2>3, <3>2, <4>1, <4>3
      <4>4. CASE ~ AtLeastPower(CompanyPrefix(s), 12 - p) /\ ~ AtLeastPower(ItemReference(s), p + 1)
        <5>1. prefix = Value(CompanyPrefix(s)) /\ item = Value(ItemReference(s))
          BY <2>3, <3>2, <4>4
        <5>2. /\ gtin = Value(getCheckDigit(p, CompanyPrefix(s), ItemReference(s)))
              /\ GetCompanyPrefixByEpc(s) = Value(CompanyPrefix(s))
          BY <1>1, <2>2, <4>1, <5>1
        <5> QED BY <1>1, <3>2, <4>4, <5>2
      <4> QED BY <4>2, <4>3, <4>4
    <3> QED BY <2>1, <3>1, <3>2
  <2> QED BY <1>4, <2>4 DEF Accepted, p, gtin
<1> QED
  BY <1>2, <1>3, <1>4

LEMMA AcceptedDigits ==
  ASSUME NEW s, ~ Failed(GetGtin14(s))
  PROVE  /\ Accepted(s)
         /\ DigitsOfGtin(GetGtin14(s).value, Partition(s), CompanyPrefix(s), ItemReference(s))
<1> DEFINE p == Partition(s)
           g == getCheckDigit(p, CompanyPrefix(s), ItemReference(s))
<1>1. Accepted(s) /\ GetGtin14(s) = Value(g)
  BY GtinDecided
<1>2. p \in 0 .. 6
  BY <1>1 DEF Accepted
<1>3. GetGtin14(s).value = g
  BY <1>1 DEF Value
<1> HIDE DEF p
<1>4. DigitsOfGtin(g, p, CompanyPrefix(s), ItemReference(s))
  BY <1>2, GtinDigits
<1> QED
  BY <1>1, <1>3, <1>4 DEF p

LEMMA AlwaysValid ==
  GtinIsValid
<1> DEFINE d == GetGtin14(epc).value
           S == 0 .. 9
<1> SUFFICES ASSUME ~ Failed(GetGtin14(epc))
             PROVE  /\ Len(d) = 14 /\ ToSet(d) \subseteq S
                    /\ (3 * odds(d) + even(d) + d[14]) % 10 = 0
  BY DEF GtinIsValid
<1>1. d \in Seq(S) /\ Len(d) = 14 /\ (3 * odds(d) + even(d) + d[14]) % 10 = 0
  BY AcceptedDigits DEF DigitsOfGtin
<1> HIDE DEF S, d
<1>2. d \in [1 .. Len(d) -> S] /\ DOMAIN d = 1 .. Len(d)
  BY <1>1, LenProperties
<1>3. ToSet(d) \subseteq S
  BY <1>2 DEF ToSet
<1> QED
  BY <1>1, <1>3

\* The digits of a GTIN-14 give back the two fields.
Reads(s, p, d) ==
  /\ BitsOf(SubSeq(d, 2, (12 - p) + 1)) = CompanyPrefix(s)
  /\ BitsOf(<<Head(d)>> \o SubSeq(d, (12 - p) + 2, 13)) = ItemReference(s)

LEMMA GtinReads ==
  ASSUME NEW s, ~ Failed(GetGtin14(s))
  PROVE  /\ Reads(s, Partition(s), GetGtin14(s).value)
         /\ GetCompanyPrefixByEpc(s) = Value(CompanyPrefix(s))
<1> DEFINE C == CompanyPrefix(s)
           I == ItemReference(s)
           p == Partition(s)
           d == GetGtin14(s).value
<1>1. /\ p \in 0 .. 6
      /\ ~ AtLeastPower(C, 12 - p) /\ ~ AtLeastPower(I, p + 1)
      /\ GetCompanyPrefixByEpc(s) = Value(C)
  BY GtinDecided DEF Accepted
<1>2. C \subseteq 0 .. 39 /\ I \subseteq 0 .. 39
  BY <1>1, FieldBounds
<1>3. /\ SubSeq(d, 2, (12 - p) + 1) = Printed(C, 12 - p)
      /\ <<Head(d)>> \o SubSeq(d, (12 - p) + 2, 13) = Printed(I, p + 1)
  BY AcceptedDigits DEF DigitsOfGtin
<1> HIDE DEF p, d, C, I
<1>4. 12 - p \in 1 .. 13 /\ p + 1 \in 1 .. 13
  BY <1>1
<1>5. BitsOf(Printed(C, 12 - p)) = C /\ BitsOf(Printed(I, p + 1)) = I
  BY <1>1, <1>2, <1>4, PrintedReads
<1> QED
  BY <1>1, <1>3, <1>5 DEF Reads, C, I, p, d

\* So two EPCs of a partition with one GTIN-14 have the same fields.
LEMMA FieldsFromGtin ==
  ASSUME NEW s, NEW t, ~ Failed(GetGtin14(s)), GetGtin14(t) = GetGtin14(s),
         Partition(t) = Partition(s)
  PROVE  CompanyPrefix(t) = CompanyPrefix(s) /\ ItemReference(t) = ItemReference(s)
<1>1. /\ Reads(s, Partition(s), GetGtin14(s).value)
      /\ Reads(t, Partition(s), GetGtin14(s).value)
  BY GtinReads
<1> QED
  BY <1>1 DEF Reads

LEMMA AlwaysRoundTrip ==
  RoundTrip
BY GtinReads DEF RoundTrip, Reads

\* Every GTIN-14 has 14 decimal digits, the last one of which makes the weighted sum a
\* multiple of ten: for whatever EPC (sgtin96.go:303-312).
THEOREM GtinsAreValid == Spec => []GtinIsValid
BY AlwaysValid, PTL

\* Masks, shifts and printing lose nothing: the digits of a GTIN-14 give back the company
\* prefix and the item reference of the EPC, for whatever EPC (sgtin96.go:34-109).
THEOREM GtinsRoundTrip == Spec => []RoundTrip
BY AlwaysRoundTrip, PTL

------------------------------------------------------------------------------
\* What a reader reports.

LEMMA Powers == 2 ^ 0 = 1 /\ 2 ^ 1 = 2 /\ 2 ^ 2 = 4 /\ 2 ^ 3 = 8
OBVIOUS

LEMMA BitsOfDigit ==
  ASSUME NEW c \in 0 .. 15
  PROVE  /\ 0 \in DigitBits(c) <=> c % 2 = 1
         /\ 1 \in DigitBits(c) <=> (c \div 2) % 2 = 1
         /\ 2 \in DigitBits(c) <=> (c \div 4) % 2 = 1
         /\ 3 \in DigitBits(c) <=> (c \div 8) % 2 = 1
<1>1. \A k \in 0 .. 3 : k \in DigitBits(c) <=> (c \div 2 ^ k) % 2 = 1
  BY Zenon DEF DigitBits
<1>2. 0 \in 0 .. 3 /\ 1 \in 0 .. 3 /\ 2 \in 0 .. 3 /\ 3 \in 0 .. 3 /\ c \div 1 = c
  OBVIOUS
<1> QED
  BY <1>1, <1>2, Powers, Zenon

\* e is a hexadecimal digit with the bits of c but for bit k.
IsFlipped(e, c, k) ==
  /\ e \in 0 .. 15
  /\ \A h \in 0 .. 3 :
       h \in DigitBits(e) <=> IF h = k THEN h \notin DigitBits(c) ELSE h \in DigitBits(c)

LEMMA FlipDigit ==
  ASSUME NEW c \in 0 .. 15, NEW k \in 0 .. 3
  PROVE  IsFlipped(IF k \in DigitBits(c) THEN c - 2 ^ k ELSE c + 2 ^ k, c, k)
<1> DEFINE e == IF k \in DigitBits(c) THEN c - 2 ^ k ELSE c + 2 ^ k
<1>0. e = IF k \in DigitBits(c) THEN c - 2 ^ k ELSE c + 2 ^ k
  OBVIOUS
<1> HIDE DEF e
<1>1. CASE k = 0
  <2>1. e = IF c % 2 = 1 THEN c - 1 ELSE c + 1
    BY <1>0, <1>1, BitsOfDigit, Powers
  <2>2. e \in 0 .. 15
    BY <2>1
  <2>3. /\ e % 2 = 1 <=> c % 2 # 1
        /\ (e \div 2) % 2 = (c \div 2) % 2
        /\ (e \div 4) % 2 = (c \div 4) % 2
        /\ (e \div 8) % 2 = (c \div 8) % 2
    BY <2>1
  <2> QED BY <1>1, <2>2, <2>3, BitsOfDigit DEF IsFlipped
<1>2. CASE k = 1
  <2>1. e = IF (c \div 2) % 2 = 1 THEN c - 2 ELSE c + 2
    BY <1>0, <1>2, BitsOfDigit, Powers
  <2>2. e \in 0 .. 15
    BY <2>1
  <2>3. /\ e % 2 = c % 2
        /\ (e \div 2) % 2 = 1 <=> (c \div 2) % 2 # 1
        /\ (e \div 4) % 2 = (c \div 4) % 2
        /\ (e \div 8) % 2 = (c \div 8) % 2
    BY <2>1
  <2> QED BY <1>2, <2>2, <2>3, BitsOfDigit DEF IsFlipped
<1>3. CASE k = 2
  <2>1. e = IF (c \div 4) % 2 = 1 THEN c - 4 ELSE c + 4
    BY <1>0, <1>3, BitsOfDigit, Powers
  <2>2. e \in 0 .. 15
    BY <2>1
  <2>3. /\ e % 2 = c % 2
        /\ (e \div 2) % 2 = (c \div 2) % 2
        /\ (e \div 4) % 2 = 1 <=> (c \div 4) % 2 # 1
        /\ (e \div 8) % 2 = (c \div 8) % 2
    BY <2>1
  <2> QED BY <1>3, <2>2, <2>3, BitsOfDigit DEF IsFlipped
<1>4. CASE k = 3
  <2>1. e = IF (c \div 8) % 2 = 1 THEN c - 8 ELSE c + 8
    BY <1>0, <1>4, BitsOfDigit, Powers
  <2>2. e \in 0 .. 15
    BY <2>1
  <2>3. /\ e % 2 = c % 2
        /\ (e \div 2) % 2 = (c \div 2) % 2
        /\ (e \div 4) % 2 = (c \div 4) % 2
        /\ (e \div 8) % 2 = 1 <=> (c \div 8) % 2 # 1
    BY <2>1
  <2> QED BY <1>4, <2>2, <2>3, BitsOfDigit DEF IsFlipped
<1> QED
  BY <1>1, <1>2, <1>3, <1>4 DEF e

LEMMA Hexadecimal ==
  ASSUME NEW s \in Seq(Characters), NotHex \notin ToSet(s)
  PROVE  s \in Seq(0 .. 15)
<1>1. s \in [1 .. Len(s) -> Characters] /\ Len(s) \in Nat /\ DOMAIN s = 1 .. Len(s)
  BY LenProperties
<1>2. \A i \in 1 .. Len(s) : s[i] \in 0 .. 15
  BY <1>1 DEF ToSet, Characters, NotHex
<1>3. s \in [1 .. Len(s) -> 0 .. 15]
  BY <1>1, <1>2
<1> QED
  BY <1>1, <1>3, FunctionIsSequence

\* t is s with e in place of its element i.
Replaces(t, s, i, e, S) ==
  /\ t \in Seq(S)
  /\ Len(t) = Len(s)
  /\ \A j \in 1 .. Len(s) : t[j] = IF j = i THEN e ELSE s[j]

LEMMA ReplaceOne ==
  ASSUME NEW S, NEW s \in Seq(S), NEW i \in 1 .. Len(s), NEW e \in S
  PROVE  Replaces([s EXCEPT ![i] = e], s, i, e, S)
BY ExceptSeq DEF Replaces

\* A bit error changes the one bit, and leaves 24 hexadecimal digits.
OneBitApart(t, s, q) ==
  /\ t \in Seq(0 .. 15)
  /\ Len(t) = 24
  /\ \A i \in 1 .. 24 : i # 24 - q \div 4 => t[i] = s[i]
  /\ \A x \in 0 .. 95 :
       x \in EpcBits(t) <=> IF x = q THEN x \notin EpcBits(s) ELSE x \in EpcBits(s)

LEMMA FlippedEpc ==
  ASSUME NEW s \in Seq(0 .. 15), Len(s) = 24, NEW q \in 0 .. 95
  PROVE  OneBitApart(FlipBit(s, q), s, q)
<1> DEFINE S == 0 .. 15
           i == 24 - q \div 4
           k == q % 4
           e == IF k \in DigitBits(s[i]) THEN s[i] - 2 ^ k ELSE s[i] + 2 ^ k
           t == FlipBit(s, q)
<1>1. i \in 1 .. 24 /\ k \in 0 .. 3 /\ 4 * (24 - i) + k = q
  OBVIOUS
<1>2. t = [s EXCEPT ![i] = e]
  BY DEF FlipBit, numEpcDigits
<1>3. s \in Seq(S)
  OBVIOUS
<1> HIDE DEF i, k, S
<1>4. i \in 1 .. Len(s) /\ s[i] \in S
  BY <1>1, <1>3, ElementOfSeq
<1>5. IsFlipped(e, s[i], k)
  BY <1>1, <1>4, FlipDigit DEF S
<1> HIDE DEF e, t
<1>6. e \in S
  BY <1>5 DEF IsFlipped, S
<1>7. t \in Seq(S) /\ Len(t) = 24 /\ \A j \in 1 .. 24 : t[j] = IF j = i THEN e ELSE s[j]
  <2>1. Replaces(t, s, i, e, S)
    BY <1>2, <1>3, <1>4, <1>6, ReplaceOne
  <2> QED BY <2>1 DEF Replaces
<1>8. ASSUME NEW x \in 0 .. 95
      PROVE  x \in EpcBits(t) <=> IF x = q THEN x \notin EpcBits(s) ELSE x \in EpcBits(s)
  <2> DEFINE j == 24 - x \div 4
             h == x % 4
  <2>1. j \in 1 .. 24 /\ h \in 0 .. 3 /\ 4 * (24 - j) + h = x
    OBVIOUS
  <2> HIDE DEF j, h
  <2>2. /\ x \in EpcBits(t) <=> h \in DigitBits(t[j])
        /\ x \in EpcBits(s) <=> h \in DigitBits(s[j])
    BY <2>1, EpcBit
  <2>3. x = q <=> j = i /\ h = k
    BY <1>1, <2>1
  <2>4. CASE j = i
    <3>1. h \in DigitBits(e) <=> IF h = k THEN h \notin DigitBits(s[i]) ELSE h \in DigitBits(s[i])
      BY <1>5, <2>1 DEF IsFlipped
    <3>2. t[j] = e
      BY <1>7, <2>1, <2>4
    <3> QED BY <2>2, <2>3, <2>4, <3>1, <3>2
  <2>5. CASE j # i
    <3>1. t[j] = s[j]
      BY <1>7, <2>1, <2>5
    <3> QED BY <2>2, <2>3, <2>5, <3>1
  <2> QED BY <2>4, <2>5
<1>9. \A j \in 1 .. 24 : j # i => t[j] = s[j]
  BY <1>7
<1> QED
  BY <1>7, <1>8, <1>9 DEF OneBitApart, S, t, i

\* What a reader reports is text, whatever the errors.
ReportsText ==
  /\ epc \in Seq(Characters)
  /\ errors \in 0 .. MaxErrors

LEMMA ReportsStep ==
  ReportsText /\ [Next]_vars => ReportsText'
<1> SUFFICES ASSUME ReportsText, [Next]_vars PROVE ReportsText'
  OBVIOUS
<1> USE SgtinAssumption
<1>0. \A s \in Seq(Characters) : Misread(s) => ReportsText'
  BY DEF ReportsText, Misread
<1>1. CASE BitError
  <2>1. PICK q \in 0 .. numEpcBits - 1 : Misread(FlipBit(epc, q))
    BY <1>1 DEF BitError
  <2>2. epc \in Seq(0 .. 15) /\ Len(epc) = 24
    BY <1>1, Hexadecimal DEF BitError, ReportsText, numEpcDigits
  <2>3. FlipBit(epc, q) \in Seq(0 .. 15)
    <3>1. q \in 0 .. 95
      BY DEF numEpcBits
    <3> QED BY <2>2, <3>1, FlippedEpc DEF OneBitApart
  <2>4. 0 .. 15 \subseteq Characters
    BY DEF Characters, NotHex
  <2>5. FlipBit(epc, q) \in Seq(Characters)
    BY <2>3, <2>4, SeqMonotonic
  <2> QED BY <1>0, <2>1, <2>5
<1>2. CASE CharacterError
  <2>1. PICK i \in DOMAIN epc : Misread([epc EXCEPT ![i] = NotHex])
    BY <1>2 DEF CharacterError
  <2>2. epc \in Seq(Characters) /\ i \in 1 .. Len(epc) /\ NotHex \in Characters
    BY <2>1, LenProperties DEF ReportsText, Characters, NotHex
  <2>3. [epc EXCEPT ![i] = NotHex] \in Seq(Characters)
    BY <2>2, ExceptSeq
  <2> QED BY <1>0, <2>1, <2>3
<1>3. CASE LengthError
  <2>1. epc \in Seq(Characters) /\ Len(epc) \in Nat /\ 1 \in Characters
    BY LenProperties DEF ReportsText, Characters, NotHex
  <2>2. Append(epc, 1) \in Seq(Characters)
    BY <2>1, AppendProperties
  <2>3. Front(epc) \in Seq(Characters)
    <3>1. \A i \in 1 .. Len(epc) - 1 : epc[i] \in Characters
      BY <2>1, ElementOfSeq
    <3> QED BY <2>1, <3>1, SubSeqProperties DEF Front
  <2> QED BY <1>0, <1>3, <2>2, <2>3 DEF LengthError
<1>4. CASE UNCHANGED vars
  BY <1>4 DEF ReportsText, vars
<1> QED
  BY <1>1, <1>2, <1>3, <1>4 DEF Next

\* An EPC stays a sequence of characters through every error of a reader
\* (sgtin96.go:119-138 reads it as text of any length).
THEOREM ReportsAreText == Spec => []ReportsText
<1>1. Init => ReportsText
  BY SgtinAssumption DEF Init, ReportsText
<1> QED
  BY <1>1, ReportsStep, PTL DEF Spec

LEMMA RefusesIt ==
  ReportsText => RefusesExactly
<1> DEFINE p == Partition(epc)
           C == CompanyPrefix(epc)
           I == ItemReference(epc)
<1> SUFFICES ASSUME ReportsText
             PROVE  ~ Failed(GetGtin14(epc)) <=>
                      /\ IsPrefix(sgtin96Header, epc)
                      /\ Len(epc) = numEpcDigits
                      /\ NotHex \notin ToSet(epc)
                      /\ p \in 0 .. 6
                      /\ BelowPower(C, 12 - p)
                      /\ BelowPower(I, p + 1)
  BY DEF RefusesExactly
<1>1. checkEpc(epc) = "none" <=> IsPrefix(sgtin96Header, epc) /\ Len(epc) = numEpcDigits
  BY DEF checkEpc
<1>2. Len(epc) = numEpcDigits => (Failed(getEpcBytes(epc)) <=> NotHex \in ToSet(epc))
  <2>1. DOMAIN epc = 1 .. Len(epc)
    BY LenProperties DEF ReportsText
  <2>2. Failed(getEpcBytes(epc)) <=> \E i \in 1 .. numEpcDigits : epc[i] = NotHex
    BY DEF getEpcBytes, Failed, Error, Value
  <2> QED BY <2>1, <2>2 DEF ToSet
<1>3. p \in 0 .. 6 =>
        /\ BelowPower(C, 12 - p) <=> ~ AtLeastPower(C, 12 - p)
        /\ BelowPower(I, p + 1) <=> ~ AtLeastPower(I, p + 1)
  BY FieldBounds, BelowPowerExact
<1> QED
  BY <1>1, <1>2, <1>3, GtinDecided DEF Accepted

\* An EPC is refused if, and only if, it is not an SGTIN-96: the header, the length, the
\* characters, the partition, and a prefix and an item below their powers of ten
\* (sgtin96.go:33).
THEOREM RefusesNothingElse == Spec => []RefusesExactly
BY ReportsAreText, RefusesIt, PTL

------------------------------------------------------------------------------
\* What a single wrong bit does.

LEMMA HeaderDigits ==
  ASSUME NEW s \in Seq(0 .. 15), Len(s) = 24
  PROVE  checkEpc(s) = IF s[1] = 3 /\ s[2] = 0 THEN "none" ELSE "header"
<1> DEFINE S == 0 .. 15
           h == sgtin96Header
<1>0. s \in Seq(S)
  OBVIOUS
<1>1. h \in Seq(S) /\ Len(h) = 2 /\ h[1] = 3 /\ h[2] = 0
  BY DEF sgtin96Header
<1> HIDE DEF S, h
<1>2. \A i \in 1 .. 2 : h[i] \in S /\ s[i] \in S
  <2>1. \A i \in 1 .. 2 : i \in 1 .. Len(h) /\ i \in 1 .. Len(s)
    BY <1>1
  <2> QED BY <1>0, <1>1, <2>1, ElementOfSeq
<1>3. /\ SubSeq(h, 1, 2) \in Seq(S) /\ Len(SubSeq(h, 1, 2)) = 2
      /\ SubSeq(h, 1, 2)[1] = h[1] /\ SubSeq(h, 1, 2)[2] = h[2]
  BY <1>2, Slice
<1>4. /\ SubSeq(s, 1, 2) \in Seq(S) /\ Len(SubSeq(s, 1, 2)) = 2
      /\ SubSeq(s, 1, 2)[1] = s[1] /\ SubSeq(s, 1, 2)[2] = s[2]
  BY <1>2, Slice
<1>5. SubSeq(h, 1, 2) = SubSeq(s, 1, 2) <=> s[1] = 3 /\ s[2] = 0
  <2>1. ASSUME s[1] = 3 /\ s[2] = 0 PROVE SubSeq(h, 1, 2) = SubSeq(s, 1, 2)
    BY <1>1, <1>3, <1>4, <2>1, SeqEqual
  <2> QED BY <1>1, <1>3, <1>4, <2>1
<1>6. IsPrefix(h, s) <=> SubSeq(h, 1, 2) = SubSeq(s, 1, 2)
  BY <1>1 DEF IsPrefix
<1> QED
  BY <1>5, <1>6 DEF checkEpc, numEpcDigits, h

LEMMA ReadsHexadecimal ==
  ASSUME NEW s \in Seq(0 .. 15), Len(s) = 24
  PROVE  ~ Failed(getEpcBytes(s))
<1> DEFINE S == 0 .. 15
<1>1. s \in Seq(S) /\ 16 \notin S
  OBVIOUS
<1> HIDE DEF S
<1>2. \A i \in 1 .. 24 : s[i] # 16
  BY <1>1, ElementOfSeq
<1> QED
  BY <1>2 DEF getEpcBytes, Failed, Value, numEpcDigits, NotHex

\* Two EPCs with the same bits in a field have the same field.
SameBits(s, t, from, to) == \A x \in from .. to : x \in EpcBits(t) <=> x \in EpcBits(s)

LEMMA SameBitsApart ==
  ASSUME NEW s, NEW t, NEW q \in 0 .. 95, OneBitApart(t, s, q),
         NEW from \in Nat, NEW to \in Nat, to <= 95, q < from \/ to < q
  PROVE  SameBits(s, t, from, to)
<1> SUFFICES ASSUME NEW x \in from .. to PROVE x \in EpcBits(t) <=> x \in EpcBits(s)
  BY DEF SameBits
<1>1. x \in 0 .. 95 /\ x # q
  OBVIOUS
<1> QED
  BY <1>1 DEF OneBitApart

LEMMA SameField ==
  ASSUME NEW s, NEW t, NEW from \in Nat, NEW width \in Nat, NEW to, to = from + width - 1,
         SameBits(s, t, from, to)
  PROVE  Field(t, from, width) = Field(s, from, width)
<1>1. \A k \in 0 .. width - 1 : from + k \in from .. to
  OBVIOUS
<1>2. \A k \in 0 .. width - 1 : from + k \in EpcBits(t) <=> from + k \in EpcBits(s)
  BY <1>1 DEF SameBits
<1> QED
  BY <1>2 DEF Field

LEMMA OtherField ==
  ASSUME NEW s, NEW t, NEW from \in Nat, NEW width \in Nat, NEW q \in Nat,
         from <= q, q < from + width, q \in EpcBits(t) <=> q \notin EpcBits(s)
  PROVE  Field(t, from, width) # Field(s, from, width)
<1>1. q - from \in 0 .. width - 1 /\ from + (q - from) = q
  OBVIOUS
<1>2. /\ q - from \in Field(t, from, width) <=> q \in EpcBits(t)
      /\ q - from \in Field(s, from, width) <=> q \in EpcBits(s)
  BY <1>1 DEF Field
<1> QED
  BY <1>2

LEMMA SmallTells ==
  ASSUME NEW A, NEW B, A \subseteq 0 .. 2, B \subseteq 0 .. 2, Small(A) = Small(B)
  PROVE  A = B
<1>1. (0 \in A <=> 0 \in B) /\ (1 \in A <=> 1 \in B) /\ (2 \in A <=> 2 \in B)
  BY DEF Small
<1>2. \A x \in 0 .. 2 : x = 0 \/ x = 1 \/ x = 2
  OBVIOUS
<1>3. \A x : x \in A <=> x \in B
  BY <1>1, <1>2, Zenon
<1> QED
  BY <1>3

\* What the functions return before and after a single wrong bit.
BitTells(s, t, q) ==
  /\ q \in 0 .. 37 \cup 85 .. 87 => GetGtin14(t) = GetGtin14(s)
  /\ q \in 88 .. 95 => GetGtin14(t) = Error("header")
  /\ q \in 38 .. 81 => GetGtin14(t) # GetGtin14(s)
  /\ q \in 0 .. 87 => (GetItemFilter(t) = GetItemFilter(s) <=> q \notin 85 .. 87)

LEMMA WrongHeader ==
  ASSUME NEW s \in Seq(0 .. 15), Len(s) = 24, NEW q \in 0 .. 95, NEW t, OneBitApart(t, s, q),
         checkEpc(s) = "none"
  PROVE  /\ q \in 0 .. 87 => checkEpc(t) = "none"
         /\ q \in 88 .. 95 => checkEpc(t) = "header"
<1> DEFINE i == 24 - q \div 4
           k == q % 4
<1>1. i \in 1 .. 24 /\ k \in 0 .. 3 /\ 4 * (24 - i) + k = q
  OBVIOUS
<1>2. /\ q \in 0 .. 87 => i # 1 /\ i # 2
      /\ q \in 88 .. 95 => i = 1 \/ i = 2
  OBVIOUS
<1>3. \A j \in 1 .. 24 : j # i => t[j] = s[j]
  BY DEF OneBitApart
<1> HIDE DEF i, k
<1>4. t[i] # s[i]
  <2>1. q \in EpcBits(t) <=> q \notin EpcBits(s)
    BY DEF OneBitApart
  <2>2. /\ q \in EpcBits(t) <=> k \in DigitBits(t[i])
        /\ q \in EpcBits(s) <=> k \in DigitBits(s[i])
    BY <1>1, EpcBit
  <2> QED BY <2>1, <2>2
<1>5. checkEpc(t) = IF t[1] = 3 /\ t[2] = 0 THEN "none" ELSE "header"
  BY HeaderDigits DEF OneBitApart
<1>6. s[1] = 3 /\ s[2] = 0
  BY HeaderDigits
<1> QED
  BY <1>2, <1>3, <1>4, <1>5, <1>6

LEMMA OneWrongBit ==
  ASSUME NEW s \in Seq(0 .. 15), Len(s) = 24, NEW q \in 0 .. 95, ~ Failed(GetGtin14(s)),
         NEW t, OneBitApart(t, s, q)
  PROVE  BitTells(s, t, q)
<1> DEFINE p == Partition(s)
           W == PrefixWidth(p)
           V == 82 - W
           I == 44 - W
<1>1. \A x \in 0 .. 95 :
        x \in EpcBits(t) <=> IF x = q THEN x \notin EpcBits(s) ELSE x \in EpcBits(s)
  BY DEF OneBitApart
<1>2. ~ Failed(getEpcBytes(s)) /\ ~ Failed(getEpcBytes(t))
  BY ReadsHexadecimal DEF OneBitApart
<1>3. Accepted(s) /\ checkEpc(s) = "none" /\ p \in 0 .. 6
  BY GtinDecided DEF Accepted
<1>4. /\ q \in 0 .. 87 => checkEpc(t) = "none"
      /\ q \in 88 .. 95 => checkEpc(t) = "header"
  BY <1>3, WrongHeader
<1>5. CompanyPrefix(s) = Field(s, V, W) /\ ItemReference(s) = Field(s, 38, I)
  BY DEF CompanyPrefix, ItemReference
<1>6. Partition(t) = p => CompanyPrefix(t) = Field(t, V, W) /\ ItemReference(t) = Field(t, 38, I)
  BY DEF CompanyPrefix, ItemReference
<1>7. W \in 20 .. 40 /\ V = 82 - W /\ I = 44 - W
  BY <1>3, PrefixWidths
<1> HIDE DEF p, W, V, I
<1>8. q \in 0 .. 81 \cup 85 .. 95 => Partition(t) = p
  <2>1. q \in 0 .. 81 \cup 85 .. 95 => SameBits(s, t, 82, 84)
    <3>1. q \in 0 .. 81 \cup 85 .. 95 => q < 82 \/ 84 < q
      OBVIOUS
    <3>2. 82 \in Nat /\ 84 \in Nat /\ 84 <= 95
      OBVIOUS
    <3> QED BY <3>1, <3>2, SameBitsApart
  <2>2. SameBits(s, t, 82, 84) => Field(t, 82, 3) = Field(s, 82, 3)
    BY SameField
  <2> QED BY <2>1, <2>2 DEF Partition, p
<1>9. ASSUME q \in 0 .. 37 \cup 85 .. 87 PROVE GetGtin14(t) = GetGtin14(s)
  <2>1. Partition(t) = p
    BY <1>8, <1>9
  <2>2. Field(t, V, W) = Field(s, V, W)
    <3>1. SameBits(s, t, V, 81)
      <4>1. V \in Nat /\ 81 \in Nat /\ 81 <= 95 /\ (q < V \/ 81 < q)
        BY <1>7, <1>9
      <4> QED BY <4>1, SameBitsApart
    <3>2. V \in Nat /\ W \in Nat /\ 81 = V + W - 1
      BY <1>7
    <3> QED BY <3>1, <3>2, SameField
  <2>3. Field(t, 38, I) = Field(s, 38, I)
    <3>1. SameBits(s, t, 38, 81 - W)
      <4>1. 38 \in Nat /\ 81 - W \in Nat /\ 81 - W <= 95 /\ (q < 38 \/ 81 - W < q)
        BY <1>7, <1>9
      <4> QED BY <4>1, SameBitsApart
    <3>2. 38 \in Nat /\ I \in Nat /\ 81 - W = 38 + I - 1
      BY <1>7
    <3> QED BY <3>1, <3>2, SameField
  <2>4. CompanyPrefix(t) = CompanyPrefix(s) /\ ItemReference(t) = ItemReference(s)
    BY <1>5, <1>6, <2>1, <2>2, <2>3
  <2>5. Partition(t) = Partition(s)
    BY <2>1 DEF p
  <2>6. checkEpc(t) = "none"
    BY <1>4, <1>9
  <2>7. Accepted(t)
    BY <1>2, <1>3, <2>4, <2>5, <2>6 DEF Accepted
  <2> QED BY <1>3, <2>4, <2>5, <2>7, GtinDecided
<1>10. ASSUME q \in 88 .. 95 PROVE GetGtin14(t) = Error("header")
  BY <1>4, <1>10 DEF GetGtin14
<1>11. ASSUME q \in 38 .. 81, GetGtin14(t) = GetGtin14(s) PROVE FALSE
  <2>1. Partition(t) = p
    BY <1>8, <1>11
  <2>2. CompanyPrefix(t) = CompanyPrefix(s) /\ ItemReference(t) = ItemReference(s)
    BY <1>11, <2>1, FieldsFromGtin DEF p
  <2>3. Field(t, V, W) = Field(s, V, W) /\ Field(t, 38, I) = Field(s, 38, I)
    BY <1>5, <1>6, <2>1, <2>2
  <2>4. q \in EpcBits(t) <=> q \notin EpcBits(s)
    BY <1>1
  <2>5. V \in Nat /\ W \in Nat /\ I \in Nat /\ 38 \in Nat /\ q \in Nat
    BY <1>7
  <2>6. CASE q < 38 + I
    BY <1>11, <2>3, <2>4, <2>5, <2>6, OtherField
  <2>7. CASE V <= q
    <3>1. q < V + W
      BY <1>7, <1>11
    <3> QED BY <2>3, <2>4, <2>5, <2>7, <3>1, OtherField
  <2>8. q < 38 + I \/ V <= q
    BY <1>7
  <2> QED BY <2>6, <2>7, <2>8
<1>12. ASSUME q \in 0 .. 87
       PROVE  GetItemFilter(t) = GetItemFilter(s) <=> q \notin 85 .. 87
  <2> DEFINE A == Field(s, 85, 3)
             B == Field(t, 85, 3)
  <2>1. GetItemFilter(s) = Value(Small(A)) /\ GetItemFilter(t) = Value(Small(B))
    BY <1>2, <1>3, <1>4, <1>12, SmallFields DEF GetItemFilter
  <2>2. A \subseteq 0 .. 2 /\ B \subseteq 0 .. 2
    BY DEF Field
  <2>3. q \notin 85 .. 87 => A = B
    <3>1. q \notin 85 .. 87 => SameBits(s, t, 85, 87)
      <4>1. 85 \in Nat /\ 87 \in Nat /\ 87 <= 95 /\ (q \notin 85 .. 87 => q < 85 \/ 87 < q)
        OBVIOUS
      <4> QED BY <4>1, SameBitsApart
    <3> QED BY <3>1, SameField
  <2>4. q \in 85 .. 87 => A # B
    <3>1. q \in EpcBits(t) <=> q \notin EpcBits(s)
      BY <1>1
    <3> QED BY <3>1, OtherField
  <2> HIDE DEF A, B
  <2>5. Small(A) = Small(B) => A = B
    BY <2>2, SmallTells
  <2> QED BY <2>1, <2>3, <2>4, <2>5 DEF Value
<1> QED
  BY <1>9, <1>10, <1>11, <1>12 DEF BitTells

\* A single wrong bit is noticed where it should be, in every EPC that has a GTIN-14
\* (sgtin96.go:111-300).
THEOREM BitErrorsAreTold == Spec => BitErrorsTell
<1>1. ReportsText /\ [Next]_vars =>
        [\A q \in 0 .. numEpcBits - 1 :
           BitError /\ epc' = FlipBit(epc, q) /\ ~ Failed(GetGtin14(epc)) =>
             /\ q \in 0 .. 37 \cup 85 .. 87 => GetGtin14(epc') = GetGtin14(epc)
             /\ q \in 88 .. 95 => GetGtin14(epc') = Error("header")
             /\ q \in 38 .. 81 => GetGtin14(epc') # GetGtin14(epc)
             /\ q \in 0 .. 87 =>
                  (GetItemFilter(epc') = GetItemFilter(epc) <=> q \notin 85 .. 87)]_vars
  <2>1. ASSUME ReportsText, NEW q \in 0 .. 95, BitError, epc' = FlipBit(epc, q),
               ~ Failed(GetGtin14(epc))
        PROVE  BitTells(epc, epc', q)
    <3>1. epc \in Seq(0 .. 15) /\ Len(epc) = 24
      BY <2>1, Hexadecimal DEF BitError, ReportsText, numEpcDigits
    <3>2. OneBitApart(epc', epc, q)
      BY <2>1, <3>1, FlippedEpc
    <3> QED BY <2>1, <3>1, <3>2, OneWrongBit
  <2>2. 0 .. numEpcBits - 1 = 0 .. 95
    BY DEF numEpcBits
  <2> QED BY <2>1, <2>2 DEF BitTells
<1> QED
  BY <1>1, ReportsAreText, PTL DEF BitErrorsTell, Spec

==============================================================================
