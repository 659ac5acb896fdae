------------------------- MODULE AccumulatorProofs -------------------------
(***************************************************************************)
(* Words and the accumulator, for every size of the machine: a magnitude is *)
(* cut into an operation code and two addresses without loss, and the       *)
(* operations on the accumulator leave words.                               *)
(***************************************************************************)
EXTENDS Accumulator, WellFoundedInduction, TLAPS

----------------------------------------------------------------------------
(* Induction on natural numbers, for sets: a set that is closed under adding *)
(* one has them all, or there would be a least number it lacks.              *)
Below == {p \in Nat \X Nat : p[1] < p[2]}

LEMMA BelowWellFounded == IsWellFoundedOn(Below, Nat)
  BY NatLessThanWellFounded DEF Below, OpToRel

LEMMA LeastMember ==
    ASSUME NEW T, T \subseteq Nat, T # {}
    PROVE  \E x \in T : \A y \in T : ~(<<y, x>> \in Below)
  BY BelowWellFounded, WFMin

LEMMA Induction ==
    ASSUME NEW S, 0 \in S, \A n \in Nat : n \in S => n + 1 \in S
    PROVE  Nat \subseteq S
  <1> DEFINE T == Nat \ S
  <1>1. SUFFICES ASSUME T # {} PROVE FALSE
    OBVIOUS
  <1>2. PICK x \in T : \A y \in T : ~(<<y, x>> \in Below)
    BY <1>1, LeastMember
  <1>3. x # 0 /\ x - 1 \in Nat
    OBVIOUS
  <1>4. <<x - 1, x>> \in Below
    BY <1>3 DEF Below
  <1>5. x - 1 \in T => ~(<<x - 1, x>> \in Below)
    BY <1>2, Zenon
  <1> QED  BY <1>3, <1>4, <1>5

(* A function defined by a step from each value to the next exists: it is    *)
(* put together from its beginnings, any two of which agree.                 *)
Beginnings(V, v0, s, m) ==
    {g \in [0 .. m -> V] : g[0] = v0 /\ \A i \in 0 .. m - 1 : g[i + 1] = s[g[i]]}

LEMMA BeginningsExist ==
    ASSUME NEW V, NEW v0 \in V, NEW s \in [V -> V]
    PROVE  \A m \in Nat : Beginnings(V, v0, s, m) # {}
  <1> DEFINE S == {m \in Nat : Beginnings(V, v0, s, m) # {}}
  <1>1. 0 \in S
    <2>1. [i \in 0 .. 0 |-> v0] \in Beginnings(V, v0, s, 0)
      BY DEF Beginnings
    <2> QED  BY <2>1
  <1>2. ASSUME NEW n \in Nat, n \in S
        PROVE  n + 1 \in S
    <2>1. PICK g \in [0 .. n -> V] : g[0] = v0 /\ \A i \in 0 .. n - 1 : g[i + 1] = s[g[i]]
      BY <1>2 DEF Beginnings
    <2> DEFINE h == [i \in 0 .. n + 1 |-> IF i <= n THEN g[i] ELSE s[g[n]]]
    <2>2. h \in [0 .. n + 1 -> V]
      BY <2>1
    <2>3. h[0] = v0 /\ \A i \in 0 .. n : h[i + 1] = s[h[i]]
      BY <2>1
    <2>4. h \in Beginnings(V, v0, s, n + 1)
      <3> HIDE DEF h
      <3>1. (n + 1) - 1 = n
        OBVIOUS
      <3> QED BY <2>2, <2>3, <3>1 DEF Beginnings
    <2> QED  BY <2>4
  <1> HIDE DEF S
  <1>3. Nat \subseteq S
    BY <1>1, <1>2, Induction
  <1> QED  BY <1>3 DEF S

LEMMA BeginningsAgree ==
    ASSUME NEW V, NEW v0 \in V, NEW s \in [V -> V], NEW m \in Nat, NEW n \in Nat,
           NEW g \in Beginnings(V, v0, s, m), NEW h \in Beginnings(V, v0, s, n)
    PROVE  \A i \in Nat : i <= m /\ i <= n => g[i] = h[i]
  <1> DEFINE S == {i \in Nat : i <= m /\ i <= n => g[i] = h[i]}
  <1>1. 0 \in S
    BY DEF Beginnings
  <1>2. ASSUME NEW i \in Nat, i \in S
        PROVE  i + 1 \in S
    <2>1. CASE i + 1 <= m /\ i + 1 <= n
      <3>1. i \in 0 .. m - 1 /\ i \in 0 .. n - 1 /\ g[i] = h[i]
        BY <1>2, <2>1
      <3>2. g[i + 1] = s[g[i]] /\ h[i + 1] = s[h[i]]
        BY <3>1 DEF Beginnings
      <3> QED  BY <3>1, <3>2
    <2> QED  BY <2>1
  <1> HIDE DEF S
  <1>3. Nat \subseteq S
    BY <1>1, <1>2, Induction
  <1> QED  BY <1>3 DEF S

Iterates(f, V, v0, s) ==
    f \in [Nat -> V] /\ f[0] = v0 /\ \A n \in Nat : f[n + 1] = s[f[n]]

LEMMA Recursion ==
    ASSUME NEW V, NEW v0 \in V, NEW s \in [V -> V]
    PROVE  \E f : Iterates(f, V, v0, s)
  <1> DEFINE G(m) == CHOOSE g : g \in Beginnings(V, v0, s, m)
             f == [m \in Nat |-> G(m)[m]]
  <1>1. \A m \in Nat : G(m) \in Beginnings(V, v0, s, m)
    BY BeginningsExist
  <1>2. f \in [Nat -> V]
    <2>1. ASSUME NEW m \in Nat PROVE G(m)[m] \in V
      <3>1. G(m) \in [0 .. m -> V]
        BY <1>1 DEF Beginnings
      <3> HIDE DEF G
      <3> QED  BY <3>1
    <2> HIDE DEF G
    <2> QED  BY <2>1
  <1> HIDE DEF G
  <1>3. f[0] = v0
    BY <1>1 DEF Beginnings
  <1>4. ASSUME NEW n \in Nat
        PROVE  f[n + 1] = s[f[n]]
    <2>1. G(n) \in Beginnings(V, v0, s, n) /\ G(n + 1) \in Beginnings(V, v0, s, n + 1)
      BY <1>1
    <2>2. G(n)[n] = G(n + 1)[n]
      BY <2>1, BeginningsAgree
    <2>3. G(n + 1)[n + 1] = s[G(n + 1)[n]]
      BY <2>1 DEF Beginnings
    <2> QED  BY <2>2, <2>3
  <1> HIDE DEF f
  <1> QED  BY <1>2, <1>3, <1>4 DEF Iterates

(* The weights of the digits.                                                *)
LEMMA WeightRule ==
    /\ Weight \in [Nat -> Nat \ {0}]
    /\ Weight[0] = 1
    /\ \A n \in Nat : Weight[n + 1] = Base * Weight[n]
  <1> DEFINE P == Nat \ {0}
             s == [v \in P |-> Base * v]
  <1>1. s \in [P -> P] /\ 1 \in P /\ \A v \in P : s[v] = Base * v
    BY DEF Base
  <1> HIDE DEF s
  <1>2. PICK f : Iterates(f, P, 1, s)
    BY <1>1, Recursion
  <1>3. f \in [Nat -> P] /\ f[0] = 1 /\ \A n \in Nat : f[n + 1] = Base * f[n]
    BY <1>1, <1>2 DEF Iterates
  <1>4. f = [n \in Nat |-> IF n = 0 THEN 1 ELSE Base * f[n - 1]]
    <2>1. \A n \in Nat : f[n] = IF n = 0 THEN 1 ELSE Base * f[n - 1]
      <3> TAKE n \in Nat
      <3>1. CASE n # 0
        <4>1. n - 1 \in Nat /\ (n - 1) + 1 = n
          BY <3>1
        <4> QED  BY <3>1, <4>1, <1>3
      <3> QED BY <1>3, <3>1
    <2> QED  BY <1>3, <2>1
  <1>5. Weight = [n \in Nat |-> IF n = 0 THEN 1 ELSE Base * Weight[n - 1]]
    BY <1>4, Zenon DEF Weight
  <1>6. Weight[0] = 1 /\ \A n \in Nat : Weight[n + 1] = Base * Weight[n]
    BY <1>5
  <1>7. Weight \in [Nat -> P]
    <2> DEFINE S == {n \in Nat : Weight[n] \in P}
    <2>1. 0 \in S
      BY <1>6
    <2>2. ASSUME NEW n \in Nat, n \in S PROVE n + 1 \in S
      BY <1>6, <2>2 DEF Base
    <2> HIDE DEF S
    <2>3. Nat \subseteq S
      BY <2>1, <2>2, Induction
    <2>4. \A n \in Nat : Weight[n] \in P
      BY <2>3 DEF S
    <2> QED  BY <1>5, <2>4
  <1> QED  BY <1>6, <1>7

LEMMA WeightSum ==
    ASSUME NEW m \in Nat
    PROVE  \A n \in Nat : Weight[m + n] = Weight[m] * Weight[n]
  <1> DEFINE S == {n \in Nat : Weight[m + n] = Weight[m] * Weight[n]}
  <1>1. 0 \in S
    BY WeightRule
  <1>2. ASSUME NEW n \in Nat, n \in S PROVE n + 1 \in S
    <2>1. Weight[m] \in Nat /\ Weight[n] \in Nat
      BY WeightRule
    <2>2. Weight[m + (n + 1)] = Base * Weight[m + n]
      <3>1. m + (n + 1) = (m + n) + 1 /\ m + n \in Nat
        OBVIOUS
      <3> QED  BY <3>1, WeightRule
    <2>3. Weight[n + 1] = Base * Weight[n] /\ Weight[m + n] = Weight[m] * Weight[n]
      BY <1>2, WeightRule
    <2>4. \A a, b \in Nat : Base * (a * b) = a * (Base * b)
      BY DEF Base
    <2>5. Base * (Weight[m] * Weight[n]) = Weight[m] * (Base * Weight[n])
      BY <2>1, <2>4, Zenon
    <2>6. Weight[m + (n + 1)] = Weight[m] * Weight[n + 1]
      BY <2>2, <2>3, <2>5, Zenon
    <2> QED  BY <2>6
  <1> HIDE DEF S
  <1>3. Nat \subseteq S
    BY <1>1, <1>2, Induction
  <1> QED  BY <1>3 DEF S

----------------------------------------------------------------------------

(* Division with remainder, for a divisor that is not a literal.              *)
LEMMA DivMod ==
    ASSUME NEW m \in Nat, NEW n \in Nat \ {0}
    PROVE  /\ m \div n \in Nat
           /\ m % n \in 0 .. n - 1
           /\ m = n * (m \div n) + (m % n)
    BY SMT

(* A quotient is below a bound if the dividend is below its multiple.         *)
LEMMA QuotientBound ==
    ASSUME NEW m \in Nat, NEW n \in Nat \ {0}, NEW b \in Nat, m < b * n
    PROVE  m \div n < b
<1>1. /\ m \div n \in Nat
      /\ n * (m \div n) <= m
    BY DivMod, SMT
<1>2. SUFFICES ASSUME m \div n >= b PROVE FALSE
    BY <1>1
<1>3. n * (m \div n) >= n * b
    BY <1>1, <1>2, SMT
<1> QED
    BY <1>1, <1>3, SMT

(* The numbers that weigh the digit groups are not zero.                     *)
LEMMA BaseFacts ==
    /\ WordBase \in Nat \ {0}
    /\ HighBase \in Nat \ {0}
    /\ WordBase = Base * HighBase
    /\ WordBase = (OpBase * AddressBase) * AddressBase
<1> DEFINE AA == AddressBase * AddressBase
<1>1. AA \in Nat \ {0}
    BY SizesAssumption, SMT
<1>2. WordBase = 100 * AA /\ HighBase = 10 * AA
    BY SizesAssumption, SMT DEF WordBase, HighBase, OpBase, Base
<1> QED
    BY <1>1, <1>2, SizesAssumption, SMT DEF WordBase, OpBase, Base

(* The magnitude of a word is below the number of its digit patterns.        *)
LEMMA MagRange ==
    ASSUME NEW w, w.op \in OpCodes, w.da \in Addresses, w.ia \in Addresses
    PROVE  Mag(w) \in 0 .. WordBase - 1
<1> DEFINE h == w.op * AddressBase + w.da
<1>1. /\ w.op \in Nat /\ w.op <= OpBase - 1
      /\ w.da \in Nat /\ w.da <= AddressBase - 1
      /\ w.ia \in Nat /\ w.ia <= AddressBase - 1
      /\ AddressBase \in Nat \ {0}
    BY SizesAssumption, SMT DEF OpCodes, Addresses, OpBase, Base
<1>2. h \in Nat /\ h <= OpBase * AddressBase - 1
    BY <1>1, SMT DEF OpBase, Base
<1>3. h * AddressBase + w.ia <= (OpBase * AddressBase) * AddressBase - 1
    <2> HIDE DEF h
    <2>1. h * AddressBase <= (OpBase * AddressBase - 1) * AddressBase
        BY <1>1, <1>2, SMT DEF OpBase, Base
    <2>2. (OpBase * AddressBase - 1) * AddressBase
             = (OpBase * AddressBase) * AddressBase - AddressBase
        BY <1>1, SMT DEF OpBase, Base
    <2> QED
        BY <1>1, <1>2, <2>1, <2>2, SMT DEF OpBase, Base
<1>4. h * AddressBase + w.ia \in Nat
    BY <1>1, <1>2, SMT
<1> QED
    BY <1>3, <1>4, BaseFacts, SMT DEF Mag

(* A magnitude is a word with either sign.                                    *)
LEMMA WordOfType ==
    ASSUME NEW m \in 0 .. WordBase - 1, NEW s \in Signs
    PROVE  WordOf(m, s) \in Word
<1>1. m \in Nat /\ m < (OpBase * AddressBase) * AddressBase
    BY BaseFacts, SMT
<1>2. AddressBase \in Nat \ {0} /\ OpBase \in Nat
    BY SizesAssumption, SMT DEF OpBase, Base
<1> DEFINE q == m \div AddressBase
<1>3. q \in Nat /\ m % AddressBase \in 0 .. AddressBase - 1
    BY <1>1, <1>2, DivMod, Zenon
<1>4. q < OpBase * AddressBase
    <2>1. OpBase * AddressBase \in Nat
        BY <1>2, SMT
    <2> QED
        BY <1>1, <1>2, <2>1, QuotientBound, Zenon
<1>5. q \div AddressBase \in Nat /\ q % AddressBase \in 0 .. AddressBase - 1
    BY <1>2, <1>3, DivMod, Zenon
<1>6. q \div AddressBase < OpBase
    BY <1>2, <1>3, <1>4, QuotientBound, Zenon
<1>7. q \div AddressBase \in OpCodes
    <2> HIDE DEF q
    <2> QED
        BY <1>2, <1>5, <1>6, SMT DEF OpCodes
<1> QED
    BY <1>3, <1>5, <1>7 DEF Word, WordOf, Addresses

(* No digit is lost on the way to a word and back.                            *)
THEOREM MagOfWordOf ==
    ASSUME NEW m \in 0 .. WordBase - 1, NEW s \in Signs
    PROVE  Mag(WordOf(m, s)) = m
<1>1. m \in Nat /\ AddressBase \in Nat \ {0}
    BY BaseFacts, SizesAssumption, SMT
<1> DEFINE q == m \div AddressBase
<1>2. q \in Nat /\ m = AddressBase * q + (m % AddressBase)
    BY <1>1, DivMod, Zenon
<1>3. /\ q \div AddressBase \in Nat
      /\ q = AddressBase * (q \div AddressBase) + (q % AddressBase)
    BY <1>1, <1>2, DivMod, Zenon
<1>4. Mag(WordOf(m, s)) =
         ((q \div AddressBase) * AddressBase + (q % AddressBase)) * AddressBase
            + (m % AddressBase)
    BY DEF Mag, WordOf
<1> HIDE DEF q
<1>5. (q \div AddressBase) * AddressBase + (q % AddressBase) = q
    <2> DEFINE r == q \div AddressBase
    <2>1. AddressBase * r = r * AddressBase
        <3> HIDE DEF r
        <3> QED
            BY <1>1, <1>3, SMT DEF r
    <2> QED
        BY <1>3, <2>1, Zenon
<1>6. AddressBase * q = q * AddressBase
    BY <1>1, <1>2, SMT
<1> QED
    BY <1>2, <1>4, <1>5, <1>6, Zenon

----------------------------------------------------------------------------
(* The adder.                                                                *)

(* The number a pair of halves stands for.                                    *)
Value(d) == d.upper * WordBase + d.lower

(* The two carries move value between the places and create none.            *)
LEMMA CarryArithmetic ==
    ASSUME NEW W \in Int, NEW u \in Int, NEW l \in Int, NEW v \in Int,
           NEW k \in Int, NEW c \in Int, NEW d \in Int
    PROVE  (((u + v + c) - d * W) * W + ((l + k) - c * W)) + d * (W * W)
              = (u * W + l) + (v * W + k)
    BY SMT

(* The sum of two halves and a carry holds the size of a half at most once.  *)
LEMMA CarryRange ==
    ASSUME NEW x \in 0 .. 2 * WordBase - 1
    PROVE  Carry(x) \in {0, 1} /\ x - Carry(x) * WordBase \in 0 .. WordBase - 1
<1>1. WordBase \in Nat \ {0}
    BY BaseFacts
<1> QED
    BY <1>1, SMT DEF Carry

(* Adding magnitudes loses nothing but the carry out of the upper half.       *)
LEMMA PlusMagnitudeSum ==
    ASSUME NEW a \in Double, NEW b \in Double
    PROVE  /\ PlusMagnitude(a, b).upper \in 0 .. WordBase - 1
           /\ PlusMagnitude(a, b).lower \in 0 .. WordBase - 1
           /\ PlusMagnitude(a, b).carry \in {0, 1}
           /\ Value(PlusMagnitude(a, b)) + PlusMagnitude(a, b).carry * (WordBase * WordBase)
                 = Value(a) + Value(b)
<1> DEFINE c == Carry(a.lower + b.lower)
           d == Carry(a.upper + b.upper + c)
           up == (a.upper + b.upper + c) - d * WordBase
           low == (a.lower + b.lower) - c * WordBase
<1>1. /\ a.upper \in 0 .. WordBase - 1 /\ a.lower \in 0 .. WordBase - 1
      /\ b.upper \in 0 .. WordBase - 1 /\ b.lower \in 0 .. WordBase - 1
      /\ WordBase \in Nat \ {0}
    BY BaseFacts DEF Double
<1>2. PlusMagnitude(a, b) = [upper |-> up, lower |-> low, carry |-> d]
    BY DEF PlusMagnitude
<1>3. c \in {0, 1} /\ low \in 0 .. WordBase - 1
    <2>1. a.lower + b.lower \in 0 .. 2 * WordBase - 1
        BY <1>1, SMT
    <2> QED
        BY <2>1, CarryRange, Zenon
<1>4. d \in {0, 1} /\ up \in 0 .. WordBase - 1
    <2>1. a.upper + b.upper + c \in 0 .. 2 * WordBase - 1
        <3> HIDE DEF c
        <3> QED
            BY <1>1, <1>3, SMT
    <2> QED
        BY <2>1, CarryRange, Zenon
<1>5. (up * WordBase + low) + d * (WordBase * WordBase)
         = (a.upper * WordBase + a.lower) + (b.upper * WordBase + b.lower)
    <2> HIDE DEF c, d
    <2>1. /\ WordBase \in Int /\ c \in Int /\ d \in Int
          /\ a.upper \in Int /\ a.lower \in Int
          /\ b.upper \in Int /\ b.lower \in Int
        BY <1>1, <1>3, <1>4, SMT
    <2> QED
        BY <2>1, CarryArithmetic
<1> HIDE DEF d, up, low
<1> QED
    BY <1>2, <1>3, <1>4, <1>5 DEF Value

(* Subtracting a magnitude from one that is not smaller is exact.             *)
LEMMA MinusMagnitudeSum ==
    ASSUME NEW a \in Double, NEW b \in Double, AtLeast(a, b)
    PROVE  /\ MinusMagnitude(a, b).upper \in 0 .. WordBase - 1
           /\ MinusMagnitude(a, b).lower \in 0 .. WordBase - 1
           /\ MinusMagnitude(a, b).carry = 0
           /\ Value(MinusMagnitude(a, b)) = Value(a) - Value(b)
<1> DEFINE c == Borrow(a.lower, b.lower)
           up == (a.upper - b.upper) - c
           low == (a.lower - b.lower) + c * WordBase
<1>1. /\ a.upper \in 0 .. WordBase - 1 /\ a.lower \in 0 .. WordBase - 1
      /\ b.upper \in 0 .. WordBase - 1 /\ b.lower \in 0 .. WordBase - 1
      /\ WordBase \in Nat \ {0}
    BY BaseFacts DEF Double
<1>2. MinusMagnitude(a, b) = [upper |-> up, lower |-> low, carry |-> 0]
    BY DEF MinusMagnitude
<1>3. c \in {0, 1} /\ up \in 0 .. WordBase - 1 /\ low \in 0 .. WordBase - 1
    BY <1>1, SMT DEF AtLeast, Borrow
<1>4. up * WordBase + low
         = (a.upper * WordBase + a.lower) - (b.upper * WordBase + b.lower)
    <2> HIDE DEF c
    <2>1. /\ WordBase \in Int /\ c \in Int
          /\ a.upper \in Int /\ a.lower \in Int
          /\ b.upper \in Int /\ b.lower \in Int
        BY <1>1, <1>3, SMT
    <2> QED
        BY <2>1, SMT
<1> HIDE DEF up, low
<1> QED
    BY <1>2, <1>3, <1>4 DEF Value

(* The number of a sign and a magnitude.                                      *)
SignedValue(s, n) == IF s = "-" THEN 0 - n ELSE n

(* A double-length magnitude stands for a natural number.                    *)
LEMMA ValueIsNat ==
    ASSUME NEW a \in Double
    PROVE  Value(a) \in Nat
<1>1. /\ a.upper \in Nat /\ a.lower \in Nat /\ WordBase \in Nat
    BY BaseFacts, SMT DEF Double
<1> QED
    BY <1>1, SMT DEF Value

(* add() of register.hpp is addition of signed numbers, but for the carry    *)
(* out of the highest digit.                                                 *)
LEMMA SignedSumExact ==
    ASSUME NEW a \in Double, NEW sa \in Signs, NEW b \in Double, NEW sb \in Signs
    PROVE  LET sum == SignedSum(a, sa, b, sb)
           IN  /\ sum.sign \in Signs
               /\ sum.mag.upper \in 0 .. WordBase - 1
               /\ sum.mag.lower \in 0 .. WordBase - 1
               /\ sum.mag.carry \in {0, 1}
               /\ SignedValue(sum.sign, Value(sum.mag)
                                + sum.mag.carry * (WordBase * WordBase))
                     = SignedValue(sa, Value(a)) + SignedValue(sb, Value(b))
<1>1. Value(a) \in Nat /\ Value(b) \in Nat
    BY ValueIsNat
<1>2. CASE sa = sb
    <2>1. SignedSum(a, sa, b, sb) = [mag |-> PlusMagnitude(a, b), sign |-> sa]
        BY <1>2 DEF SignedSum
    <2>2. SignedValue(sa, Value(a) + Value(b))
             = SignedValue(sa, Value(a)) + SignedValue(sb, Value(b))
        BY <1>1, <1>2, SMT DEF SignedValue
    <2> QED
        BY <2>1, <2>2, PlusMagnitudeSum
<1>3. CASE sa # sb
    <2> DEFINE pos == IF sb = "-" THEN a ELSE b
               neg == IF sb = "-" THEN b ELSE a
    <2>1. SignedValue(sa, Value(a)) + SignedValue(sb, Value(b))
             = Value(pos) - Value(neg)
        BY <1>1, <1>3, SMT DEF SignedValue, Signs
    <2>2. pos \in Double /\ neg \in Double
        OBVIOUS
    <2>3. CASE AtLeast(pos, neg)
        <3>1. SignedSum(a, sa, b, sb)
                 = [mag |-> MinusMagnitude(pos, neg), sign |-> "+"]
            BY <1>3, <2>3 DEF SignedSum
        <3> HIDE DEF pos, neg
        <3>2. Value(MinusMagnitude(pos, neg)) + 0 * (WordBase * WordBase)
                 = Value(pos) - Value(neg)
            BY <2>2, <2>3, MinusMagnitudeSum, ValueIsNat, BaseFacts, SMT
        <3>3. SignedValue("+", Value(pos) - Value(neg)) = Value(pos) - Value(neg)
            BY DEF SignedValue
        <3> QED
            BY <2>1, <2>2, <2>3, <3>1, <3>2, <3>3, MinusMagnitudeSum DEF Signs
    <2>4. CASE ~AtLeast(pos, neg)
        <3>1. SignedSum(a, sa, b, sb)
                 = [mag |-> MinusMagnitude(neg, pos), sign |-> "-"]
            BY <1>3, <2>4 DEF SignedSum
        <3>2. AtLeast(neg, pos)
            BY <2>2, <2>4, BaseFacts, SMT DEF AtLeast, Double
        <3> HIDE DEF pos, neg
        <3>3. Value(MinusMagnitude(neg, pos)) + 0 * (WordBase * WordBase)
                 = Value(neg) - Value(pos)
            BY <2>2, <3>2, MinusMagnitudeSum, ValueIsNat, BaseFacts, SMT
        <3>4. SignedValue("-", Value(neg) - Value(pos)) = Value(pos) - Value(neg)
            BY <2>2, ValueIsNat, SMT DEF SignedValue
        <3> QED
            BY <2>1, <2>2, <3>1, <3>2, <3>3, <3>4, MinusMagnitudeSum DEF Signs
    <2> QED
        BY <2>3, <2>4
<1> QED
    BY <1>2, <1>3

----------------------------------------------------------------------------
(* The accumulator.                                                          *)

(* The digit groups of a word are what they are declared to be.              *)
LEMMA WordFields ==
    ASSUME NEW w \in Word
    PROVE  /\ w.op \in OpCodes /\ w.da \in Addresses /\ w.ia \in Addresses
           /\ w.sign \in Signs
           /\ Mag(w) \in 0 .. WordBase - 1
           /\ Unsigned(w) \in UWord
           /\ Abs(w) \in Word /\ ChangeSign(w) \in Word
<1>1. /\ w.op \in OpCodes /\ w.da \in Addresses /\ w.ia \in Addresses
      /\ w.sign \in Signs
    BY DEF Word
<1>2. Mag(w) \in 0 .. WordBase - 1
    BY <1>1, MagRange
<1>3. Abs(w) \in Word /\ ChangeSign(w) \in Word
    BY DEF Word, Abs, ChangeSign, Signs
<1> QED
    BY <1>1, <1>2, <1>3 DEF Unsigned, UWord

(* The accumulator is a pair of magnitudes.                                  *)
LEMMA HalvesType ==
    ASSUME NEW u \in Word, NEW l \in Word
    PROVE  Halves(u, l) \in Double
BY WordFields, Zenon DEF Halves, Double

(* What an addition means: the signed number in the accumulator, and the     *)
(* signed number added to its upper or to its lower half.                    *)
AccumulatorValue(u, l) == SignedValue(l.sign, Value(Halves(u, l)))
OperandValue(w, to_upper) ==
    SignedValue(w.sign, IF to_upper THEN Mag(w) * WordBase ELSE Mag(w))

(* add_to_accumulator, for words of any size: the new accumulator, with the  *)
(* carry as its highest digit, is the sum of the old one and the operand.    *)
(* The signs of the two, which are compared and changed one half at a time,  *)
(* and the borrow of a subtraction, leave no trace in it.  The upper half     *)
(* keeps the sign it has.                                                    *)
THEOREM AdditionExact ==
    ASSUME NEW u \in Word, NEW l \in Word, NEW w \in Word, NEW to_upper \in BOOLEAN
    PROVE  LET r == add_to_accumulator(u, l, w, to_upper)
           IN  /\ r.upper \in Word
               /\ r.lower \in Word
               /\ r.carry \in {0, 1}
               /\ r.upper.sign = u.sign
               /\ SignedValue(r.lower.sign, Value(Halves(r.upper, r.lower))
                                 + r.carry * (WordBase * WordBase))
                     = AccumulatorValue(u, l) + OperandValue(w, to_upper)
<1> DEFINE r == add_to_accumulator(u, l, w, to_upper)
           rhs == [upper |-> IF to_upper THEN Mag(w) ELSE 0,
                   lower |-> IF to_upper THEN 0 ELSE Mag(w)]
           sum == SignedSum(Halves(u, l), l.sign, rhs, w.sign)
<1>1. /\ u.sign \in Signs /\ l.sign \in Signs /\ w.sign \in Signs
      /\ Mag(w) \in 0 .. WordBase - 1
      /\ Halves(u, l) \in Double
    BY WordFields, HalvesType, Zenon
<1>2. WordBase \in Nat \ {0} /\ 0 \in 0 .. WordBase - 1
    BY BaseFacts, SMT
<1>3. rhs \in Double
    BY <1>1, <1>2, Zenon DEF Double
<1>4. /\ sum.sign \in Signs
      /\ sum.mag.upper \in 0 .. WordBase - 1
      /\ sum.mag.lower \in 0 .. WordBase - 1
      /\ sum.mag.carry \in {0, 1}
      /\ SignedValue(sum.sign, Value(sum.mag) + sum.mag.carry * (WordBase * WordBase))
            = SignedValue(l.sign, Value(Halves(u, l))) + SignedValue(w.sign, Value(rhs))
    BY <1>1, <1>3, SignedSumExact, Zenon
<1>5. r = [upper |-> WordOf(sum.mag.upper, u.sign),
           lower |-> WordOf(sum.mag.lower, sum.sign),
           carry |-> sum.mag.carry]
    BY Zenon DEF add_to_accumulator
<1>6. r.upper \in Word /\ r.lower \in Word /\ r.carry \in {0, 1}
    <2> HIDE DEF r, sum
    <2> QED
        BY <1>1, <1>4, <1>5, WordOfType
<1>7. Value(Halves(r.upper, r.lower)) = Value(sum.mag) /\ r.lower.sign = sum.sign
    <2> HIDE DEF r, sum
    <2>1. Mag(r.upper) = sum.mag.upper /\ Mag(r.lower) = sum.mag.lower
        BY <1>1, <1>4, <1>5, MagOfWordOf
    <2>2. r.lower.sign = sum.sign
        BY <1>5 DEF WordOf
    <2> QED
        BY <2>1, <2>2 DEF Value, Halves
<1>8. Value(rhs) = IF to_upper THEN Mag(w) * WordBase ELSE Mag(w)
    BY <1>1, <1>2, SMT DEF Value
<1> HIDE DEF r, sum, rhs
<1>9. SignedValue(r.lower.sign, Value(Halves(r.upper, r.lower))
                     + r.carry * (WordBase * WordBase))
         = AccumulatorValue(u, l) + OperandValue(w, to_upper)
    <2>1. r.carry = sum.mag.carry
        BY <1>5
    <2>2. SignedValue(w.sign, Value(rhs)) = OperandValue(w, to_upper)
        BY <1>8, Zenon DEF OperandValue
    <2> QED
        BY <1>4, <1>7, <2>1, <2>2, Zenon DEF AccumulatorValue
<1>10. r.upper.sign = u.sign
    BY <1>5 DEF WordOf
<1> QED
    BY <1>6, <1>9, <1>10, Zenon DEF r

(* Shifting by one place leaves words.                                        *)
LEMMA ShiftType ==
    ASSUME NEW u \in Word, NEW l \in Word
    PROVE  /\ ShiftLeft(u, l).upper \in Word /\ ShiftLeft(u, l).lower \in Word
           /\ ShiftRight(u, l).upper \in Word /\ ShiftRight(u, l).lower \in Word
<1>1. /\ u.sign \in Signs /\ l.sign \in Signs
      /\ Mag(u) \in 0 .. WordBase - 1
      /\ Mag(l) \in 0 .. WordBase - 1
    BY WordFields
<1>2. /\ WordBase \in Nat \ {0} /\ HighBase \in Nat \ {0}
      /\ WordBase = 10 * HighBase
    BY BaseFacts DEF Base
<1>3. \A x \in Nat : x % WordBase \in 0 .. WordBase - 1
    BY <1>2, DivMod, Zenon
<1>4. HighDigit(Mag(l)) \in Nat
    <2>1. Mag(l) \in Nat
        BY <1>1, <1>2, SMT
    <2> QED
        BY <1>2, <2>1, DivMod, Zenon DEF HighDigit
<1>5. /\ (Mag(u) * Base + HighDigit(Mag(l))) % WordBase \in 0 .. WordBase - 1
      /\ (Mag(l) * Base) % WordBase \in 0 .. WordBase - 1
    <2>1. Mag(u) * Base + HighDigit(Mag(l)) \in Nat /\ Mag(l) * Base \in Nat
        BY <1>1, <1>2, <1>4, SMT DEF Base
    <2> QED
        BY <1>3, <2>1, Zenon
<1>6. Mag(u) \div Base \in 0 .. WordBase - 1
    BY <1>1, <1>2, SMT DEF Base
<1>7. (Mag(u) % Base) * HighBase + Mag(l) \div Base \in 0 .. WordBase - 1
    <2> DEFINE d == Mag(u) % Base
               q == Mag(l) \div Base
    <2>1. d \in Nat /\ d <= 9
        BY <1>1, <1>2, SMT DEF Base
    <2>2. q \in Nat /\ q < HighBase
        BY <1>1, <1>2, SMT DEF Base
    <2> HIDE DEF d, q
    <2>3. d * HighBase <= 9 * HighBase /\ d * HighBase \in Nat
        BY <1>2, <2>1, SMT
    <2>4. d * HighBase + q \in 0 .. WordBase - 1
        BY <1>2, <2>2, <2>3, SMT
    <2> QED
        BY <2>4 DEF d, q
<1> QED
    BY <1>1, <1>5, <1>6, <1>7, WordOfType, Zenon DEF ShiftLeft, ShiftRight

----------------------------------------------------------------------------
(* Division, for divisors that are products.                                  *)
LEMMA DivisionUnique ==
    ASSUME NEW n \in Nat \ {0}, NEW q \in Int, NEW r \in 0 .. n - 1, NEW m \in Nat,
           m = q * n + r
    PROVE  m \div n = q /\ m % n = r
  <1> DEFINE s == m \div n
             t == m % n
  <1>1. s \in Nat /\ t \in 0 .. n - 1 /\ m = n * s + t
    BY DivMod
  <1> HIDE DEF s, t
  <1>2. s = q
    <2>1. CASE s >= q + 1
      <3>1. n * s >= n * (q + 1)
        BY <1>1, <2>1
      <3> QED  BY <1>1, <3>1
    <2>2. CASE s <= q - 1
      <3>1. n * s <= n * (q - 1)
        BY <1>1, <2>2
      <3> QED  BY <1>1, <3>1
    <2> QED  BY <1>1, <2>1, <2>2
  <1>3. t = r
    BY <1>1, <1>2
  <1> QED  BY <1>2, <1>3 DEF s, t

LEMMA DivisionScaled ==
    ASSUME NEW a \in Nat, NEW n \in Nat \ {0}, NEW k \in Nat \ {0}, NEW z \in 0 .. k - 1
    PROVE  /\ (a * k + z) \div (n * k) = a \div n
           /\ (a * k + z) % (n * k) = (a % n) * k + z
  <1> DEFINE q == a \div n
             r == a % n
  <1>1. q \in Nat /\ r \in 0 .. n - 1 /\ a = n * q + r
    BY DivMod
  <1> HIDE DEF q, r
  <1>2. a * k + z = q * (n * k) + (r * k + z)
    BY <1>1
  <1>3. r * k <= (n - 1) * k /\ r * k \in Nat
    BY <1>1
  <1>4. n * k \in Nat \ {0} /\ (n - 1) * k = n * k - k
    OBVIOUS
  <1>5. r * k + z \in 0 .. n * k - 1
    BY <1>3, <1>4
  <1>6. a * k + z \in Nat
    OBVIOUS
  <1>7. (a * k + z) \div (n * k) = q /\ (a * k + z) % (n * k) = r * k + z
    <2> DEFINE N == n * k
               M == a * k + z
               R == r * k + z
    <2>1. N \in Nat \ {0} /\ R \in 0 .. N - 1 /\ M \in Nat /\ M = q * N + R
      BY <1>2, <1>4, <1>5, <1>6
    <2> HIDE DEF N, M, R
    <2>2. M \div N = q /\ M % N = R
      BY <1>1, <2>1, DivisionUnique
    <2> QED  BY <2>2 DEF N, M, R
  <1> QED  BY <1>7 DEF q, r

(* Dividing by one factor after the other.                                    *)
LEMMA DivisionNested ==
    ASSUME NEW a \in Nat, NEW n \in Nat \ {0}, NEW b \in Nat \ {0}
    PROVE  /\ a \div (n * b) = (a \div n) \div b
           /\ (a % (n * b)) % n = a % n
           /\ (a % (n * b)) \div n = (a \div n) % b
           /\ a % (n * b) = ((a \div n) % b) * n + (a % n)
  <1> DEFINE q == a \div n
             r == a % n
             s == q \div b
             t == q % b
  <1>1. q \in Nat /\ r \in 0 .. n - 1 /\ a = n * q + r
    BY DivMod
  <1>2. s \in Nat /\ t \in 0 .. b - 1 /\ q = b * s + t
    BY <1>1, DivMod
  <1> HIDE DEF q, r, s, t
  <1>3. a = s * (n * b) + (t * n + r)
    BY <1>1, <1>2
  <1>4. t * n <= (b - 1) * n /\ t * n \in Nat
    BY <1>2
  <1>5. n * b \in Nat \ {0} /\ (b - 1) * n = n * b - n
    OBVIOUS
  <1>6. t * n + r \in 0 .. n * b - 1
    BY <1>1, <1>4, <1>5
  <1>7. a \div (n * b) = s /\ a % (n * b) = t * n + r
    BY <1>2, <1>3, <1>5, <1>6, DivisionUnique
  <1>8. (t * n + r) \div n = t /\ (t * n + r) % n = r
    BY <1>1, <1>2, <1>4, DivisionUnique
  <1> QED  BY <1>7, <1>8 DEF q, r, s, t

(* One more place to the left, when p is what the places shifted so far are   *)
(* worth, and b * r what the places left in a half are worth.                 *)
LeftRule(u, l, b, p, r) ==
    LET du == (u % (r * b)) * p + l \div (r * b)
        dl == (l % (r * b)) * p
    IN  /\ (du * b + dl \div (r * p)) % (r * (b * p)) = (u % r) * (b * p) + l \div r
        /\ (dl * b) % (r * (b * p)) = (l % r) * (b * p)

LEMMA LeftPlace ==
    ASSUME NEW u \in Nat, NEW l \in Nat, NEW b \in Nat \ {0}, NEW p \in Nat \ {0},
           NEW r \in Nat \ {0}, l < (r * b) * p
    PROVE  LeftRule(u, l, b, p, r)
  <1> DEFINE x == u % (r * b)
             y == l % (r * b)
             z == l \div (r * b)
             q == b * p
  <1>1. r * b \in Nat \ {0} /\ q \in Nat \ {0}
    OBVIOUS
  <1>2. x \in Nat /\ y \in Nat /\ z \in Nat /\ l \div r \in Nat
    BY <1>1, DivMod
  <1>3. x % r = u % r /\ y % r = l % r
    BY DivisionNested
  <1>4. y \div r = (l \div r) % b /\ z = (l \div r) \div b
    BY DivisionNested
  <1>5. l \div r < q
    <2>1. (r * b) * p = q * r
      OBVIOUS
    <2> HIDE DEF q
    <2> QED  BY <1>1, <2>1, QuotientBound
  <1>6. l \div r = b * z + (y \div r)
    BY <1>2, <1>4, DivMod
  <1> HIDE DEF x, y, z
  <1>7. (y * p) \div (r * p) = y \div r
    <2>1. 0 \in 0 .. p - 1 /\ y * p + 0 = y * p
      BY <1>2
    <2> QED  BY <1>2, <2>1, DivisionScaled
  <1>8. (x * p + z) * b + y \div r = x * q + l \div r
    <2> DEFINE e == y \div r
    <2>1. e \in Nat
      BY <1>2, DivMod
    <2> HIDE DEF e
    <2>2. (x * p + z) * b = x * q + b * z
      BY <1>2
    <2>3. l \div r = b * z + e
      BY <1>6 DEF e
    <2>4. (x * p + z) * b + e = x * q + l \div r
      <3> DEFINE A == (x * p + z) * b
                 B == x * q
                 C == b * z
      <3>1. A = B + C /\ B \in Nat /\ C \in Nat
        BY <1>1, <1>2, <2>2
      <3> HIDE DEF A, B, C
      <3>2. A + e = B + (C + e)
        BY <2>1, <3>1
      <3> QED  BY <2>3, <3>2 DEF A, B, C
    <2> QED  BY <2>4 DEF e
  <1>9. (x * q + l \div r) % (r * q) = (x % r) * q + l \div r
    <2> DEFINE v == l \div r
    <2>1. v \in 0 .. q - 1
      BY <1>1, <1>2, <1>5
    <2> HIDE DEF q, v
    <2>2. (x * q + v) % (r * q) = (x % r) * q + v
      BY <1>1, <1>2, <2>1, DivisionScaled
    <2> QED  BY <2>2 DEF v
  <1>10. (y * q) % (r * q) = (y % r) * q
    <2>1. 0 \in 0 .. q - 1 /\ y * q + 0 = y * q
      BY <1>1, <1>2
    <2> HIDE DEF q
    <2>2. (y * q + 0) % (r * q) = (y % r) * q + 0
      BY <1>1, <1>2, <2>1, DivisionScaled
    <2>3. (y % r) * q \in Nat
      BY <1>1, <1>2, DivMod
    <2> QED  BY <2>1, <2>2, <2>3
  <1>11. (y * p) * b = y * q
    BY <1>2
  <1> QED  BY <1>3, <1>7, <1>8, <1>9, <1>10, <1>11, Zenon DEF x, y, z, q, LeftRule

(* The same with names for the products.                                      *)
LeftNamed(u, l, b, p, r, m, h, q, N) ==
    LET du == (u % m) * p + l \div m
        dl == (l % m) * p
    IN  /\ du \in Nat /\ dl \in Nat
        /\ (du * b + dl \div h) % N = (u % r) * q + l \div r
        /\ (dl * b) % N = (l % r) * q

LEMMA LeftProducts ==
    ASSUME NEW u \in Nat, NEW l \in Nat, NEW b \in Nat \ {0}, NEW p \in Nat \ {0},
           NEW r \in Nat \ {0}, NEW m, NEW h, NEW q, NEW N,
           m = r * b, h = r * p, q = b * p, N = r * q, l < m * p
    PROVE  LeftNamed(u, l, b, p, r, m, h, q, N)
  <1>1. LeftRule(u, l, b, p, r)
    BY LeftPlace
  <1>2. m \in Nat \ {0}
    OBVIOUS
  <1>3. u % m \in Nat /\ l % m \in Nat /\ l \div m \in Nat
    BY <1>2, DivMod
  <1>4. (u % m) * p + l \div m \in Nat /\ (l % m) * p \in Nat
    <2> DEFINE x == u % m
               y == l % m
               z == l \div m
    <2> HIDE DEF x, y, z
    <2>1. x \in Nat /\ y \in Nat /\ z \in Nat => x * p + z \in Nat /\ y * p \in Nat
      OBVIOUS
    <2> QED  BY <1>3, <2>1 DEF x, y, z
  <1> QED  BY <1>1, <1>4 DEF LeftRule, LeftNamed

(* One more place to the right.                                               *)
RightRule(u, l, b, p, r) ==
    LET du == u \div p
        dl == (u % p) * (b * r) + l \div p
    IN  /\ du \div b = u \div (p * b)
        /\ (du % b) * (p * r) + dl \div b = (u % (p * b)) * r + l \div (p * b)

LEMMA RightPlace ==
    ASSUME NEW u \in Nat, NEW l \in Nat, NEW b \in Nat \ {0}, NEW p \in Nat \ {0},
           NEW r \in Nat \ {0}
    PROVE  RightRule(u, l, b, p, r)
  <1> DEFINE x == u % p
             t == (u \div p) % b
             z == l \div p
  <1>1. x \in Nat /\ u \div p \in Nat /\ z \in Nat
    BY DivMod
  <1>2. t \in Nat
    BY <1>1, DivMod
  <1>3. u \div (p * b) = (u \div p) \div b /\ l \div (p * b) = z \div b
    BY DivisionNested
  <1>4. u % (p * b) = t * p + x
    BY DivisionNested
  <1> HIDE DEF x, t, z
  <1>5. (x * (b * r) + z) \div b = x * r + z \div b
    <2> DEFINE f == z \div b
               g == z % b
    <2>1. f \in Nat /\ g \in 0 .. b - 1 /\ z = b * f + g
      BY <1>1, DivMod
    <2> HIDE DEF f, g
    <2>2. x * (b * r) + z = (x * r + f) * b + g
      BY <1>1, <2>1
    <2>3. x * r + f \in Nat /\ x * (b * r) + z \in Nat
      BY <1>1, <2>1
    <2> DEFINE M == x * (b * r) + z
               Q == x * r + f
    <2>4. M \in Nat /\ Q \in Int /\ M = Q * b + g
      BY <2>2, <2>3
    <2> HIDE DEF M, Q
    <2>5. M \div b = Q
      BY <2>1, <2>4, DivisionUnique
    <2> QED  BY <2>5 DEF M, Q, f
  <1>6. t * (p * r) + (x * r + z \div b) = (t * p + x) * r + z \div b
    <2> DEFINE e == z \div b
    <2>1. e \in Nat
      BY <1>1, DivMod
    <2> HIDE DEF e
    <2>2. t * (p * r) + (x * r + e) = (t * p + x) * r + e
      BY <1>1, <1>2, <2>1
    <2> QED  BY <2>2 DEF e
  <1> QED  BY <1>3, <1>4, <1>5, <1>6, Zenon DEF x, t, z, RightRule
=============================================================================
