--------------------------- MODULE RegisterProofs ---------------------------
(***************************************************************************)
(* The digit loops of register.hpp compute numbers, for words and address   *)
(* registers of every length.  A loop over digits is a recursive function of *)
(* the position; what it makes is found by induction on the position        *)
(* (AccumulatorProofs), first for digits as numbers, then for the codes.     *)
(***************************************************************************)
EXTENDS DigitAccumulator, SequenceTheorems, AccumulatorProofs

USE DEF base, Base

----------------------------------------------------------------------------
(* Loops: functions on 0 .. n whose values follow from the one before, in a   *)
(* way that may depend on the position.                                      *)
Loops(f, V, v0, n, s) ==
    /\ f \in [0 .. n -> V]
    /\ f[0] = v0
    /\ \A i \in 1 .. n : f[i] = s[<<i, f[i - 1]>>]

LEMMA LoopExists ==
    ASSUME NEW V, NEW v0 \in V, NEW n \in Nat, NEW s \in [Nat \X V -> V]
    PROVE  \E f : Loops(f, V, v0, n, s)
  <1> DEFINE P == Nat \X V
             t == [p \in P |-> <<p[1] + 1, s[<<p[1] + 1, p[2]>>]>>]
  <1>1. /\ <<0, v0>> \in P /\ t \in [P -> P]
        /\ \A i \in Nat, v \in V : t[<<i, v>>] = <<i + 1, s[<<i + 1, v>>]>>
    OBVIOUS
  <1> HIDE DEF t
  <1>2. PICK F : Iterates(F, P, <<0, v0>>, t)
    BY <1>1, Recursion
  <1>3. F \in [Nat -> P] /\ F[0] = <<0, v0>> /\ \A i \in Nat : F[i + 1] = t[F[i]]
    BY <1>2 DEF Iterates
  <1> DEFINE S == {i \in Nat : F[i][1] = i}
  <1>4. 0 \in S
    BY <1>3
  <1>5. ASSUME NEW i \in Nat, i \in S PROVE i + 1 \in S
    <2>1. PICK v \in V : F[i] = <<i, v>>
      <3>1. F[i] \in P /\ F[i][1] = i
        BY <1>3, <1>5
      <3> QED  BY <3>1
    <2>2. F[i + 1] = <<i + 1, s[<<i + 1, v>>]>>
      BY <1>1, <1>3, <2>1
    <2> QED  BY <2>2
  <1> HIDE DEF S
  <1>6. Nat \subseteq S
    BY <1>4, <1>5, Induction
  <1>7. ASSUME NEW i \in Nat
        PROVE  F[i][1] = i /\ F[i][2] \in V /\ F[i] = <<i, F[i][2]>>
    <2>1. F[i] \in P /\ F[i][1] = i
      BY <1>3, <1>6 DEF S
    <2> QED  BY <2>1
  <1> DEFINE f == [i \in 0 .. n |-> F[i][2]]
  <1>8. f \in [0 .. n -> V] /\ f[0] = v0
    BY <1>3, <1>7
  <1>9. ASSUME NEW i \in 1 .. n PROVE f[i] = s[<<i, f[i - 1]>>]
    <2>1. i - 1 \in Nat /\ (i - 1) + 1 = i /\ i \in 0 .. n /\ i - 1 \in 0 .. n
      OBVIOUS
    <2>2. F[i] = <<i, s[<<i, F[i - 1][2]>>]>>
      <3> DEFINE j == i - 1
      <3>1. j \in Nat /\ j + 1 = i
        BY <2>1
      <3> HIDE DEF j
      <3>2. F[j + 1] = t[F[j]] /\ F[j] = <<j, F[j][2]>> /\ F[j][2] \in V
        BY <1>3, <1>7, <3>1
      <3>3. F[j + 1] = <<j + 1, s[<<j + 1, F[j][2]>>]>>
        BY <1>1, <3>1, <3>2
      <3> QED  BY <3>1, <3>3 DEF j
    <2> QED  BY <2>1, <2>2
  <1> QED  BY <1>8, <1>9 DEF Loops

----------------------------------------------------------------------------
(* The number that n digits spell, and the numbers their beginnings spell.    *)
LEMMA WeightAt ==
    ASSUME NEW i \in Nat
    PROVE  /\ Weight[i] \in Nat /\ Weight[i] > 0
           /\ Weight[i + 1] = base * Weight[i]
  BY WeightRule

LEMMA FirstWeights == Weight[0] = 1 /\ Weight[1] = base
  <1>1. Weight[0 + 1] = base * Weight[0] /\ Weight[0] = 1
    BY WeightRule
  <1> QED  BY <1>1

Decimals(n) == [1 .. n -> 0 .. base - 1]

Prefixes(T, d, n) ==
    /\ T \in [0 .. n -> Nat]
    /\ T[0] = 0
    /\ \A i \in 1 .. n : T[i] = base * T[i - 1] + d[i]

LEMMA DecimalAt ==
    ASSUME NEW n, NEW d \in Decimals(n), NEW i \in 1 .. n
    PROVE  d[i] \in Nat /\ d[i] <= 9
  <1>1. d[i] \in 0 .. 9
    BY DEF Decimals
  <1> QED  BY <1>1

Spelt(d, n) == (CHOOSE T : Prefixes(T, d, n))[n]

LEMMA PrefixesExist ==
    ASSUME NEW n \in Nat, NEW d \in Decimals(n)
    PROVE  \E T : Prefixes(T, d, n)
  <1> DEFINE digit(i) == IF i \in 1 .. n THEN d[i] ELSE 0
             s == [p \in Nat \X Nat |-> base * p[2] + digit(p[1])]
  <1>1. \A i \in Nat : digit(i) \in Nat
    BY DEF Decimals
  <1>2. \A i \in 1 .. n : digit(i) = d[i]
    OBVIOUS
  <1> HIDE DEF digit
  <1>3. /\ s \in [Nat \X Nat -> Nat]
        /\ \A i \in Nat, v \in Nat : s[<<i, v>>] = base * v + digit(i)
    <2>1. ASSUME NEW p \in Nat \X Nat PROVE base * p[2] + digit(p[1]) \in Nat
      <3>1. p[1] \in Nat /\ p[2] \in Nat
        OBVIOUS
      <3>2. digit(p[1]) \in Nat
        BY <1>1, <3>1
      <3> QED  BY <3>1, <3>2
    <2>2. \A i \in Nat, v \in Nat : <<i, v>> \in Nat \X Nat
      OBVIOUS
    <2> QED  BY <2>1, <2>2
  <1> HIDE DEF s
  <1>4. PICK f : Loops(f, Nat, 0, n, s)
    BY <1>3, LoopExists
  <1>5. ASSUME NEW i \in 1 .. n PROVE f[i] = base * f[i - 1] + d[i]
    <2>1. i \in Nat /\ f[i - 1] \in Nat
      BY <1>4 DEF Loops
    <2> QED  BY <1>2, <1>3, <1>4, <2>1 DEF Loops
  <1> QED  BY <1>4, <1>5 DEF Prefixes, Loops

(* The beginnings of digits that agree up to some place.                      *)
Agree(d, e, m) == \A i \in 1 .. m : d[i] = e[i]

LEMMA PrefixesAgree ==
    ASSUME NEW n \in Nat, NEW k \in Nat, NEW m \in Nat, m <= n, m <= k,
           NEW d, NEW e, Agree(d, e, m),
           NEW T, Prefixes(T, d, n), NEW U, Prefixes(U, e, k)
    PROVE  T[m] = U[m]
  <1> DEFINE S == {i \in Nat : i <= m => T[i] = U[i]}
  <1>1. 0 \in S
    BY DEF Prefixes
  <1>2. ASSUME NEW i \in Nat, i \in S PROVE i + 1 \in S
    <2>1. CASE i + 1 <= m
      <3>1. i + 1 \in 1 .. n /\ i + 1 \in 1 .. k /\ i + 1 \in 1 .. m /\ (i + 1) - 1 = i
        BY <2>1
      <3>2. T[i + 1] = base * T[i] + d[i + 1] /\ U[i + 1] = base * U[i] + e[i + 1]
        BY <3>1 DEF Prefixes
      <3>3. d[i + 1] = e[i + 1] /\ T[i] = U[i]
        BY <1>2, <2>1, <3>1 DEF Agree
      <3> QED  BY <3>2, <3>3
    <2> QED  BY <2>1
  <1> HIDE DEF S
  <1>3. Nat \subseteq S
    BY <1>1, <1>2, Induction
  <1> QED  BY <1>3 DEF S

LEMMA SpeltIs ==
    ASSUME NEW n \in Nat, NEW d, NEW T, Prefixes(T, d, n)
    PROVE  Spelt(d, n) = T[n]
  <1> DEFINE U == CHOOSE U : Prefixes(U, d, n)
  <1>1. Prefixes(U, d, n)
    OBVIOUS
  <1> HIDE DEF U
  <1>2. U[n] = T[n]
    <2>1. n <= n /\ Agree(d, d, n)
      BY DEF Agree
    <2> QED  BY <1>1, <2>1, PrefixesAgree
  <1> QED  BY <1>2 DEF Spelt, U

LEMMA SpeltRange ==
    ASSUME NEW n \in Nat, NEW d \in Decimals(n)
    PROVE  Spelt(d, n) \in 0 .. Weight[n] - 1
  <1>1. PICK T : Prefixes(T, d, n)
    BY PrefixesExist
  <1> DEFINE S == {i \in Nat : i <= n => T[i] < Weight[i]}
  <1>2. 0 \in S
    BY <1>1, WeightRule DEF Prefixes
  <1>3. ASSUME NEW i \in Nat, i \in S PROVE i + 1 \in S
    <2>1. CASE i + 1 <= n
      <3>1. i + 1 \in 1 .. n /\ i \in 0 .. n /\ (i + 1) - 1 = i
        BY <2>1
      <3>2. T[i + 1] = base * T[i] + d[i + 1] /\ T[i] \in Nat /\ d[i + 1] \in 0 .. 9
        BY <1>1, <3>1 DEF Prefixes, Decimals
      <3>3. Weight[i + 1] = Base * Weight[i] /\ Weight[i] \in Nat /\ T[i] < Weight[i]
        BY <1>3, <2>1, WeightRule
      <3> QED  BY <3>2, <3>3
    <2> QED  BY <2>1
  <1> HIDE DEF S
  <1>4. Nat \subseteq S
    BY <1>2, <1>3, Induction
  <1>5. T[n] < Weight[n] /\ T[n] \in Nat /\ Weight[n] \in Nat
    BY <1>1, <1>4, WeightRule DEF S, Prefixes
  <1>6. Spelt(d, n) = T[n]
    BY <1>1, SpeltIs
  <1> QED  BY <1>5, <1>6

(* A loop that passes a carry from the right to the left adds: b and the      *)
(* first carry to a, or, read backwards, it subtracts them.                  *)
Carrying(r, a, b, c, n) ==
    \A i \in 1 .. n : r[i] + base * c[(n - i) + 1] = a[i] + b[i] + c[n - i]

SumOf(R, x, A, B, c) == R + x = A + B + c
DigitOf(r, c, a, b, d) == r + base * c = a + b + d

LEMMA CarryStep ==
    ASSUME NEW R \in Nat, NEW A \in Nat, NEW B \in Nat, NEW x \in Nat,
           NEW r \in Nat, NEW a \in Nat, NEW b \in Nat, NEW c \in Nat, NEW d \in Nat,
           SumOf(R, x, A, B, c), DigitOf(r, c, a, b, d)
    PROVE  SumOf(base * R + r, base * x, base * A + a, base * B + b, d)
  BY DEF SumOf, DigitOf

LEMMA CarryingAdds ==
    ASSUME NEW n \in Nat, NEW r \in Decimals(n), NEW a \in Decimals(n),
           NEW b \in Decimals(n), NEW c \in [0 .. n -> 0 .. 1], Carrying(r, a, b, c, n)
    PROVE  Spelt(r, n) + c[n] * Weight[n] = Spelt(a, n) + Spelt(b, n) + c[0]
  <1>1. PICK R : Prefixes(R, r, n)
    BY PrefixesExist
  <1>2. PICK A : Prefixes(A, a, n)
    BY PrefixesExist
  <1>3. PICK B : Prefixes(B, b, n)
    BY PrefixesExist
  <1>a. /\ R \in [0 .. n -> Nat] /\ A \in [0 .. n -> Nat] /\ B \in [0 .. n -> Nat]
        /\ R[0] = 0 /\ A[0] = 0 /\ B[0] = 0
        /\ r \in [1 .. n -> 0 .. 9] /\ a \in [1 .. n -> 0 .. 9] /\ b \in [1 .. n -> 0 .. 9]
    BY <1>1, <1>2, <1>3 DEF Prefixes, Decimals
  <1>b. c[n] \in 0 .. 1 /\ c[n] \in Nat
    OBVIOUS
  <1> DEFINE S == {i \in Nat : i <= n => R[i] + c[n] * Weight[i] = A[i] + B[i] + c[n - i]}
  <1>4. 0 \in S
    <2>1. n - 0 = n /\ c[n] * Weight[0] = c[n]
      BY <1>b, FirstWeights
    <2>2. R[0] + c[n] * Weight[0] = A[0] + B[0] + c[n - 0]
      BY <1>a, <1>b, <2>1
    <2> QED  BY <2>2
  <1>5. ASSUME NEW i \in Nat, i \in S PROVE i + 1 \in S
    <2>1. CASE i + 1 <= n
      <3> DEFINE j == i + 1
                 x == c[n] * Weight[i]
                 y == c[n] * Weight[j]
      <3>1. /\ j \in 1 .. n /\ j - 1 = i /\ i \in 0 .. n
            /\ n - j \in 0 .. n /\ (n - j) + 1 = n - i /\ n - i \in 0 .. n
        BY <2>1
      <3>2. R[i] + x = A[i] + B[i] + c[n - i]
        BY <1>5, <2>1
      <3>3. y = base * x /\ x \in Nat
        <4>1. Weight[j] = base * Weight[i] /\ Weight[i] \in Nat
          BY WeightAt
        <4> HIDE DEF j
        <4> QED  BY <1>b, <4>1
      <3> HIDE DEF j, x, y
      <3>4. /\ R[j] = base * R[i] + r[j] /\ A[j] = base * A[i] + a[j]
            /\ B[j] = base * B[i] + b[j]
        BY <1>1, <1>2, <1>3, <3>1 DEF Prefixes
      <3>5. r[j] + base * c[n - i] = a[j] + b[j] + c[n - j]
        BY <3>1 DEF Carrying
      <3>6. R[i] \in Nat /\ A[i] \in Nat /\ B[i] \in Nat
        BY <1>a, <3>1
      <3>7. r[j] \in Nat /\ a[j] \in Nat /\ b[j] \in Nat
        BY <3>1, DecimalAt
      <3>8. c[n - i] \in Nat /\ c[n - j] \in Nat
        BY <3>1
      <3>9. R[j] + y = A[j] + B[j] + c[n - j]
        <4>1. /\ SumOf(R[i], x, A[i], B[i], c[n - i])
              /\ DigitOf(r[j], c[n - i], a[j], b[j], c[n - j])
          BY <3>2, <3>5 DEF SumOf, DigitOf
        <4>2. SumOf(base * R[i] + r[j], base * x, base * A[i] + a[j],
                    base * B[i] + b[j], c[n - j])
          BY <3>3, <3>6, <3>7, <3>8, <4>1, CarryStep
        <4>3. SumOf(R[j], y, A[j], B[j], c[n - j])
          BY <3>3, <3>4, <4>2, Zenon
        <4> QED  BY <4>3 DEF SumOf
      <3> QED  BY <3>9 DEF y, j
    <2> QED  BY <2>1
  <1> HIDE DEF S
  <1>6. Nat \subseteq S
    BY <1>4, <1>5, Induction
  <1>7. R[n] + c[n] * Weight[n] = A[n] + B[n] + c[n - n]
    BY <1>6 DEF S
  <1>8. Spelt(r, n) = R[n] /\ Spelt(a, n) = A[n] /\ Spelt(b, n) = B[n] /\ n - n = 0
    BY <1>1, <1>2, <1>3, SpeltIs
  <1> QED  BY <1>7, <1>8

(* Digits one after the other.                                               *)
LEMMA JoinedSpelt ==
    ASSUME NEW m \in Nat, NEW n \in Nat, NEW u \in Decimals(m), NEW l \in Decimals(n),
           NEW d \in Decimals(m + n), Agree(u, d, m), \A i \in 1 .. n : l[i] = d[m + i]
    PROVE  Spelt(d, m + n) = Spelt(u, m) * Weight[n] + Spelt(l, n)
  <1>1. PICK U : Prefixes(U, u, m)
    BY PrefixesExist
  <1>2. PICK L : Prefixes(L, l, n)
    BY PrefixesExist
  <1>3. m + n \in Nat
    OBVIOUS
  <1>4. PICK D : Prefixes(D, d, m + n)
    BY <1>3, PrefixesExist
  <1>5. D[m] = U[m] /\ U[m] \in Nat
    <2>1. m <= m /\ m <= m + n
      OBVIOUS
    <2>2. U[m] = D[m]
      BY <1>1, <1>3, <1>4, <2>1, PrefixesAgree
    <2> QED  BY <1>1, <2>2 DEF Prefixes
  <1> DEFINE S == {i \in Nat : i <= n => D[m + i] = U[m] * Weight[i] + L[i]}
  <1>6. 0 \in S
    <2>1. L[0] = 0
      BY <1>2 DEF Prefixes
    <2>2. D[m + 0] = U[m] /\ U[m] * 1 = U[m] /\ Weight[0] = 1
      BY <1>5, FirstWeights
    <2> QED  BY <1>5, <2>1, <2>2
  <1>7. ASSUME NEW i \in Nat, i \in S PROVE i + 1 \in S
    <2>1. CASE i + 1 <= n
      <3> DEFINE j == i + 1
                 x == U[m] * Weight[i]
                 y == U[m] * Weight[j]
      <3>1. /\ j \in 1 .. n /\ j - 1 = i /\ i \in 0 .. n
            /\ m + j \in 1 .. m + n /\ (m + j) - 1 = m + i /\ m + i \in 0 .. m + n
        BY <2>1
      <3>2. y = base * x /\ x \in Nat
        <4>1. Weight[j] = base * Weight[i] /\ Weight[i] \in Nat
          BY WeightAt
        <4> HIDE DEF j
        <4> QED  BY <1>5, <4>1
      <3>3. D[m + i] = x + L[i]
        BY <1>7, <2>1
      <3> HIDE DEF x, y, j
      <3>4. L[j] = base * L[i] + l[j] /\ D[m + j] = base * D[m + i] + d[m + j]
        BY <1>2, <1>4, <3>1 DEF Prefixes
      <3>5. d[m + j] = l[j]
        BY <3>1
      <3>6. l[j] \in Nat
        BY <3>1, DecimalAt
      <3>7. L[i] \in Nat
        BY <1>2, <3>1 DEF Prefixes
      <3>8. D[m + j] = y + L[j]
        BY <3>2, <3>3, <3>4, <3>5, <3>6, <3>7
      <3> QED  BY <3>8 DEF y, j
    <2> QED  BY <2>1
  <1> HIDE DEF S
  <1>8. Nat \subseteq S
    BY <1>6, <1>7, Induction
  <1>9. D[m + n] = U[m] * Weight[n] + L[n]
    BY <1>8 DEF S
  <1>10. Spelt(u, m) = U[m] /\ Spelt(l, n) = L[n] /\ Spelt(d, m + n) = D[m + n]
    BY <1>1, <1>2, <1>3, <1>4, SpeltIs
  <1> QED  BY <1>9, <1>10

LEMMA OneSpelt ==
    ASSUME NEW d \in Decimals(1)
    PROVE  Spelt(d, 1) = d[1]
  <1>1. PICK D : Prefixes(D, d, 1)
    BY PrefixesExist
  <1>2. D[1] = base * D[0] + d[1] /\ D[0] = 0 /\ d[1] \in Nat
    BY <1>1 DEF Prefixes, Decimals
  <1>3. Spelt(d, 1) = D[1]
    BY <1>1, SpeltIs
  <1> QED  BY <1>2, <1>3

LEMMA ZerosSpelt ==
    ASSUME NEW n \in Nat, NEW d, \A i \in 1 .. n : d[i] = 0
    PROVE  Spelt(d, n) = 0
  <1> DEFINE T == [i \in 0 .. n |-> 0]
  <1>1. Prefixes(T, d, n)
    BY DEF Prefixes
  <1>2. T[n] = 0
    OBVIOUS
  <1> HIDE DEF T
  <1> QED  BY <1>1, <1>2, SpeltIs

(* Digits that have moved one place: what all but the first, or all but the   *)
(* last of them spell stays.                                                 *)
Moved(e, d, n) == \A i \in 1 .. n - 1 : e[i] = d[i + 1]

LEMMA MovedSpelt ==
    ASSUME NEW n \in Nat \ {0}, NEW d \in Decimals(n), NEW e \in Decimals(n), Moved(e, d, n)
    PROVE  \E t \in 0 .. Weight[n - 1] - 1 :
              /\ Spelt(d, n) = d[1] * Weight[n - 1] + t
              /\ Spelt(e, n) = base * t + e[n]
  <1> DEFINE k == n - 1
             t == [i \in 1 .. k |-> e[i]]
             x == [i \in 1 .. 1 |-> d[1]]
             y == [i \in 1 .. 1 |-> e[n]]
  <1>1. k \in Nat /\ n = k + 1 /\ n = 1 + k /\ 1 \in Nat
    OBVIOUS
  <1>2. t \in Decimals(k) /\ x \in Decimals(1) /\ y \in Decimals(1)
    BY DEF Decimals
  <1>3. Spelt(d, n) = Spelt(x, 1) * Weight[k] + Spelt(t, k)
    <2>1. Agree(x, d, 1) /\ \A i \in 1 .. k : t[i] = d[1 + i]
      BY DEF Agree, Moved
    <2>2. d \in Decimals(1 + k)
      BY <1>1
    <2> HIDE DEF x, t, k
    <2> QED  BY <1>1, <1>2, <2>1, <2>2, JoinedSpelt
  <1>4. Spelt(e, n) = Spelt(t, k) * Weight[1] + Spelt(y, 1)
    <2>1. Agree(t, e, k) /\ \A i \in 1 .. 1 : y[i] = e[k + i]
      BY DEF Agree
    <2>2. e \in Decimals(k + 1)
      BY <1>1
    <2> HIDE DEF y, t, k
    <2> QED  BY <1>1, <1>2, <2>1, <2>2, JoinedSpelt
  <1>5. Spelt(x, 1) = d[1] /\ Spelt(y, 1) = e[n]
    BY <1>2, OneSpelt
  <1>6. Weight[1] = base
    BY FirstWeights
  <1>7. Spelt(t, k) \in 0 .. Weight[k] - 1
    BY <1>1, <1>2, SpeltRange
  <1> HIDE DEF t, x, y
  <1>8. Spelt(t, k) * base = base * Spelt(t, k)
    BY <1>7, WeightRule
  <1> QED  BY <1>3, <1>4, <1>5, <1>6, <1>7, <1>8

----------------------------------------------------------------------------
(* The codes.                                                                *)
LEMMA CodeTable ==
    /\ bi_quinary_code[1] = 33 /\ bi_quinary_code[2] = 34 /\ bi_quinary_code[3] = 36
    /\ bi_quinary_code[4] = 40 /\ bi_quinary_code[5] = 48 /\ bi_quinary_code[6] = 65
    /\ bi_quinary_code[7] = 66 /\ bi_quinary_code[8] = 68 /\ bi_quinary_code[9] = 72
    /\ bi_quinary_code[10] = 80
  BY DEF bi_quinary_code

LEMMA DigitCodesAre == DigitCodes = {33, 34, 36, 40, 48, 65, 66, 68, 72, 80}
  <1>1. \A n : n \in 1 .. 10 <=> n \in {1, 2, 3, 4, 5, 6, 7, 8, 9, 10}
    OBVIOUS
  <1> QED  BY <1>1, CodeTable DEF DigitCodes

LEMMA BinIs ==
    /\ bin(0) = 33 /\ bin(1) = 34 /\ bin(2) = 36 /\ bin(3) = 40 /\ bin(4) = 48
    /\ bin(5) = 65 /\ bin(6) = 66 /\ bin(7) = 68 /\ bin(8) = 72 /\ bin(9) = 80
    /\ bin(PlusChar) = 80 /\ bin(MinusChar) = 72
  BY CodeTable DEF bin, PlusChar, MinusChar, BlankChar

LEMMA DecIs ==
    /\ dec(33) = 0 /\ dec(34) = 1 /\ dec(36) = 2 /\ dec(40) = 3 /\ dec(48) = 4
    /\ dec(65) = 5 /\ dec(66) = 6 /\ dec(68) = 7 /\ dec(72) = 8 /\ dec(80) = 9
  <1>1. ASSUME NEW n \in 0 .. 9 PROVE dec(bi_quinary_code[n + 1]) = n
    <2> DEFINE code == bi_quinary_code[n + 1]
    <2>1. n \in {0, 1, 2, 3, 4, 5, 6, 7, 8, 9}
      OBVIOUS
    <2>2. code \in DigitCodes /\ code # 0
      BY <2>1, CodeTable, DigitCodesAre
    <2>3. ASSUME NEW m \in 0 .. 9, bi_quinary_code[m + 1] = code PROVE m = n
      <3>1. m \in {0, 1, 2, 3, 4, 5, 6, 7, 8, 9}
        OBVIOUS
      <3> QED  BY <2>1, <2>3, <3>1, CodeTable
    <2>4. Decoded[code] = CHOOSE m \in 0 .. base - 1 : bi_quinary_code[m + 1] = code
      BY <2>2 DEF Decoded
    <2> HIDE DEF code
    <2>5. (CHOOSE m \in 0 .. base - 1 : bi_quinary_code[m + 1] = code) = n
      <3>1. base - 1 = 9 /\ bi_quinary_code[n + 1] = code
        BY DEF code
      <3> QED  BY <2>3, <3>1
    <2> QED  BY <2>2, <2>4, <2>5 DEF dec, code
  <1> QED  BY <1>1, CodeTable

LEMMA BinDec ==
    ASSUME NEW n \in 0 .. 9
    PROVE  bin(n) \in DigitCodes /\ dec(bin(n)) = n
  <1>1. n \in {0, 1, 2, 3, 4, 5, 6, 7, 8, 9}
    OBVIOUS
  <1> QED  BY <1>1, BinIs, DecIs, DigitCodesAre

LEMMA DecBin ==
    ASSUME NEW c \in DigitCodes
    PROVE  dec(c) \in 0 .. 9 /\ bin(dec(c)) = c /\ c \in Nat
  BY BinIs, DecIs, DigitCodesAre

(* The codes are in the order of their digits.                                *)
LEMMA CodesOrdered ==
    ASSUME NEW c \in DigitCodes, NEW d \in DigitCodes
    PROVE  (c < d <=> dec(c) < dec(d)) /\ (c = d <=> dec(c) = dec(d))
  BY DecIs, DigitCodesAre

----------------------------------------------------------------------------
(* Registers of n digits, the digits of a register, and its value.            *)
Reg(n) == {reg \in Seq(DigitCodes) : Len(reg) = n}
Figures(reg, n) == [i \in 1 .. n |-> dec(reg[i])]

LEMMA RegIs ==
    ASSUME NEW n \in Nat, NEW reg \in Reg(n)
    PROVE  /\ reg \in Seq(DigitCodes) /\ Len(reg) = n /\ DOMAIN reg = 1 .. n
           /\ \A i \in 1 .. n : reg[i] \in DigitCodes
  <1>1. reg \in Seq(DigitCodes) /\ Len(reg) = n
    BY DEF Reg
  <1> QED  BY <1>1, LenProperties

LEMMA FiguresType ==
    ASSUME NEW n \in Nat, NEW reg \in Reg(n), NEW m \in Nat, m <= n
    PROVE  /\ Figures(reg, m) \in Decimals(m)
           /\ \A i \in 1 .. m : Figures(reg, m)[i] = dec(reg[i])
  <1>1. ASSUME NEW i \in 1 .. m PROVE dec(reg[i]) \in 0 .. 9
    <2>1. i \in 1 .. n
      OBVIOUS
    <2> QED  BY <2>1, RegIs, DecBin
  <1> QED  BY <1>1 DEF Figures, Decimals

LEMMA ValueSpelt ==
    ASSUME NEW n \in Nat, NEW reg \in Reg(n)
    PROVE  value(reg) = Spelt(Figures(reg, n), n)
  <1> DEFINE F == Figures(reg, n)
             Totals(t) ==
                t = [i \in 0 .. Len(reg) |-> IF i = 0 THEN 0 ELSE base * t[i - 1] + dec(reg[i])]
             total == CHOOSE t : Totals(t)
  <1>1. F \in Decimals(n) /\ \A i \in 1 .. n : F[i] = dec(reg[i])
    BY FiguresType
  <1> HIDE DEF F
  <1>2. PICK T : Prefixes(T, F, n)
    BY <1>1, PrefixesExist
  <1>3. Totals(T)
    <2>1. T \in [0 .. n -> Nat] /\ T[0] = 0
      BY <1>2 DEF Prefixes
    <2>2. ASSUME NEW i \in 0 .. n
          PROVE  T[i] = IF i = 0 THEN 0 ELSE base * T[i - 1] + dec(reg[i])
      <3>1. CASE i # 0
        <4>1. i \in 1 .. n
          BY <3>1
        <4> QED  BY <1>1, <1>2, <3>1, <4>1 DEF Prefixes
      <3> QED  BY <2>1, <3>1
    <2>3. Len(reg) = n
      BY RegIs
    <2> QED  BY <2>1, <2>2, <2>3
  <1>4. Totals(total)
    <2> HIDE DEF Totals
    <2> QED  BY <1>3
  <1>5. value(reg) = total[Len(reg)]
    BY Zenon DEF value
  <1> HIDE DEF total
  <1>6. /\ total[0] = 0
        /\ \A i \in 1 .. n : total[i] = base * total[i - 1] + F[i]
    <2>1. total = [i \in 0 .. n |-> IF i = 0 THEN 0 ELSE base * total[i - 1] + dec(reg[i])]
      BY <1>4, RegIs
    <2>2. total[0] = 0
      BY <2>1
    <2>3. ASSUME NEW i \in 1 .. n PROVE total[i] = base * total[i - 1] + F[i]
      <3>1. i \in 0 .. n /\ i # 0 /\ F[i] = dec(reg[i])
        BY <1>1
      <3>2. total[i] = base * total[i - 1] + dec(reg[i])
        BY <2>1, <3>1
      <3> QED  BY <3>1, <3>2
    <2> QED  BY <2>2, <2>3
  <1> HIDE DEF Totals
  <1> DEFINE S == {i \in Nat : i <= n => total[i] = T[i]}
  <1>7. 0 \in S
    BY <1>2, <1>6 DEF Prefixes
  <1>8. ASSUME NEW i \in Nat, i \in S PROVE i + 1 \in S
    <2>1. CASE i + 1 <= n
      <3>1. i + 1 \in 1 .. n /\ (i + 1) - 1 = i /\ total[i] = T[i]
        BY <1>8, <2>1
      <3>2. total[i + 1] = base * total[i] + F[i + 1] /\ T[i + 1] = base * T[i] + F[i + 1]
        BY <1>2, <1>6, <3>1 DEF Prefixes
      <3> QED  BY <3>1, <3>2
    <2> QED  BY <2>1
  <1> HIDE DEF S
  <1>9. Nat \subseteq S
    BY <1>7, <1>8, Induction
  <1>10. total[n] = T[n]
    BY <1>9 DEF S
  <1>11. Spelt(F, n) = T[n] /\ Len(reg) = n
    BY <1>2, SpeltIs, RegIs
  <1> QED  BY <1>5, <1>10, <1>11 DEF F

----------------------------------------------------------------------------
(* The loop of operator++ and the two loops of add.                           *)
CarryRule(c, n, first, step) ==
    /\ c \in [0 .. n -> 0 .. 1]
    /\ c[0] = first
    /\ \A i \in 1 .. n : c[i] = step[i][c[i - 1]]

LEMMA CarriesRule ==
    ASSUME NEW n \in Nat, NEW first \in 0 .. 1,
           NEW step, \A i \in 1 .. n : step[i] \in [0 .. 1 -> 0 .. 1]
    PROVE  CarryRule(Carries(n, first, step), n, first, step)
  <1> DEFINE Rule(c) ==
                c = [i \in 0 .. n |-> IF i = 0 THEN first ELSE step[i][c[i - 1]]]
             chosen == CHOOSE c : Rule(c)
             s == [p \in Nat \X (0 .. 1) |-> IF p[1] \in 1 .. n THEN step[p[1]][p[2]] ELSE 0]
  <1>1. Carries(n, first, step) = chosen
    BY Zenon DEF Carries
  <1>2. /\ s \in [Nat \X (0 .. 1) -> 0 .. 1]
        /\ \A i \in 1 .. n, v \in 0 .. 1 : s[<<i, v>>] = step[i][v]
    <2>1. ASSUME NEW p \in Nat \X (0 .. 1)
          PROVE  (IF p[1] \in 1 .. n THEN step[p[1]][p[2]] ELSE 0) \in 0 .. 1
      <3>1. p[2] \in 0 .. 1
        OBVIOUS
      <3> QED  BY <3>1
    <2>2. \A i \in 1 .. n, v \in 0 .. 1 : <<i, v>> \in Nat \X (0 .. 1)
      OBVIOUS
    <2> QED  BY <2>1, <2>2
  <1> HIDE DEF s
  <1>3. PICK f : Loops(f, 0 .. 1, first, n, s)
    BY <1>2, LoopExists
  <1>4. f \in [0 .. n -> 0 .. 1] /\ f[0] = first
    BY <1>3 DEF Loops
  <1>5. ASSUME NEW i \in 1 .. n PROVE f[i] = step[i][f[i - 1]]
    <2>1. f[i - 1] \in 0 .. 1 /\ f[i] = s[<<i, f[i - 1]>>]
      BY <1>3, <1>4 DEF Loops
    <2> QED  BY <1>2, <2>1
  <1>6. Rule(f)
    <2>1. ASSUME NEW i \in 0 .. n
          PROVE  f[i] = IF i = 0 THEN first ELSE step[i][f[i - 1]]
      <3>1. i # 0 => i \in 1 .. n
        OBVIOUS
      <3> QED  BY <1>4, <1>5, <3>1
    <2> QED  BY <1>4, <2>1
  <1>7. Rule(chosen)
    <2> HIDE DEF Rule
    <2> QED  BY <1>6
  <1> HIDE DEF chosen
  <1>8. chosen[0] = first /\ \A i \in 1 .. n : chosen[i] = step[i][chosen[i - 1]]
    BY <1>7
  <1> DEFINE S == {i \in Nat : i <= n => chosen[i] = f[i]}
  <1>9. 0 \in S
    BY <1>4, <1>8
  <1>10. ASSUME NEW i \in Nat, i \in S PROVE i + 1 \in S
    <2>1. CASE i + 1 <= n
      <3>1. i + 1 \in 1 .. n /\ (i + 1) - 1 = i /\ chosen[i] = f[i]
        BY <1>10, <2>1
      <3>2. chosen[i + 1] = step[i + 1][chosen[i]] /\ f[i + 1] = step[i + 1][f[i]]
        BY <1>5, <1>8, <3>1
      <3> QED  BY <3>1, <3>2
    <2> QED  BY <2>1
  <1> HIDE DEF S
  <1>11. Nat \subseteq S
    BY <1>9, <1>10, Induction
  <1>12. \A i \in 0 .. n : chosen[i] = f[i]
    BY <1>11 DEF S
  <1>13. chosen \in [0 .. n -> 0 .. 1]
    BY <1>4, <1>7, <1>12
  <1> HIDE DEF Rule
  <1> QED  BY <1>1, <1>8, <1>13 DEF CarryRule

(* A digit from the right, 0 being that of the units in an address, and the   *)
(* sign in a word.                                                           *)
LEMMA AtIs ==
    ASSUME NEW n \in Nat, NEW reg \in Reg(n), NEW i \in Nat, i < n
    PROVE  /\ at(reg, i) = reg[n - i] /\ at(reg, i) \in DigitCodes
           /\ dec(at(reg, i)) \in 0 .. 9
  <1>1. Len(reg) = n /\ n - i \in 1 .. n
    BY RegIs
  <1>2. at(reg, i) = reg[n - i]
    BY <1>1 DEF at
  <1>3. reg[n - i] \in DigitCodes
    BY <1>1, RegIs
  <1> QED  BY <1>2, <1>3, DecBin

(* The digits of a sum, and of a difference, of the digits of two signed       *)
(* registers.                                                                *)
LEMMA PlusAdds ==
    ASSUME NEW n \in Nat, NEW l \in Reg(n + 1), NEW r \in Reg(n + 1)
    PROVE  /\ plus(l, r).digits \in Decimals(n) /\ plus(l, r).carry \in 0 .. 1
           /\ Spelt(plus(l, r).digits, n) + plus(l, r).carry * Weight[n]
                 = Spelt(Figures(l, n), n) + Spelt(Figures(r, n), n)
  <1> DEFINE D(i) == dec(at(l, i)) + dec(at(r, i))
             step == [i \in 1 .. n |-> [c \in 0 .. 1 |-> (c + D(i)) \div base]]
             c == Carries(n, 0, step)
             d == [k \in 1 .. n |-> (c[n - k] + D((n + 1) - k)) % base]
  <1>1. plus(l, r) = [digits |-> d, carry |-> c[n]]
    <2>1. Len(l) - 1 = n
      BY RegIs
    <2> QED  BY <2>1, Zenon DEF plus
  <1>2. ASSUME NEW i \in 1 .. n
        PROVE  /\ D(i) = dec(l[(n + 1) - i]) + dec(r[(n + 1) - i])
               /\ D(i) \in 0 .. 18
    <2>1. n + 1 \in Nat /\ i \in Nat /\ i < n + 1
      OBVIOUS
    <2>2. /\ at(l, i) = l[(n + 1) - i] /\ at(r, i) = r[(n + 1) - i]
          /\ dec(at(l, i)) \in 0 .. 9 /\ dec(at(r, i)) \in 0 .. 9
      BY <2>1, AtIs
    <2> QED  BY <2>2
  <1> HIDE DEF D
  <1>3. ASSUME NEW i \in 1 .. n
        PROVE  /\ step[i] \in [0 .. 1 -> 0 .. 1]
               /\ \A v \in 0 .. 1 : step[i][v] = (v + D(i)) \div base
    <2>1. \A v \in 0 .. 1 : (v + D(i)) \div base \in 0 .. 1
      BY <1>2
    <2> QED  BY <2>1
  <1> HIDE DEF step
  <1>4. CarryRule(c, n, 0, step)
    BY <1>3, CarriesRule
  <1> HIDE DEF c
  <1>5. c \in [0 .. n -> 0 .. 1] /\ c[0] = 0
    BY <1>4 DEF CarryRule
  <1>6. ASSUME NEW k \in 1 .. n
        PROVE  /\ d[k] \in 0 .. 9
               /\ d[k] + base * c[(n - k) + 1]
                     = Figures(l, n)[k] + Figures(r, n)[k] + c[n - k]
    <2> DEFINE i == (n + 1) - k
               u == dec(l[k])
               v == dec(r[k])
    <2>1. /\ i \in 1 .. n /\ i - 1 = n - k /\ i = (n - k) + 1 /\ (n + 1) - i = k
          /\ n - k \in 0 .. n
      OBVIOUS
    <2>2. d[k] = (c[n - k] + D(i)) % base
      OBVIOUS
    <2> HIDE DEF i, d
    <2>3. c[i] = (c[n - k] + D(i)) \div base /\ c[n - k] \in 0 .. 1
      <3>1. c[n - k] \in 0 .. 1 /\ c[i] = step[i][c[i - 1]]
        BY <1>4, <1>5, <2>1 DEF CarryRule
      <3> QED  BY <1>3, <2>1, <3>1
    <2>4. D(i) = u + v /\ D(i) \in 0 .. 18
      BY <1>2, <2>1
    <2>5. Figures(l, n)[k] = u /\ Figures(r, n)[k] = v
      BY DEF Figures
    <2> HIDE DEF u, v
    <2>6. /\ (c[n - k] + D(i)) % base \in 0 .. 9
          /\ ((c[n - k] + D(i)) % base) + base * ((c[n - k] + D(i)) \div base)
                = c[n - k] + D(i)
      BY <2>3, <2>4
    <2>7. d[k] + base * c[i] = u + v + c[n - k]
      <3>1. d[k] + base * c[i] = c[n - k] + D(i)
        BY <2>2, <2>3, <2>6
      <3>2. c[n - k] + D(i) = D(i) + c[n - k]
        BY <2>3, <2>4
      <3> QED  BY <2>4, <3>1, <3>2
    <2> QED  BY <2>1, <2>2, <2>5, <2>6, <2>7
  <1>7. d \in Decimals(n) /\ Carrying(d, Figures(l, n), Figures(r, n), c, n)
    <2>1. d \in Decimals(n)
      BY <1>6 DEF Decimals
    <2> HIDE DEF d
    <2> QED  BY <1>6, <2>1 DEF Carrying
  <1>8. Figures(l, n) \in Decimals(n) /\ Figures(r, n) \in Decimals(n)
    <2>1. n + 1 \in Nat /\ n <= n + 1
      OBVIOUS
    <2> QED  BY <2>1, FiguresType
  <1> HIDE DEF d
  <1>9. Spelt(d, n) + c[n] * Weight[n] = Spelt(Figures(l, n), n) + Spelt(Figures(r, n), n) + 0
    BY <1>5, <1>7, <1>8, CarryingAdds
  <1>10. Spelt(Figures(l, n), n) \in Nat /\ Spelt(Figures(r, n), n) \in Nat
    BY <1>8, SpeltRange
  <1> QED  BY <1>1, <1>5, <1>7, <1>9, <1>10

LEMMA SubSubtracts ==
    ASSUME NEW n \in Nat, NEW l \in Reg(n + 1), NEW r \in Reg(n + 1)
    PROVE  /\ sub(l, r).digits \in Decimals(n) /\ sub(l, r).carry \in 0 .. 1
           /\ Spelt(Figures(l, n), n) + sub(l, r).carry * Weight[n]
                 = Spelt(sub(l, r).digits, n) + Spelt(Figures(r, n), n)
  <1> DEFINE D(i) == dec(at(l, i)) - dec(at(r, i))
             B(i, v) == IF D(i) < v THEN 1 ELSE 0
             step == [i \in 1 .. n |-> [v \in 0 .. 1 |-> B(i, v)]]
             c == Carries(n, 0, step)
             d == [k \in 1 .. n |->
                     (D((n + 1) - k) - c[n - k]) + base * c[(n + 1) - k]]
  <1>1. sub(l, r) = [digits |-> d, carry |-> c[n]]
    <2>1. Len(l) - 1 = n
      BY RegIs
    <2> QED  BY <2>1, Zenon DEF sub
  <1>2. ASSUME NEW i \in 1 .. n
        PROVE  /\ D(i) = dec(l[(n + 1) - i]) - dec(r[(n + 1) - i])
               /\ D(i) \in -9 .. 9
    <2>1. n + 1 \in Nat /\ i \in Nat /\ i < n + 1
      OBVIOUS
    <2>2. /\ at(l, i) = l[(n + 1) - i] /\ at(r, i) = r[(n + 1) - i]
          /\ dec(at(l, i)) \in 0 .. 9 /\ dec(at(r, i)) \in 0 .. 9
      BY <2>1, AtIs
    <2> QED  BY <2>2
  <1> HIDE DEF D
  <1>3. ASSUME NEW i \in 1 .. n
        PROVE  /\ step[i] \in [0 .. 1 -> 0 .. 1]
               /\ \A v \in 0 .. 1 : step[i][v] = B(i, v)
    OBVIOUS
  <1> HIDE DEF step
  <1>4. CarryRule(c, n, 0, step)
    <2> HIDE DEF B
    <2> QED  BY <1>3, CarriesRule
  <1> HIDE DEF c
  <1>5. c \in [0 .. n -> 0 .. 1] /\ c[0] = 0
    BY <1>4 DEF CarryRule
  <1>6. ASSUME NEW k \in 1 .. n
        PROVE  /\ d[k] \in 0 .. 9
               /\ Figures(l, n)[k] + base * c[(n - k) + 1]
                     = d[k] + Figures(r, n)[k] + c[n - k]
    <2> DEFINE i == (n + 1) - k
               u == dec(l[k])
               v == dec(r[k])
    <2>1. /\ i \in 1 .. n /\ i - 1 = n - k /\ i = (n - k) + 1 /\ (n + 1) - i = k
          /\ n - k \in 0 .. n
      OBVIOUS
    <2>2. d[k] = (D(i) - c[n - k]) + base * c[i]
      OBVIOUS
    <2> HIDE DEF i, d
    <2>3. c[i] = B(i, c[n - k]) /\ c[n - k] \in 0 .. 1
      <3>1. c[n - k] \in 0 .. 1 /\ c[i] = step[i][c[i - 1]]
        BY <1>4, <1>5, <2>1 DEF CarryRule
      <3> QED  BY <1>3, <2>1, <3>1
    <2>4. D(i) = u - v /\ D(i) \in -9 .. 9 /\ u \in 0 .. 9 /\ v \in 0 .. 9
      <3>1. k \in 1 .. n + 1 /\ n + 1 \in Nat
        OBVIOUS
      <3>2. u \in 0 .. 9 /\ v \in 0 .. 9
        BY <3>1, RegIs, DecBin
      <3> QED  BY <1>2, <2>1, <3>2
    <2>5. Figures(l, n)[k] = u /\ Figures(r, n)[k] = v
      BY DEF Figures
    <2> HIDE DEF u, v
    <2> DEFINE e == c[n - k]
               f == c[i]
               g == D(i)
    <2>6. f = (IF g < e THEN 1 ELSE 0) /\ e \in 0 .. 1 /\ g = u - v /\ g \in -9 .. 9
      BY <2>3, <2>4
    <2>7. d[k] = (g - e) + 10 * f
      BY <2>2
    <2> HIDE DEF e, f, g
    <2>8. d[k] \in 0 .. 9
      BY <2>6, <2>7
    <2>9. u + 10 * f = d[k] + v + e
      BY <2>4, <2>6, <2>7
    <2> QED  BY <2>1, <2>5, <2>8, <2>9 DEF e, f
  <1>7. d \in Decimals(n) /\ Carrying(Figures(l, n), d, Figures(r, n), c, n)
    <2>1. d \in Decimals(n)
      BY <1>6 DEF Decimals
    <2> HIDE DEF d
    <2> QED  BY <1>6, <2>1 DEF Carrying
  <1>8. Figures(l, n) \in Decimals(n) /\ Figures(r, n) \in Decimals(n)
    <2>1. n + 1 \in Nat /\ n <= n + 1
      OBVIOUS
    <2> QED  BY <2>1, FiguresType
  <1> HIDE DEF d
  <1>9. Spelt(Figures(l, n), n) + c[n] * Weight[n] = Spelt(d, n) + Spelt(Figures(r, n), n) + 0
    BY <1>5, <1>7, <1>8, CarryingAdds
  <1>10. Spelt(d, n) \in Nat /\ Spelt(Figures(r, n), n) \in Nat
    BY <1>7, <1>8, SpeltRange
  <1> QED  BY <1>1, <1>5, <1>7, <1>9, <1>10

(* operator++ is a loop that adds nothing but its first carry.                *)
LEMMA IncrementAdds ==
    ASSUME NEW n \in Nat, NEW reg \in Reg(n)
    PROVE  /\ increment(reg) \in Reg(n)
           /\ \E x \in 0 .. 1 : value(increment(reg)) + x * Weight[n] = value(reg) + 1
  <1> DEFINE counted(i, v) == IF v = 1 THEN (dec(at(reg, i - 1)) + 1) \div base ELSE 0
             step == [i \in 1 .. n |-> [v \in 0 .. 1 |-> counted(i, v)]]
             c == Carries(n, 1, step)
             next == [i \in 1 .. n |->
                        IF c[n - i] = 1 THEN bin((dec(reg[i]) + 1) % base) ELSE reg[i]]
             zeros == [i \in 1 .. n |-> 0]
  <1>1. increment(reg) = next
    <2>1. Len(reg) = n /\ DOMAIN reg = 1 .. n
      BY RegIs
    <2> QED  BY <2>1, Zenon DEF increment
  <1>2. ASSUME NEW i \in 1 .. n
        PROVE  at(reg, i - 1) = reg[(n - i) + 1] /\ dec(at(reg, i - 1)) \in 0 .. 9
    <2> DEFINE j == i - 1
    <2>1. j \in Nat /\ j < n /\ n - j = (n - i) + 1
      OBVIOUS
    <2> HIDE DEF j
    <2>2. at(reg, j) = reg[n - j] /\ dec(at(reg, j)) \in 0 .. 9
      BY <2>1, AtIs
    <2> QED  BY <2>1, <2>2 DEF j
  <1>3. ASSUME NEW i \in 1 .. n
        PROVE  /\ step[i] \in [0 .. 1 -> 0 .. 1]
               /\ \A v \in 0 .. 1 : step[i][v] = counted(i, v)
    <2>1. \A v \in 0 .. 1 : counted(i, v) \in 0 .. 1
      BY <1>2
    <2> QED  BY <2>1
  <1> HIDE DEF step
  <1>4. CarryRule(c, n, 1, step)
    <2> HIDE DEF counted
    <2> QED  BY <1>3, CarriesRule
  <1> HIDE DEF c
  <1>5. c \in [0 .. n -> 0 .. 1] /\ c[0] = 1
    BY <1>4 DEF CarryRule
  <1>6. ASSUME NEW k \in 1 .. n
        PROVE  /\ next[k] \in DigitCodes
               /\ dec(next[k]) + base * c[(n - k) + 1] = dec(reg[k]) + c[n - k]
    <2> DEFINE i == (n - k) + 1
               u == dec(reg[k])
               e == c[n - k]
    <2>1. i \in 1 .. n /\ i - 1 = n - k /\ (n - i) + 1 = k /\ n - k \in 0 .. n
      OBVIOUS
    <2>2. next[k] = IF e = 1 THEN bin((u + 1) % base) ELSE reg[k]
      OBVIOUS
    <2> HIDE DEF i, next
    <2>3. c[i] = (IF e = 1 THEN (u + 1) \div base ELSE 0) /\ e \in 0 .. 1
      <3>1. e \in 0 .. 1 /\ c[i] = step[i][c[i - 1]]
        BY <1>4, <1>5, <2>1 DEF CarryRule
      <3>2. c[i] = counted(i, e)
        BY <1>3, <2>1, <3>1
      <3> QED  BY <1>2, <2>1, <3>1, <3>2
    <2>4. u \in 0 .. 9 /\ reg[k] \in DigitCodes
      BY RegIs, DecBin
    <2> HIDE DEF e
    <2>5. (u + 1) % base \in 0 .. 9 /\ ((u + 1) % base) + base * ((u + 1) \div base) = u + 1
      BY <2>4
    <2>6. bin((u + 1) % base) \in DigitCodes /\ dec(bin((u + 1) % base)) = (u + 1) % base
      BY <2>5, BinDec
    <2>7. CASE e = 1
      BY <2>1, <2>2, <2>3, <2>5, <2>6, <2>7 DEF e
    <2>8. CASE e = 0
      BY <2>1, <2>2, <2>3, <2>4, <2>8 DEF e
    <2> QED  BY <2>3, <2>7, <2>8
  <1>7. next \in Reg(n)
    <2>1. next \in [1 .. n -> DigitCodes]
      BY <1>6
    <2> HIDE DEF next
    <2>2. next \in Seq(DigitCodes) /\ DOMAIN next = 1 .. n
      BY <2>1, SeqDef
    <2>3. Len(next) = n
      BY <2>2, LenProperties
    <2> QED  BY <2>2, <2>3 DEF Reg
  <1> HIDE DEF next
  <1>8. zeros \in Decimals(n) /\ \A k \in 1 .. n : zeros[k] = 0
    BY DEF Decimals
  <1> HIDE DEF zeros
  <1>9. n <= n /\ n \in Nat
    OBVIOUS
  <1>10. /\ Figures(next, n) \in Decimals(n) /\ Figures(reg, n) \in Decimals(n)
         /\ \A k \in 1 .. n : /\ Figures(next, n)[k] = dec(next[k])
                              /\ Figures(reg, n)[k] = dec(reg[k])
    BY <1>7, <1>9, FiguresType
  <1>11. Carrying(Figures(next, n), Figures(reg, n), zeros, c, n)
    <2>1. ASSUME NEW k \in 1 .. n
          PROVE  Figures(next, n)[k] + base * c[(n - k) + 1]
                    = Figures(reg, n)[k] + zeros[k] + c[n - k]
      <3>1. dec(reg[k]) \in 0 .. 9
        BY RegIs, DecBin
      <3>2. zeros[k] = 0 /\ Figures(next, n)[k] = dec(next[k]) /\ Figures(reg, n)[k] = dec(reg[k])
        BY <1>8, <1>10
      <3>3. dec(next[k]) + base * c[(n - k) + 1] = dec(reg[k]) + 0 + c[n - k]
        BY <1>6, <3>1
      <3> QED  BY <3>2, <3>3
    <2> QED  BY <2>1 DEF Carrying
  <1>12. Spelt(Figures(next, n), n) + c[n] * Weight[n]
            = Spelt(Figures(reg, n), n) + Spelt(zeros, n) + 1
    BY <1>5, <1>8, <1>10, <1>11, CarryingAdds
  <1>13. Spelt(zeros, n) = 0
    BY <1>8, ZerosSpelt
  <1>14. value(next) = Spelt(Figures(next, n), n) /\ value(reg) = Spelt(Figures(reg, n), n)
    BY <1>7, ValueSpelt
  <1>15. value(reg) \in Nat /\ c[n] \in 0 .. 1
    BY <1>5, <1>10, <1>14, SpeltRange
  <1> QED  BY <1>1, <1>7, <1>12, <1>13, <1>14, <1>15

----------------------------------------------------------------------------
(* Registers made of others, digit by digit.                                  *)
LEMMA RegOf ==
    ASSUME NEW n \in Nat, NEW reg \in [1 .. n -> DigitCodes]
    PROVE  reg \in Reg(n)
  <1>1. reg \in Seq(DigitCodes)
    BY SeqDef
  <1>2. Len(reg) = n
    BY <1>1, LenProperties
  <1> QED  BY <1>1, <1>2 DEF Reg

LEMMA RegOfSeq ==
    ASSUME NEW n \in Nat, NEW S, NEW reg \in Seq(S), Len(reg) = n,
           \A i \in 1 .. n : reg[i] \in DigitCodes
    PROVE  reg \in Reg(n)
  <1>1. reg \in [1 .. n -> S]
    BY LenProperties
  <1>2. reg \in [1 .. n -> DigitCodes]
    BY <1>1
  <1> QED  BY <1>2, RegOf

LEMMA SameReg ==
    ASSUME NEW n \in Nat, NEW l \in Reg(n), NEW r \in Reg(n), \A i \in 1 .. n : l[i] = r[i]
    PROVE  l = r
  <1>1. l \in Seq(DigitCodes) /\ r \in Seq(DigitCodes) /\ Len(l) = n /\ Len(r) = n
    BY RegIs
  <1> QED  BY <1>1, SeqEqual

(* The digits that load leaves alone, and those that it copies.               *)
Room(length, reg, in, io, ro) ==
    /\ length \in Nat
    /\ length <= Len(in) - io
    /\ length <= Len(reg) - ro
    /\ length = Len(in) - io \/ length = Len(reg) - ro

LEMMA LoadIs ==
    ASSUME NEW S, NEW reg \in Seq(S), NEW in \in Seq(S),
           NEW io \in Nat, io <= Len(in), NEW ro \in Nat, ro <= Len(reg),
           NEW length, Room(length, reg, in, io, ro)
    PROVE  /\ load(reg, in, io, ro) \in Seq(S)
           /\ Len(load(reg, in, io, ro)) = Len(reg)
           /\ \A i \in 1 .. Len(reg) :
                 load(reg, in, io, ro)[i] =
                    IF i <= ro \/ ro + length < i THEN reg[i] ELSE in[(io + i) - ro]
  <1> DEFINE a == SubSeq(reg, 1, ro)
             b == SubSeq(in, io + 1, io + length)
             c == SubSeq(reg, ro + length + 1, Len(reg))
             m == Len(reg)
  <1>1. Len(in) \in Nat /\ m \in Nat /\ length \in Nat /\ ro + length <= m /\ io + length <= Len(in)
    BY LenProperties DEF Room
  <1>2. length = IF Len(in) - io < m - ro THEN Len(in) - io ELSE m - ro
    BY <1>1 DEF Room
  <1>3. load(reg, in, io, ro) = (a \o b) \o c
    BY <1>2, Zenon DEF load
  <1>4. (\A i \in 1 .. m : reg[i] \in S) /\ (\A i \in 1 .. Len(in) : in[i] \in S)
    BY ElementOfSeq
  <1>5. /\ a \in Seq(S) /\ Len(a) = ro
        /\ \A i \in 1 .. ro : a[i] = reg[i]
    <2>1. \A i \in 1 .. ro : reg[i] \in S
      BY <1>1, <1>4
    <2>2. /\ a \in Seq(S) /\ Len(a) = IF 1 <= ro THEN ro - 1 + 1 ELSE 0
          /\ \A i \in 1 .. ro - 1 + 1 : a[i] = reg[1 + i - 1]
      BY <2>1, SubSeqProperties
    <2> QED  BY <2>2
  <1>6. /\ b \in Seq(S) /\ Len(b) = length
        /\ \A i \in 1 .. length : b[i] = in[io + i]
    <2>1. \A i \in io + 1 .. io + length : in[i] \in S
      BY <1>1, <1>4
    <2> DEFINE p == io + 1
               q == io + length
    <2>2. p \in Int /\ q \in Int /\ q - p + 1 = length /\ (p <= q <=> length # 0)
      BY <1>1
    <2>3. \A i \in 1 .. length : p + i - 1 = io + i
      BY <1>1
    <2> HIDE DEF p, q
    <2>4. \A i \in p .. q : in[i] \in S
      BY <2>1 DEF p, q
    <2>5. /\ SubSeq(in, p, q) \in Seq(S)
          /\ Len(SubSeq(in, p, q)) = IF p <= q THEN q - p + 1 ELSE 0
          /\ \A i \in 1 .. q - p + 1 : SubSeq(in, p, q)[i] = in[p + i - 1]
      BY <2>2, <2>4, SubSeqProperties
    <2>6. b = SubSeq(in, p, q)
      BY DEF p, q
    <2> HIDE DEF b
    <2> QED  BY <2>2, <2>3, <2>5, <2>6
  <1>7. /\ c \in Seq(S) /\ Len(c) = m - (ro + length)
        /\ \A i \in 1 .. m - (ro + length) : c[i] = reg[(ro + length) + i]
    <2> DEFINE p == ro + length + 1
    <2>1. /\ p \in Int /\ m \in Int /\ m - p + 1 = m - (ro + length)
          /\ (p <= m <=> m - (ro + length) # 0)
      BY <1>1
    <2>2. \A i \in 1 .. m - (ro + length) : p + i - 1 = (ro + length) + i
      BY <1>1
    <2>3. \A i \in p .. m : reg[i] \in S
      BY <1>1, <1>4
    <2> HIDE DEF p, m
    <2>4. /\ SubSeq(reg, p, m) \in Seq(S)
          /\ Len(SubSeq(reg, p, m)) = IF p <= m THEN m - p + 1 ELSE 0
          /\ \A i \in 1 .. m - p + 1 : SubSeq(reg, p, m)[i] = reg[p + i - 1]
      BY <2>1, <2>3, SubSeqProperties
    <2>5. c = SubSeq(reg, p, m)
      BY DEF p, m
    <2> HIDE DEF c
    <2> QED  BY <2>1, <2>2, <2>4, <2>5
  <1> HIDE DEF a, b, c, m
  <1>8. /\ a \o b \in Seq(S) /\ Len(a \o b) = ro + length
        /\ \A i \in 1 .. ro + length : (a \o b)[i] = IF i <= ro THEN a[i] ELSE b[i - ro]
    <2>1. /\ a \o b \in Seq(S) /\ Len(a \o b) = Len(a) + Len(b)
          /\ \A i \in 1 .. Len(a) + Len(b) :
                (a \o b)[i] = IF i <= Len(a) THEN a[i] ELSE b[i - Len(a)]
      BY <1>5, <1>6, ConcatProperties
    <2> QED  BY <1>5, <1>6, <2>1
  <1> DEFINE d == a \o b
  <1> HIDE DEF d
  <1>9. /\ d \o c \in Seq(S) /\ Len(d \o c) = m
        /\ \A i \in 1 .. m :
              (d \o c)[i] = IF i <= ro + length THEN d[i] ELSE c[i - (ro + length)]
    <2>1. d \in Seq(S) /\ Len(d) = ro + length
      BY <1>8 DEF d
    <2>2. /\ d \o c \in Seq(S) /\ Len(d \o c) = Len(d) + Len(c)
          /\ \A i \in 1 .. Len(d) + Len(c) :
                (d \o c)[i] = IF i <= Len(d) THEN d[i] ELSE c[i - Len(d)]
      BY <1>7, <2>1, ConcatProperties
    <2>3. Len(d) + Len(c) = m
      BY <1>1, <1>7, <2>1 DEF m
    <2> QED  BY <2>1, <2>2, <2>3
  <1>10. ASSUME NEW i \in 1 .. m
         PROVE  (d \o c)[i] =
                   IF i <= ro \/ ro + length < i THEN reg[i] ELSE in[(io + i) - ro]
    <2>1. m \in Nat /\ i \in Nat /\ i >= 1 /\ i <= m
      BY <1>1 DEF m
    <2>2. CASE i <= ro
      <3>1. i \in 1 .. ro + length /\ i \in 1 .. ro /\ i <= ro + length
        BY <1>1, <2>1, <2>2
      <3>2. (d \o c)[i] = d[i] /\ d[i] = a[i] /\ a[i] = reg[i]
        BY <1>5, <1>8, <1>9, <2>2, <3>1 DEF d
      <3> QED  BY <2>2, <3>2
    <2>3. CASE ~(i <= ro) /\ i <= ro + length
      <3>1. i \in 1 .. ro + length /\ i - ro \in 1 .. length /\ io + (i - ro) = (io + i) - ro
        BY <1>1, <2>1, <2>3
      <3>2. (d \o c)[i] = d[i] /\ d[i] = b[i - ro] /\ b[i - ro] = in[io + (i - ro)]
        BY <1>6, <1>8, <1>9, <2>3, <3>1 DEF d
      <3>3. ~(ro + length < i)
        BY <1>1, <2>1, <2>3
      <3> QED  BY <2>3, <3>1, <3>2, <3>3
    <2>4. CASE ~(i <= ro + length)
      <3>1. /\ i - (ro + length) \in 1 .. m - (ro + length)
            /\ (ro + length) + (i - (ro + length)) = i /\ ro + length < i
        BY <1>1, <2>1, <2>4 DEF m
      <3>2. /\ (d \o c)[i] = c[i - (ro + length)]
            /\ c[i - (ro + length)] = reg[(ro + length) + (i - (ro + length))]
        BY <1>7, <1>9, <2>4, <3>1
      <3> QED  BY <3>1, <3>2
    <2> QED  BY <2>2, <2>3, <2>4
  <1> QED  BY <1>3, <1>9, <1>10 DEF d, m

----------------------------------------------------------------------------
(* Signed registers of n digits: their sign, and the number they spell.       *)
SignCodes == {bin(PlusChar), bin(MinusChar)}
SignChars == {PlusChar, MinusChar}
Signed(n) == {reg \in Reg(n + 1) : reg[n + 1] \in SignCodes}
Magnitude(reg, n) == Spelt(Figures(reg, n), n)

LEMMA SignedIs ==
    ASSUME NEW n \in Nat, NEW reg \in Signed(n)
    PROVE  /\ n + 1 \in Nat /\ reg \in Reg(n + 1)
           /\ reg \in Seq(DigitCodes) /\ Len(reg) = n + 1
           /\ \A i \in 1 .. n + 1 : reg[i] \in DigitCodes
           /\ at(reg, 0) = reg[n + 1]
           /\ sign(reg) \in SignChars
           /\ bin(sign(reg)) = reg[n + 1]
  <1>1. n + 1 \in Nat /\ reg \in Reg(n + 1) /\ reg[n + 1] \in {80, 72}
    BY BinIs DEF Signed, SignCodes
  <1>2. Len(reg) = n + 1 /\ reg \in Seq(DigitCodes) /\ \A i \in 1 .. n + 1 : reg[i] \in DigitCodes
    BY <1>1, RegIs
  <1>3. at(reg, 0) = reg[n + 1]
    BY <1>1, <1>2 DEF at
  <1>4. dec(at(reg, 0)) = 9 \/ dec(at(reg, 0)) = 8
    BY <1>1, <1>3, DecIs
  <1>5. CASE reg[n + 1] = 80
    <2>1. sign(reg) = PlusChar
      BY <1>3, <1>5, DecIs DEF sign
    <2> QED  BY <1>1, <1>2, <1>3, <1>5, <2>1, BinIs DEF SignChars
  <1>6. CASE reg[n + 1] = 72
    <2>1. sign(reg) = MinusChar
      BY <1>3, <1>6, DecIs DEF sign
    <2> QED  BY <1>1, <1>2, <1>3, <1>6, <2>1, BinIs DEF SignChars
  <1> QED  BY <1>1, <1>5, <1>6

LEMMA SignOf ==
    ASSUME NEW n \in Nat, NEW reg \in Reg(n + 1), NEW s \in SignChars, reg[n + 1] = bin(s)
    PROVE  reg \in Signed(n) /\ sign(reg) = s
  <1>1. reg \in Signed(n)
    BY DEF Signed, SignCodes, SignChars
  <1>2. bin(sign(reg)) = bin(s) /\ sign(reg) \in SignChars
    BY <1>1, SignedIs
  <1>3. bin(PlusChar) # bin(MinusChar)
    BY BinIs
  <1> QED  BY <1>1, <1>2, <1>3 DEF SignChars

(* Registers whose first n digits are the same spell the same number.          *)
LEMMA SameFigures ==
    ASSUME NEW n, NEW l, NEW r, \A i \in 1 .. n : l[i] = r[i]
    PROVE  Figures(l, n) = Figures(r, n)
  BY DEF Figures

LEMMA MagnitudeRange ==
    ASSUME NEW n \in Nat, NEW reg \in Signed(n)
    PROVE  Figures(reg, n) \in Decimals(n) /\ Magnitude(reg, n) \in 0 .. Weight[n] - 1
  <1>1. n + 1 \in Nat /\ n <= n + 1 /\ reg \in Reg(n + 1)
    BY SignedIs
  <1>2. Figures(reg, n) \in Decimals(n)
    BY <1>1, FiguresType
  <1> QED  BY <1>2, SpeltRange DEF Magnitude

LEMMA MagnitudeIsValue ==
    ASSUME NEW n \in Nat, NEW reg \in Signed(n)
    PROVE  value(SubSeq(reg, 1, n)) = Magnitude(reg, n)
  <1> DEFINE s == SubSeq(reg, 1, n)
  <1>1. \A i \in 1 .. n : reg[i] \in DigitCodes
    BY SignedIs
  <1>2. /\ s \in Seq(DigitCodes) /\ Len(s) = IF 1 <= n THEN n - 1 + 1 ELSE 0
        /\ \A i \in 1 .. n - 1 + 1 : s[i] = reg[1 + i - 1]
    BY <1>1, SubSeqProperties
  <1> HIDE DEF s
  <1>3. Len(s) = n /\ \A i \in 1 .. n : s[i] = reg[i]
    BY <1>2
  <1>4. s \in Reg(n)
    BY <1>2, <1>3 DEF Reg
  <1>5. value(s) = Spelt(Figures(s, n), n)
    BY <1>4, ValueSpelt
  <1>6. Figures(s, n) = Figures(reg, n)
    BY <1>3, SameFigures
  <1> QED  BY <1>5, <1>6 DEF s, Magnitude

LEMMA WithSignIs ==
    ASSUME NEW n \in Nat, NEW reg \in Signed(n), NEW s \in SignChars
    PROVE  /\ WithSign(reg, s) \in Signed(n) /\ sign(WithSign(reg, s)) = s
           /\ Magnitude(WithSign(reg, s), n) = Magnitude(reg, n)
           /\ \A i \in 1 .. n : WithSign(reg, s)[i] = reg[i]
  <1> DEFINE w == WithSign(reg, s)
  <1>1. n + 1 \in Nat /\ reg \in Seq(DigitCodes) /\ Len(reg) = n + 1 /\ n + 1 \in 1 .. Len(reg)
    BY SignedIs
  <1>2. bin(s) \in DigitCodes
    BY BinIs, DigitCodesAre DEF SignChars
  <1>3. /\ w \in Seq(DigitCodes) /\ Len(w) = n + 1
        /\ \A j \in 1 .. n + 1 : w[j] = IF j = n + 1 THEN bin(s) ELSE reg[j]
    BY <1>1, <1>2, ExceptSeq DEF WithSign
  <1> HIDE DEF w
  <1>4. w \in Reg(n + 1) /\ w[n + 1] = bin(s) /\ \A i \in 1 .. n : w[i] = reg[i]
    BY <1>3 DEF Reg
  <1>5. Figures(w, n) = Figures(reg, n)
    BY <1>4, SameFigures
  <1>6. w \in Signed(n) /\ sign(w) = s
    BY <1>4, SignOf
  <1> QED  BY <1>4, <1>5, <1>6 DEF w, Magnitude

LEMMA SignedRegisterIs ==
    ASSUME NEW n \in Nat, NEW d \in Decimals(n), NEW s \in SignChars
    PROVE  /\ Signed_Register(d, s) \in Signed(n) /\ sign(Signed_Register(d, s)) = s
           /\ Figures(Signed_Register(d, s), n) = d
           /\ \A i \in 1 .. n : Signed_Register(d, s)[i] = bin(d[i])
  <1> DEFINE w == Signed_Register(d, s)
             r == [i \in 1 .. n |-> bin(d[i])]
  <1>1. DOMAIN d = 1 .. n /\ d = [i \in 1 .. n |-> d[i]] /\ \A i \in 1 .. n : d[i] \in 0 .. 9
    BY DEF Decimals
  <1>2. w = Append(r, bin(s))
    BY <1>1 DEF Signed_Register, Register
  <1>3. \A i \in 1 .. n : r[i] = bin(d[i]) /\ r[i] \in DigitCodes /\ dec(r[i]) = d[i]
    BY <1>1, BinDec
  <1>4. r \in Reg(n)
    <2>1. r \in [1 .. n -> DigitCodes]
      BY <1>3
    <2> HIDE DEF r
    <2> QED  BY <2>1, RegOf
  <1>5. bin(s) \in DigitCodes
    BY BinIs, DigitCodesAre DEF SignChars
  <1> HIDE DEF w, r
  <1>6. /\ w \in Seq(DigitCodes) /\ Len(w) = n + 1 /\ w[n + 1] = bin(s)
        /\ \A i \in 1 .. n : w[i] = r[i]
    <2>1. r \in Seq(DigitCodes) /\ Len(r) = n
      BY <1>4, RegIs
    <2> QED  BY <1>2, <1>5, <2>1, AppendProperties
  <1>7. w \in Reg(n + 1)
    BY <1>6 DEF Reg
  <1>8. w \in Signed(n) /\ sign(w) = s
    BY <1>6, <1>7, SignOf
  <1>9. Figures(w, n) = d
    BY <1>1, <1>3, <1>6 DEF Figures
  <1> QED  BY <1>3, <1>6, <1>8, <1>9 DEF w

LEMMA FilledIs ==
    ASSUME NEW n \in Nat, NEW s \in SignChars
    PROVE  /\ Filled(n, 0, s) \in Signed(n) /\ sign(Filled(n, 0, s)) = s
           /\ Magnitude(Filled(n, 0, s), n) = 0
           /\ \A i \in 1 .. n : Filled(n, 0, s)[i] = bin(0)
  <1> DEFINE z == [i \in 1 .. n |-> 0]
  <1>1. Filled(n, 0, s) = Signed_Register(z, s)
    <2>1. fill(Blank_Register(n), 0) = [i \in 1 .. n |-> bin(0)]
      BY DEF fill, Blank_Register
    <2>2. Register(z) = [i \in 1 .. n |-> bin(0)]
      BY DEF Register
    <2> QED  BY <2>1, <2>2 DEF Filled, Signed_Register
  <1>2. z \in Decimals(n) /\ \A i \in 1 .. n : z[i] = 0
    BY DEF Decimals
  <1> HIDE DEF z
  <1>3. /\ Filled(n, 0, s) \in Signed(n) /\ sign(Filled(n, 0, s)) = s
        /\ Figures(Filled(n, 0, s), n) = z
        /\ \A i \in 1 .. n : Filled(n, 0, s)[i] = bin(z[i])
    BY <1>1, <1>2, SignedRegisterIs
  <1>4. Spelt(z, n) = 0
    BY <1>2, ZerosSpelt
  <1> QED  BY <1>2, <1>3, <1>4 DEF Magnitude

LEMMA PlacesIs ==
    ASSUME NEW n \in Nat, NEW code \in DigitCodes
    PROVE  /\ Places(n, code) \in Seq(DigitCodes) /\ Len(Places(n, code)) = n
           /\ \A i \in 1 .. n : Places(n, code)[i] = code
  <1> DEFINE p == [i \in 1 .. n |-> code]
  <1>1. \A i \in 1 .. n : p[i] \in DigitCodes /\ p[i] = code
    OBVIOUS
  <1> HIDE DEF p
  <1>2. /\ SubSeq(p, 1, n) \in Seq(DigitCodes)
        /\ Len(SubSeq(p, 1, n)) = IF 1 <= n THEN n - 1 + 1 ELSE 0
        /\ \A i \in 1 .. n - 1 + 1 : SubSeq(p, 1, n)[i] = p[1 + i - 1]
    BY <1>1, SubSeqProperties
  <1>3. \A i \in 1 .. n : SubSeq(p, 1, n)[i] = code
    BY <1>1, <1>2
  <1> QED  BY <1>2, <1>3 DEF Places, p

(* A shift by at most as many places as there are digits.                      *)
LEMMA ShiftLeftIs ==
    ASSUME NEW n \in Nat, NEW reg \in Signed(n), NEW k \in 0 .. n
    PROVE  /\ shift(reg, k) \in Signed(n) /\ sign(shift(reg, k)) = sign(reg)
           /\ \A i \in 1 .. n :
                 shift(reg, k)[i] = IF i + k <= n THEN reg[i + k] ELSE bin(0)
  <1> DEFINE a == SubSeq(reg, k + 1, n)
             b == Places(k, bin(0))
             w == Append(a \o b, reg[n + 1])
  <1>1. /\ reg \in Seq(DigitCodes) /\ Len(reg) = n + 1 /\ n + 1 \in Nat
        /\ \A i \in 1 .. n + 1 : reg[i] \in DigitCodes
        /\ at(reg, 0) = reg[n + 1] /\ sign(reg) \in SignChars /\ bin(sign(reg)) = reg[n + 1]
    BY SignedIs
  <1>2. shift(reg, k) = w
    <2>1. Len(reg) - 1 = n /\ k >= 0
      BY <1>1
    <2> QED  BY <1>1, <2>1 DEF shift
  <1>3. /\ a \in Seq(DigitCodes) /\ Len(a) = n - k
        /\ \A i \in 1 .. n - k : a[i] = reg[i + k]
    <2> DEFINE p == k + 1
    <2>1. p \in Int /\ n \in Int /\ n - p + 1 = n - k /\ (p <= n <=> n - k # 0)
      OBVIOUS
    <2>2. (\A i \in 1 .. n - k : p + i - 1 = i + k) /\ \A i \in p .. n : reg[i] \in DigitCodes
      BY <1>1
    <2> HIDE DEF p
    <2>3. /\ SubSeq(reg, p, n) \in Seq(DigitCodes)
          /\ Len(SubSeq(reg, p, n)) = IF p <= n THEN n - p + 1 ELSE 0
          /\ \A i \in 1 .. n - p + 1 : SubSeq(reg, p, n)[i] = reg[p + i - 1]
      BY <2>1, <2>2, SubSeqProperties
    <2>4. a = SubSeq(reg, p, n)
      BY DEF p
    <2> HIDE DEF a
    <2> QED  BY <2>1, <2>2, <2>3, <2>4
  <1>4. /\ b \in Seq(DigitCodes) /\ Len(b) = k
        /\ \A i \in 1 .. k : b[i] = bin(0)
    <2>1. k \in Nat /\ bin(0) \in DigitCodes
      BY BinDec
    <2> QED  BY <2>1, PlacesIs
  <1> HIDE DEF a, b
  <1>5. /\ a \o b \in Seq(DigitCodes) /\ Len(a \o b) = n
        /\ \A i \in 1 .. n : (a \o b)[i] = IF i <= n - k THEN a[i] ELSE b[i - (n - k)]
    <2>1. /\ a \o b \in Seq(DigitCodes) /\ Len(a \o b) = Len(a) + Len(b)
          /\ \A i \in 1 .. Len(a) + Len(b) :
                (a \o b)[i] = IF i <= Len(a) THEN a[i] ELSE b[i - Len(a)]
      BY <1>3, <1>4, ConcatProperties
    <2>2. Len(a) + Len(b) = n
      BY <1>3, <1>4
    <2> QED  BY <1>3, <2>1, <2>2
  <1>6. ASSUME NEW i \in 1 .. n
        PROVE  (a \o b)[i] = IF i + k <= n THEN reg[i + k] ELSE bin(0)
    <2>1. CASE i + k <= n
      <3>1. i \in 1 .. n - k /\ i <= n - k
        BY <2>1
      <3> QED  BY <1>3, <1>5, <2>1, <3>1
    <2>2. CASE ~(i + k <= n)
      <3>1. i - (n - k) \in 1 .. k /\ ~(i <= n - k)
        BY <2>2
      <3> QED  BY <1>4, <1>5, <2>2, <3>1
    <2> QED  BY <2>1, <2>2
  <1> DEFINE e == a \o b
  <1> HIDE DEF e
  <1>7. e \in Seq(DigitCodes) /\ Len(e) = n
    BY <1>5 DEF e
  <1>8. reg[n + 1] \in DigitCodes
    BY <1>1
  <1> DEFINE v == Append(e, reg[n + 1])
  <1>9. /\ v \in Seq(DigitCodes) /\ Len(v) = n + 1 /\ v[n + 1] = reg[n + 1]
        /\ \A i \in 1 .. n : v[i] = e[i]
    BY <1>7, <1>8, AppendProperties
  <1>10. w = v
    BY DEF e
  <1> HIDE DEF v, w
  <1>11. v \in Reg(n + 1)
    BY <1>9 DEF Reg
  <1>12. v \in Signed(n) /\ sign(v) = sign(reg)
    BY <1>1, <1>9, <1>11, SignOf
  <1>13. \A i \in 1 .. n : v[i] = IF i + k <= n THEN reg[i + k] ELSE bin(0)
    BY <1>6, <1>9 DEF e
  <1> QED  BY <1>2, <1>10, <1>12, <1>13

LEMMA ShiftRightIs ==
    ASSUME NEW n \in Nat, NEW reg \in Signed(n), NEW k \in 1 .. n
    PROVE  /\ shift(reg, -k) \in Signed(n) /\ sign(shift(reg, -k)) = sign(reg)
           /\ \A i \in 1 .. n :
                 shift(reg, -k)[i] = IF i <= k THEN bin(0) ELSE reg[i - k]
  <1> DEFINE a == Places(k, bin(0))
             b == SubSeq(reg, 1, n - k)
             e == a \o b
             w == Append(e, reg[n + 1])
  <1>1. /\ reg \in Seq(DigitCodes) /\ Len(reg) = n + 1 /\ n + 1 \in Nat
        /\ \A i \in 1 .. n + 1 : reg[i] \in DigitCodes
        /\ at(reg, 0) = reg[n + 1] /\ sign(reg) \in SignChars /\ bin(sign(reg)) = reg[n + 1]
    BY SignedIs
  <1>2. shift(reg, -k) = w
    <2>1. Len(reg) - 1 = n /\ ~(-k >= 0) /\ -(-k) = k /\ n + (-k) = n - k
      BY <1>1
    <2> QED  BY <1>1, <2>1 DEF shift
  <1>3. /\ b \in Seq(DigitCodes) /\ Len(b) = n - k
        /\ \A i \in 1 .. n - k : b[i] = reg[i]
    <2> DEFINE m == n - k
    <2>1. m \in Nat /\ m <= n
      OBVIOUS
    <2>2. \A i \in 1 .. m : reg[i] \in DigitCodes
      BY <1>1, <2>1
    <2> HIDE DEF m
    <2>3. /\ SubSeq(reg, 1, m) \in Seq(DigitCodes)
          /\ Len(SubSeq(reg, 1, m)) = IF 1 <= m THEN m - 1 + 1 ELSE 0
          /\ \A i \in 1 .. m - 1 + 1 : SubSeq(reg, 1, m)[i] = reg[1 + i - 1]
      BY <2>1, <2>2, SubSeqProperties
    <2>4. b = SubSeq(reg, 1, m)
      BY DEF m
    <2> HIDE DEF b
    <2>5. b \in Seq(DigitCodes) /\ Len(b) = m /\ \A i \in 1 .. m : b[i] = reg[i]
      BY <2>1, <2>3, <2>4
    <2> QED  BY <2>5 DEF m
  <1>4. /\ a \in Seq(DigitCodes) /\ Len(a) = k
        /\ \A i \in 1 .. k : a[i] = bin(0)
    <2>1. k \in Nat /\ bin(0) \in DigitCodes
      BY BinDec
    <2> QED  BY <2>1, PlacesIs
  <1> HIDE DEF a, b
  <1>5. /\ e \in Seq(DigitCodes) /\ Len(e) = n
        /\ \A i \in 1 .. n : e[i] = IF i <= k THEN a[i] ELSE b[i - k]
    <2>1. /\ a \o b \in Seq(DigitCodes) /\ Len(a \o b) = Len(a) + Len(b)
          /\ \A i \in 1 .. Len(a) + Len(b) :
                (a \o b)[i] = IF i <= Len(a) THEN a[i] ELSE b[i - Len(a)]
      BY <1>3, <1>4, ConcatProperties
    <2>2. Len(a) + Len(b) = n
      BY <1>3, <1>4
    <2> QED  BY <1>4, <2>1, <2>2
  <1> HIDE DEF e
  <1>6. ASSUME NEW i \in 1 .. n
        PROVE  e[i] = IF i <= k THEN bin(0) ELSE reg[i - k]
    <2>1. CASE i <= k
      <3>1. i \in 1 .. k
        BY <2>1
      <3> QED  BY <1>4, <1>5, <2>1, <3>1
    <2>2. CASE ~(i <= k)
      <3>1. i - k \in 1 .. n - k
        BY <2>2
      <3> QED  BY <1>3, <1>5, <2>2, <3>1
    <2> QED  BY <2>1, <2>2
  <1>7. reg[n + 1] \in DigitCodes
    BY <1>1
  <1>8. /\ w \in Seq(DigitCodes) /\ Len(w) = n + 1 /\ w[n + 1] = reg[n + 1]
        /\ \A i \in 1 .. n : w[i] = e[i]
    BY <1>5, <1>7, AppendProperties
  <1> HIDE DEF w
  <1>9. w \in Reg(n + 1)
    BY <1>8 DEF Reg
  <1>10. w \in Signed(n) /\ sign(w) = sign(reg)
    BY <1>1, <1>8, <1>9, SignOf
  <1> QED  BY <1>2, <1>6, <1>8, <1>10

LEMMA SumIs ==
    ASSUME NEW n \in Nat, NEW s, s.digits \in Decimals(n), NEW sgn \in SignChars
    PROVE  /\ Sum(s, sgn).reg \in Signed(n) /\ sign(Sum(s, sgn).reg) = sgn
           /\ Magnitude(Sum(s, sgn).reg, n) = Spelt(s.digits, n)
           /\ Sum(s, sgn).carry = s.carry
  BY SignedRegisterIs DEF Sum, Magnitude

(* What add makes of two signed registers, as numbers.                        *)
LEMMA AddAdds ==
    ASSUME NEW n \in Nat, NEW l \in Signed(n), NEW r \in Signed(n)
    PROVE  LET sum == add(l, r)
               positive == IF sign(r) = MinusChar THEN l ELSE r
               negative == IF sign(r) = MinusChar THEN r ELSE l
               P == Magnitude(positive, n)
               N == Magnitude(negative, n)
           IN  /\ sum.reg \in Signed(n) /\ sum.carry \in 0 .. 1
               /\ sign(l) = sign(r) =>
                     /\ sign(sum.reg) = sign(l)
                     /\ Magnitude(sum.reg, n) + sum.carry * Weight[n]
                           = Magnitude(l, n) + Magnitude(r, n)
               /\ sign(l) # sign(r) /\ P >= N =>
                     /\ sign(sum.reg) = PlusChar /\ sum.carry = 0
                     /\ Magnitude(sum.reg, n) = P - N
               /\ sign(l) # sign(r) /\ ~(P >= N) =>
                     /\ sign(sum.reg) = MinusChar /\ sum.carry = 0
                     /\ Magnitude(sum.reg, n) = N - P
  <1> DEFINE positive == IF sign(r) = MinusChar THEN l ELSE r
             negative == IF sign(r) = MinusChar THEN r ELSE l
             P == Magnitude(positive, n)
             N == Magnitude(negative, n)
             size == abs(negative)
             W == Weight[n]
  <1>1. l \in Reg(n + 1) /\ r \in Reg(n + 1) /\ sign(l) \in SignChars /\ sign(r) \in SignChars
    BY SignedIs
  <1>2. positive \in Signed(n) /\ negative \in Signed(n)
    OBVIOUS
  <1>3. sign(l) # sign(r) => sign(positive) = PlusChar /\ sign(negative) = MinusChar
    BY <1>1 DEF SignChars
  <1>4. size \in Signed(n) /\ Magnitude(size, n) = N
    <2>1. PlusChar \in SignChars
      BY DEF SignChars
    <2> HIDE DEF positive, negative
    <2> QED  BY <1>2, <2>1, WithSignIs DEF abs
  <1>5. W \in Nat /\ W > 0
    BY WeightAt
  <1>6. add(l, r) =
           CASE sign(l) = sign(r) -> Sum(plus(l, r), sign(l))
             [] sign(l) # sign(r) /\ sub(positive, size).carry = 0 ->
                   Sum(sub(positive, size), sign(positive))
             [] OTHER -> Sum(sub(size, positive), sign(negative))
    BY Zenon DEF add
  <1> HIDE DEF positive, negative, size, P, N, W
  <1>7. P \in 0 .. W - 1 /\ N \in 0 .. W - 1 /\ Magnitude(size, n) = N
    BY <1>2, <1>4, MagnitudeRange DEF P, N, W
  <1>8. positive \in Reg(n + 1) /\ size \in Reg(n + 1)
    BY <1>2, <1>4, SignedIs
  <1>9. CASE sign(l) = sign(r)
    <2> DEFINE s == plus(l, r)
    <2>1. /\ s.digits \in Decimals(n) /\ s.carry \in 0 .. 1
          /\ Spelt(s.digits, n) + s.carry * W = Magnitude(l, n) + Magnitude(r, n)
      BY <1>1, PlusAdds DEF Magnitude, W
    <2> HIDE DEF s
    <2>2. add(l, r) = Sum(s, sign(l))
      BY <1>6, <1>9 DEF s
    <2>3. /\ Sum(s, sign(l)).reg \in Signed(n) /\ sign(Sum(s, sign(l)).reg) = sign(l)
          /\ Magnitude(Sum(s, sign(l)).reg, n) = Spelt(s.digits, n)
          /\ Sum(s, sign(l)).carry = s.carry
      BY <1>1, <2>1, SumIs
    <2> QED  BY <1>9, <2>1, <2>2, <2>3 DEF positive, negative, P, N, W
  <1>10. CASE sign(l) # sign(r)
    <2> DEFINE d == sub(positive, size)
               f == sub(size, positive)
    <2>1. /\ d.digits \in Decimals(n) /\ d.carry \in 0 .. 1
          /\ P + d.carry * W = Spelt(d.digits, n) + N
      BY <1>7, <1>8, SubSubtracts DEF Magnitude, W, P
    <2>2. /\ f.digits \in Decimals(n) /\ f.carry \in 0 .. 1
          /\ N + f.carry * W = Spelt(f.digits, n) + P
      BY <1>7, <1>8, SubSubtracts DEF Magnitude, W, P
    <2>3. /\ Spelt(d.digits, n) \in 0 .. W - 1
          /\ Spelt(f.digits, n) \in 0 .. W - 1
      BY <2>1, <2>2, SpeltRange DEF W
    <2>4. /\ 0 * W = 0 /\ 1 * W = W
          /\ d.carry = 0 \/ d.carry = 1
          /\ f.carry = 0 \/ f.carry = 1
      BY <1>5, <2>1, <2>2
    <2> HIDE DEF d, f
    <2>5. (d.carry = 0 <=> P >= N) /\ (d.carry = 0 => Spelt(d.digits, n) = P - N)
      <3>1. CASE d.carry = 0
        <4>1. P = Spelt(d.digits, n) + N
          BY <1>7, <2>1, <2>4, <3>1
        <4> QED  BY <1>7, <2>3, <3>1, <4>1
      <3>2. CASE d.carry = 1
        <4>1. P + W = Spelt(d.digits, n) + N
          BY <2>1, <2>4, <3>2
        <4> QED  BY <1>5, <1>7, <2>3, <3>2, <4>1
      <3> QED  BY <2>4, <3>1, <3>2
    <2>6. ~(P >= N) => f.carry = 0 /\ Spelt(f.digits, n) = N - P
      <3>1. CASE f.carry = 0
        <4>1. N = Spelt(f.digits, n) + P
          BY <1>7, <2>2, <2>4, <3>1
        <4> QED  BY <1>7, <2>3, <3>1, <4>1
      <3>2. CASE f.carry = 1
        <4>1. N + W = Spelt(f.digits, n) + P
          BY <2>2, <2>4, <3>2
        <4> QED  BY <1>5, <1>7, <2>3, <3>2, <4>1
      <3> QED  BY <2>4, <3>1, <3>2
    <2>7. PlusChar \in SignChars /\ MinusChar \in SignChars
      BY DEF SignChars
    <2>8. CASE P >= N
      <3>1. add(l, r) = Sum(d, PlusChar)
        BY <1>3, <1>6, <1>10, <2>5, <2>8 DEF d
      <3>2. /\ Sum(d, PlusChar).reg \in Signed(n) /\ sign(Sum(d, PlusChar).reg) = PlusChar
            /\ Magnitude(Sum(d, PlusChar).reg, n) = Spelt(d.digits, n)
            /\ Sum(d, PlusChar).carry = d.carry
        BY <2>1, <2>7, SumIs
      <3> QED  BY <1>10, <2>1, <2>5, <2>8, <3>1, <3>2 DEF positive, negative, P, N
    <2>9. CASE ~(P >= N)
      <3>1. add(l, r) = Sum(f, MinusChar)
        BY <1>3, <1>6, <1>10, <2>5, <2>9 DEF d, f
      <3>2. /\ Sum(f, MinusChar).reg \in Signed(n) /\ sign(Sum(f, MinusChar).reg) = MinusChar
            /\ Magnitude(Sum(f, MinusChar).reg, n) = Spelt(f.digits, n)
            /\ Sum(f, MinusChar).carry = f.carry
        BY <2>2, <2>7, SumIs
      <3> QED  BY <1>10, <2>2, <2>6, <2>9, <3>1, <3>2 DEF positive, negative, P, N
    <2> QED  BY <2>8, <2>9
  <1> QED  BY <1>9, <1>10

----------------------------------------------------------------------------
(* The accumulator of double length and its halves.                           *)
LEMMA Sizes ==
    /\ WordSize \in Nat /\ WordSize \in Nat \ {0}
    /\ 2 * WordSize \in Nat /\ 2 * WordSize = WordSize + WordSize
    /\ Weight[WordSize] = WordBase /\ Weight[2 * WordSize] = WordBase * WordBase
  <1>1. WordSize \in Nat /\ WordSize \in Nat \ {0}
    BY SizesAssumption
  <1>2. Weight[WordSize + WordSize] = Weight[WordSize] * Weight[WordSize]
    BY <1>1, WeightSum
  <1>3. 2 * WordSize = WordSize + WordSize /\ 2 * WordSize \in Nat
    BY <1>1
  <1> QED  BY <1>1, <1>2, <1>3, DigitsAssumption

LEMMA BlankIs ==
    ASSUME NEW n \in Nat, NEW S, 0 \in S
    PROVE  Blank_Register(n) \in Seq(S) /\ Len(Blank_Register(n)) = n
  <1>1. Blank_Register(n) \in [1 .. n -> S]
    BY DEF Blank_Register
  <1>2. Blank_Register(n) \in Seq(S)
    BY <1>1, SeqDef
  <1> QED  BY <1>1, <1>2, LenProperties

(* The first and the last digits of a register, as registers of their own.     *)
Begins(reg, n, part) == \A i \in 1 .. n : reg[i] = part[i]
Goes_on(reg, n, part) == \A i \in 1 .. n : reg[n + i] = part[i]

LEMMA JoinedMagnitude ==
    ASSUME NEW accum \in Signed(2 * WordSize), NEW u \in Signed(WordSize),
           NEW l \in Signed(WordSize),
           Begins(accum, WordSize, u), Goes_on(accum, WordSize, l)
    PROVE  Magnitude(accum, 2 * WordSize)
              = Magnitude(u, WordSize) * WordBase + Magnitude(l, WordSize)
  <1> DEFINE n == WordSize
             U == Figures(u, n)
             L == Figures(l, n)
             D == Figures(accum, 2 * n)
  <1>1. n \in Nat /\ 2 * n \in Nat /\ 2 * n = n + n /\ Weight[n] = WordBase
    BY Sizes
  <1>2. U \in Decimals(n) /\ L \in Decimals(n) /\ D \in Decimals(2 * n)
    BY <1>1, MagnitudeRange
  <1>3. Agree(U, D, n)
    BY <1>1 DEF Agree, Figures, Begins
  <1>4. \A i \in 1 .. n : L[i] = D[n + i]
    BY <1>1 DEF Figures, Goes_on
  <1> HIDE DEF U, L, D, n
  <1>5. D \in Decimals(n + n)
    BY <1>1, <1>2
  <1>6. Spelt(D, n + n) = Spelt(U, n) * Weight[n] + Spelt(L, n)
    BY <1>1, <1>2, <1>3, <1>4, <1>5, JoinedSpelt
  <1>7. Spelt(D, 2 * n) = Spelt(U, n) * WordBase + Spelt(L, n)
    BY <1>1, <1>6
  <1> QED  BY <1>7 DEF Magnitude, n, U, L, D

LEMMA JoinedIs ==
    ASSUME upper \in Signed(WordSize), lower \in Signed(WordSize)
    PROVE  /\ Joined \in Signed(2 * WordSize) /\ sign(Joined) = sign(lower)
           /\ Begins(Joined, WordSize, upper) /\ Goes_on(Joined, WordSize, lower)
  <1> DEFINE n == WordSize
             S == DigitCodes \cup {0}
             blank == Blank_Register(2 * n + 1)
             half == load(blank, upper, 0, 0)
  <1>1. n \in Nat /\ 2 * n \in Nat /\ 2 * n = n + n
    BY Sizes
  <1>2. blank \in Seq(S) /\ Len(blank) = 2 * n + 1
    BY <1>1, BlankIs
  <1>3. /\ upper \in Seq(DigitCodes) /\ Len(upper) = n + 1
        /\ lower \in Seq(DigitCodes) /\ Len(lower) = n + 1
        /\ \A i \in 1 .. n + 1 : upper[i] \in DigitCodes /\ lower[i] \in DigitCodes
        /\ sign(lower) \in SignChars /\ lower[n + 1] = bin(sign(lower))
    BY <1>1, SignedIs
  <1>4. upper \in Seq(S) /\ lower \in Seq(S)
    <2>1. DigitCodes \subseteq S
      OBVIOUS
    <2> QED  BY <1>3, <2>1, SeqMonotonic
  <1> HIDE DEF S, blank, n
  <1>5. /\ half \in Seq(S) /\ Len(half) = 2 * n + 1
        /\ \A i \in 1 .. n + 1 : half[i] = upper[i]
    <2>1. Room(n + 1, blank, upper, 0, 0) /\ 0 <= Len(upper) /\ 0 <= Len(blank) /\ 0 \in Nat
      BY <1>1, <1>2, <1>3 DEF Room
    <2>2. /\ half \in Seq(S) /\ Len(half) = Len(blank)
          /\ \A i \in 1 .. Len(blank) :
                half[i] = IF i <= 0 \/ 0 + (n + 1) < i THEN blank[i] ELSE upper[(0 + i) - 0]
      BY <1>2, <1>4, <2>1, LoadIs
    <2> HIDE DEF half
    <2>3. ASSUME NEW i \in 1 .. n + 1 PROVE half[i] = upper[i]
      <3>1. i \in 1 .. 2 * n + 1 /\ ~(i <= 0 \/ 0 + (n + 1) < i) /\ (0 + i) - 0 = i
        BY <1>1
      <3> QED  BY <1>2, <2>2, <3>1
    <2> QED  BY <1>2, <2>2, <2>3
  <1> HIDE DEF half
  <1> DEFINE joined == load(half, lower, 0, n)
  <1>6. Joined = joined
    BY DEF Joined, half, blank, n
  <1>7. /\ joined \in Seq(S) /\ Len(joined) = 2 * n + 1
        /\ \A i \in 1 .. 2 * n + 1 :
              joined[i] = IF i <= n THEN upper[i] ELSE lower[i - n]
    <2>1. Room(n + 1, half, lower, 0, n) /\ 0 <= Len(lower) /\ n <= Len(half) /\ 0 \in Nat
      BY <1>1, <1>3, <1>5 DEF Room
    <2>2. /\ joined \in Seq(S) /\ Len(joined) = Len(half)
          /\ \A i \in 1 .. Len(half) :
                joined[i] = IF i <= n \/ n + (n + 1) < i THEN half[i] ELSE lower[(0 + i) - n]
      BY <1>1, <1>4, <1>5, <2>1, LoadIs
    <2> HIDE DEF joined
    <2>3. ASSUME NEW i \in 1 .. 2 * n + 1
          PROVE  joined[i] = IF i <= n THEN upper[i] ELSE lower[i - n]
      <3>1. ~(n + (n + 1) < i) /\ (0 + i) - n = i - n /\ (i <= n => i \in 1 .. n + 1)
        BY <1>1
      <3> QED  BY <1>5, <2>2, <3>1
    <2> QED  BY <1>5, <2>2, <2>3
  <1> HIDE DEF joined
  <1>8. ASSUME NEW i \in 1 .. 2 * n + 1 PROVE joined[i] \in DigitCodes
    <2>1. (i <= n => i \in 1 .. n + 1) /\ (~(i <= n) => i - n \in 1 .. n + 1)
      BY <1>1
    <2> QED  BY <1>3, <1>7, <2>1
  <1>9. joined \in Reg(2 * n + 1)
    <2>1. 2 * n + 1 \in Nat
      BY <1>1
    <2> QED  BY <1>7, <1>8, <2>1, RegOfSeq
  <1>10. joined[2 * n + 1] = lower[n + 1]
    <2>1. 2 * n + 1 \in 1 .. 2 * n + 1 /\ ~(2 * n + 1 <= n) /\ (2 * n + 1) - n = n + 1
      BY <1>1
    <2> QED  BY <1>7, <2>1
  <1>11. joined \in Signed(2 * n) /\ sign(joined) = sign(lower)
    BY <1>1, <1>3, <1>9, <1>10, SignOf
  <1>12. Begins(joined, n, upper)
    BY <1>1, <1>7 DEF Begins
  <1>13. Goes_on(joined, n, lower)
    <2>1. ASSUME NEW i \in 1 .. n PROVE joined[n + i] = lower[i]
      <3>1. n + i \in 1 .. 2 * n + 1 /\ ~(n + i <= n) /\ (n + i) - n = i
        BY <1>1
      <3> QED  BY <1>7, <3>1
    <2> QED  BY <2>1 DEF Goes_on
  <1> QED  BY <1>6, <1>11, <1>12, <1>13 DEF n

(* The halves that Split makes of it.                                        *)
UpperOf(u, accum) == [load(u, accum, 0, 0) EXCEPT ![WordSize + 1] = at(u, 0)]
LowerOf(l, accum) == load(l, accum, WordSize, 0)

LEMMA UpperIs ==
    ASSUME NEW accum \in Signed(2 * WordSize), NEW u \in Signed(WordSize)
    PROVE  /\ UpperOf(u, accum) \in Signed(WordSize)
           /\ sign(UpperOf(u, accum)) = sign(u)
           /\ Begins(accum, WordSize, UpperOf(u, accum))
  <1> DEFINE n == WordSize
             half == load(u, accum, 0, 0)
  <1>1. n \in Nat /\ 2 * n \in Nat /\ 2 * n = n + n /\ n + 1 \in Nat /\ n + 1 <= 2 * n + 1
    BY Sizes
  <1>2. /\ u \in Seq(DigitCodes) /\ Len(u) = n + 1 /\ at(u, 0) = u[n + 1]
        /\ u[n + 1] \in DigitCodes
        /\ sign(u) \in SignChars /\ u[n + 1] = bin(sign(u))
    <2>1. n + 1 \in 1 .. n + 1
      BY <1>1
    <2> QED  BY <1>1, <2>1, SignedIs
  <1>3. accum \in Seq(DigitCodes) /\ Len(accum) = 2 * n + 1
    BY <1>1, SignedIs
  <1> HIDE DEF n
  <1>4. /\ half \in Seq(DigitCodes) /\ Len(half) = n + 1
        /\ \A i \in 1 .. n + 1 : half[i] = accum[i]
    <2>1. Room(n + 1, u, accum, 0, 0) /\ 0 <= Len(u) /\ 0 <= Len(accum) /\ 0 \in Nat
      BY <1>1, <1>2, <1>3 DEF Room
    <2>2. /\ half \in Seq(DigitCodes) /\ Len(half) = Len(u)
          /\ \A i \in 1 .. Len(u) :
                half[i] = IF i <= 0 \/ 0 + (n + 1) < i THEN u[i] ELSE accum[(0 + i) - 0]
      BY <1>2, <1>3, <2>1, LoadIs
    <2> HIDE DEF half
    <2>3. ASSUME NEW i \in 1 .. n + 1 PROVE half[i] = accum[i]
      <3>1. ~(i <= 0 \/ 0 + (n + 1) < i) /\ (0 + i) - 0 = i
        BY <1>1
      <3> QED  BY <1>2, <2>2, <3>1
    <2> QED  BY <1>2, <2>2, <2>3
  <1> HIDE DEF half
  <1> DEFINE w == [half EXCEPT ![n + 1] = u[n + 1]]
  <1>5. /\ w \in Seq(DigitCodes) /\ Len(w) = n + 1
        /\ \A j \in 1 .. n + 1 : w[j] = IF j = n + 1 THEN u[n + 1] ELSE half[j]
    <2>1. n + 1 \in 1 .. Len(half)
      BY <1>1, <1>4
    <2> QED  BY <1>2, <1>4, <2>1, ExceptSeq
  <1> HIDE DEF w
  <1>6. w \in Reg(n + 1) /\ w[n + 1] = bin(sign(u))
    BY <1>1, <1>2, <1>5 DEF Reg
  <1>7. w \in Signed(n) /\ sign(w) = sign(u)
    BY <1>1, <1>2, <1>6, SignOf
  <1>8. Begins(accum, n, w)
    <2>1. ASSUME NEW i \in 1 .. n PROVE accum[i] = w[i]
      <3>1. i \in 1 .. n + 1 /\ i # n + 1
        BY <1>1
      <3> QED  BY <1>4, <1>5, <3>1
    <2> QED  BY <2>1 DEF Begins
  <1>9. UpperOf(u, accum) = w
    BY <1>2 DEF UpperOf, w, half, n
  <1> QED  BY <1>7, <1>8, <1>9 DEF n

LEMMA LowerIs ==
    ASSUME NEW accum \in Signed(2 * WordSize), NEW l \in Signed(WordSize)
    PROVE  /\ LowerOf(l, accum) \in Signed(WordSize)
           /\ sign(LowerOf(l, accum)) = sign(accum)
           /\ Goes_on(accum, WordSize, LowerOf(l, accum))
  <1> DEFINE n == WordSize
             w == load(l, accum, n, 0)
  <1>1. n \in Nat /\ 2 * n \in Nat /\ 2 * n = n + n /\ n + 1 \in Nat /\ n + (n + 1) = 2 * n + 1
    BY Sizes
  <1>2. l \in Seq(DigitCodes) /\ Len(l) = n + 1
    BY <1>1, SignedIs
  <1>3. /\ accum \in Seq(DigitCodes) /\ Len(accum) = 2 * n + 1
        /\ sign(accum) \in SignChars /\ accum[2 * n + 1] = bin(sign(accum))
    BY <1>1, SignedIs
  <1> HIDE DEF n
  <1>4. /\ w \in Seq(DigitCodes) /\ Len(w) = n + 1
        /\ \A i \in 1 .. n + 1 : w[i] = accum[n + i]
    <2>1. Room(n + 1, l, accum, n, 0) /\ 0 <= Len(l) /\ n <= Len(accum) /\ 0 \in Nat
      BY <1>1, <1>2, <1>3 DEF Room
    <2>2. /\ w \in Seq(DigitCodes) /\ Len(w) = Len(l)
          /\ \A i \in 1 .. Len(l) :
                w[i] = IF i <= 0 \/ 0 + (n + 1) < i THEN l[i] ELSE accum[(n + i) - 0]
      BY <1>1, <1>2, <1>3, <2>1, LoadIs
    <2> HIDE DEF w
    <2>3. ASSUME NEW i \in 1 .. n + 1 PROVE w[i] = accum[n + i]
      <3>1. ~(i <= 0 \/ 0 + (n + 1) < i) /\ (n + i) - 0 = n + i
        BY <1>1
      <3> QED  BY <1>2, <2>2, <3>1
    <2> QED  BY <1>2, <2>2, <2>3
  <1> HIDE DEF w
  <1>5. w \in Reg(n + 1)
    BY <1>4 DEF Reg
  <1>6. w[n + 1] = bin(sign(accum))
    <2>1. n + 1 \in 1 .. n + 1
      BY <1>1
    <2> QED  BY <1>1, <1>3, <1>4, <2>1
  <1>7. w \in Signed(n) /\ sign(w) = sign(accum)
    BY <1>1, <1>3, <1>5, <1>6, SignOf
  <1>8. Goes_on(accum, n, w)
    <2>1. ASSUME NEW i \in 1 .. n PROVE accum[n + i] = w[i]
      BY <1>1, <1>4
    <2> QED  BY <2>1 DEF Goes_on
  <1>9. LowerOf(l, accum) = w
    BY DEF LowerOf, w, n
  <1> QED  BY <1>7, <1>8, <1>9 DEF n

----------------------------------------------------------------------------
(* The bits of a code.                                                        *)
OneBit(code, bits) == \E b \in bits : \A c \in bits : Bit(code, c) = 1 <=> c = b

LEMMA IsNumberIs ==
    ASSUME NEW reg
    PROVE  is_number(reg) <=>
              \A i \in DOMAIN reg : OneBit(reg[i], 0 .. 4) /\ OneBit(reg[i], 5 .. 6)
  BY Zenon DEF is_number, OneBit

LEMMA Powers ==
    /\ 2^0 = 1 /\ 2^1 = 2 /\ 2^2 = 4 /\ 2^3 = 8 /\ 2^4 = 16 /\ 2^5 = 32 /\ 2^6 = 64
  OBVIOUS

LEMMA Bits ==
    ASSUME NEW code \in 0 .. 127
    PROVE  /\ code = Bit(code, 0) + 2 * Bit(code, 1) + 4 * Bit(code, 2) + 8 * Bit(code, 3)
                        + 16 * Bit(code, 4) + 32 * Bit(code, 5) + 64 * Bit(code, 6)
           /\ \A i \in 0 .. 6 : Bit(code, i) \in 0 .. 1
  <1>1. /\ Bit(code, 0) = code % 2
        /\ Bit(code, 1) = (code \div 2) % 2 /\ Bit(code, 2) = (code \div 4) % 2
        /\ Bit(code, 3) = (code \div 8) % 2 /\ Bit(code, 4) = (code \div 16) % 2
        /\ Bit(code, 5) = (code \div 32) % 2 /\ Bit(code, 6) = (code \div 64) % 2
    <2>1. code \div 1 = code
      OBVIOUS
    <2> QED  BY <2>1, Powers DEF Bit
  <1>2. \A i \in 0 .. 6 : i \in {0, 1, 2, 3, 4, 5, 6}
    OBVIOUS
  <1>3. \A i \in 0 .. 6 : Bit(code, i) \in 0 .. 1
    BY <1>1, <1>2
  <1>4. /\ code = 2 * (code \div 2) + (code % 2)
        /\ code \div 2 = 2 * (code \div 4) + ((code \div 2) % 2)
        /\ code \div 4 = 2 * (code \div 8) + ((code \div 4) % 2)
    OBVIOUS
  <1>5. /\ code \div 8 = 2 * (code \div 16) + ((code \div 8) % 2)
        /\ code \div 16 = 2 * (code \div 32) + ((code \div 16) % 2)
    OBVIOUS
  <1>6. /\ code \div 32 = 2 * (code \div 64) + ((code \div 32) % 2)
        /\ code \div 64 = (code \div 64) % 2
    OBVIOUS
  <1>7. \A i \in {2, 4, 8, 16, 32, 64} : code \div i \in Nat
    OBVIOUS
  <1> DEFINE q1 == code \div 2
             q2 == code \div 4
             q3 == code \div 8
             q4 == code \div 16
             q5 == code \div 32
             q6 == code \div 64
  <1>8. /\ q1 \in Nat /\ q2 \in Nat /\ q3 \in Nat /\ q4 \in Nat /\ q5 \in Nat /\ q6 \in Nat
    BY <1>7
  <1>9. /\ code = 2 * q1 + Bit(code, 0) /\ q1 = 2 * q2 + Bit(code, 1)
        /\ q2 = 2 * q3 + Bit(code, 2) /\ q3 = 2 * q4 + Bit(code, 3)
        /\ q4 = 2 * q5 + Bit(code, 4) /\ q5 = 2 * q6 + Bit(code, 5) /\ q6 = Bit(code, 6)
    BY <1>1, <1>4, <1>5, <1>6
  <1>10. /\ Bit(code, 0) \in Nat /\ Bit(code, 1) \in Nat /\ Bit(code, 2) \in Nat
         /\ Bit(code, 3) \in Nat /\ Bit(code, 4) \in Nat /\ Bit(code, 5) \in Nat
         /\ Bit(code, 6) \in Nat
    BY <1>3
  <1> HIDE DEF q1, q2, q3, q4, q5, q6
  <1>11. /\ code = Bit(code, 0) + 2 * Bit(code, 1) + 4 * Bit(code, 2) + 8 * Bit(code, 3)
                        + 16 * Bit(code, 4) + 32 * Bit(code, 5) + 64 * Bit(code, 6)
    BY <1>8, <1>9, <1>10
  <1> QED  BY <1>3, <1>11

LEMMA LowBit ==
    ASSUME NEW code
    PROVE  OneBit(code, 0 .. 4) <=>
              \/ /\ Bit(code, 0) = 1 /\ Bit(code, 1) # 1 /\ Bit(code, 2) # 1
                 /\ Bit(code, 3) # 1 /\ Bit(code, 4) # 1
              \/ /\ Bit(code, 0) # 1 /\ Bit(code, 1) = 1 /\ Bit(code, 2) # 1
                 /\ Bit(code, 3) # 1 /\ Bit(code, 4) # 1
              \/ /\ Bit(code, 0) # 1 /\ Bit(code, 1) # 1 /\ Bit(code, 2) = 1
                 /\ Bit(code, 3) # 1 /\ Bit(code, 4) # 1
              \/ /\ Bit(code, 0) # 1 /\ Bit(code, 1) # 1 /\ Bit(code, 2) # 1
                 /\ Bit(code, 3) = 1 /\ Bit(code, 4) # 1
              \/ /\ Bit(code, 0) # 1 /\ Bit(code, 1) # 1 /\ Bit(code, 2) # 1
                 /\ Bit(code, 3) # 1 /\ Bit(code, 4) = 1
  <1>1. \A i : i \in 0 .. 4 <=> i \in {0, 1, 2, 3, 4}
    OBVIOUS
  <1>2. 0 .. 4 = {0, 1, 2, 3, 4}
    BY <1>1
  <1>3. OneBit(code, 0 .. 4) <=>
           \E b \in {0, 1, 2, 3, 4} : \A c \in {0, 1, 2, 3, 4} : Bit(code, c) = 1 <=> c = b
    BY <1>2 DEF OneBit
  <1> QED  BY <1>3

LEMMA HighBit ==
    ASSUME NEW code
    PROVE  OneBit(code, 5 .. 6) <=>
              \/ Bit(code, 5) = 1 /\ Bit(code, 6) # 1
              \/ Bit(code, 5) # 1 /\ Bit(code, 6) = 1
  <1>1. \A i : i \in 5 .. 6 <=> i \in {5, 6}
    OBVIOUS
  <1>2. 5 .. 6 = {5, 6}
    BY <1>1
  <1>3. OneBit(code, 5 .. 6) <=>
           \E b \in {5, 6} : \A c \in {5, 6} : Bit(code, c) = 1 <=> c = b
    BY <1>2 DEF OneBit
  <1> QED  BY <1>3

(* A bit of the five and a bit of the two make ten codes, those of the digits. *)
LEMMA NumberCodes ==
    ASSUME NEW code \in 0 .. 127
    PROVE  OneBit(code, 0 .. 4) /\ OneBit(code, 5 .. 6) <=> code \in DigitCodes
  <1> DEFINE b0 == Bit(code, 0)
             b1 == Bit(code, 1)
             b2 == Bit(code, 2)
             b3 == Bit(code, 3)
             b4 == Bit(code, 4)
             b5 == Bit(code, 5)
             b6 == Bit(code, 6)
  <1>1. /\ b0 \in 0 .. 1 /\ b1 \in 0 .. 1 /\ b2 \in 0 .. 1 /\ b3 \in 0 .. 1
        /\ b4 \in 0 .. 1 /\ b5 \in 0 .. 1 /\ b6 \in 0 .. 1
    BY Bits
  <1>2. code = b0 + 2 * b1 + 4 * b2 + 8 * b3 + 16 * b4 + 32 * b5 + 64 * b6
    BY Bits
  <1>3. OneBit(code, 0 .. 4) <=> b0 + b1 + b2 + b3 + b4 = 1
    <2> HIDE DEF b0, b1, b2, b3, b4
    <2> QED  BY <1>1, LowBit DEF b0, b1, b2, b3, b4
  <1>4. OneBit(code, 5 .. 6) <=> b5 + b6 = 1
    BY <1>1, HighBit
  <1> HIDE DEF b0, b1, b2, b3, b4, b5, b6
  <1>5. ASSUME b0 + b1 + b2 + b3 + b4 = 1, b5 + b6 = 1
        PROVE  code \in {33, 34, 36, 40, 48, 65, 66, 68, 72, 80}
    BY <1>1, <1>2, <1>5
  <1>6. ASSUME code \in {33, 34, 36, 40, 48, 65, 66, 68, 72, 80}
        PROVE  b0 + b1 + b2 + b3 + b4 = 1 /\ b5 + b6 = 1
    BY <1>1, <1>2, <1>6
  <1> QED  BY <1>3, <1>4, <1>5, <1>6, DigitCodesAre

(* is_number passes a code of 7 bits if and only if it is that of a digit.     *)
THEOREM NumbersAreDigits == CodesAreDigits
  <1>1. ASSUME NEW code \in 0 .. 127
        PROVE  is_number(<<code>>) <=> dec(code) \in 0 .. 9
    <2>1. is_number(<<code>>) <=> OneBit(code, 0 .. 4) /\ OneBit(code, 5 .. 6)
      <3>1. \A i : i \in DOMAIN <<code>> <=> i = 1
        OBVIOUS
      <3>2. <<code>>[1] = code
        OBVIOUS
      <3> DEFINE reg == <<code>>
      <3> HIDE DEF reg
      <3>3. is_number(reg) <=>
              \A i \in DOMAIN reg : OneBit(reg[i], 0 .. 4) /\ OneBit(reg[i], 5 .. 6)
        BY IsNumberIs
      <3> QED  BY <3>1, <3>2, <3>3, Zenon DEF reg
    <2>2. code \in DigitCodes => dec(code) \in 0 .. 9
      BY DecBin
    <2>3. code \notin DigitCodes => dec(code) \notin 0 .. 9
      <3>1. CASE code = 0
        <4>1. dec(code) = 95
          BY <3>1, DigitCodesAre DEF dec, BlankChar
        <4> QED  BY <4>1
      <3>2. CASE code # 0 /\ code \notin DigitCodes
        <4>1. dec(code) = 63
          BY <3>2 DEF dec, QueryChar
        <4> QED  BY <4>1
      <3> QED  BY <3>1, <3>2
    <2> QED  BY <2>1, <2>2, <2>3, NumberCodes
  <1>2. base - 1 = 9
    OBVIOUS
  <1> QED  BY <1>1, <1>2, Zenon DEF CodesAreDigits

LEMMA DigitsAreNumbers ==
    ASSUME NEW n \in Nat, NEW reg \in Reg(n)
    PROVE  is_number(reg)
  <1>1. ASSUME NEW i \in DOMAIN reg PROVE OneBit(reg[i], 0 .. 4) /\ OneBit(reg[i], 5 .. 6)
    <2>1. reg[i] \in DigitCodes
      BY RegIs
    <2>2. reg[i] \in 0 .. 127
      BY <2>1, DigitCodesAre
    <2> QED  BY <2>1, <2>2, NumberCodes
  <1> QED  BY <1>1, IsNumberIs

----------------------------------------------------------------------------
(* The registers of the computer keep their form under every call.            *)
DigitTypes ==
    /\ upper \in Signed(WordSize)
    /\ lower \in Signed(WordSize)
    /\ distributor \in Signed(WordSize)
    /\ address_register \in Seq(DigitCodes)

AddressLength == Len(address_register)

LEMMA OperandsAre ==
    ASSUME distributor \in Signed(WordSize), NEW reg \in Operands
    PROVE  reg \in Signed(WordSize)
  <1>1. ASSUME NEW w \in Signed(WordSize)
        PROVE  abs(w) \in Signed(WordSize) /\ change_sign(w) \in Signed(WordSize)
    <2> DEFINE s == IF sign(w) = PlusChar THEN MinusChar ELSE PlusChar
    <2>1. s \in SignChars /\ PlusChar \in SignChars
      BY DEF SignChars
    <2>2. change_sign(w) = WithSign(w, s)
      BY DEF change_sign
    <2> HIDE DEF s
    <2> QED  BY <2>1, <2>2, Sizes, WithSignIs DEF abs
  <1> QED  BY <1>1 DEF Operands

(* The operand of an addition, in a register of double length.                *)
Rhs(reg, to_upper) ==
    shift(load(Filled(2 * WordSize, 0, PlusChar), reg, 0, WordSize),
          IF to_upper THEN WordSize ELSE 0)

LEMMA RhsIs ==
    ASSUME NEW reg \in Signed(WordSize), NEW to_upper \in BOOLEAN
    PROVE  LET rhs == Rhs(reg, to_upper)
               m == Magnitude(reg, WordSize)
           IN  /\ rhs \in Signed(2 * WordSize) /\ sign(rhs) = sign(reg)
               /\ Magnitude(rhs, 2 * WordSize)
                     = (IF to_upper THEN m ELSE 0) * WordBase + (IF to_upper THEN 0 ELSE m)
  <1> DEFINE n == WordSize
             zeros == Filled(2 * n, 0, PlusChar)
             z == Filled(n, 0, PlusChar)
             x == load(zeros, reg, 0, n)
             m == Magnitude(reg, WordSize)
  <1>1. n \in Nat /\ 2 * n \in Nat /\ 2 * n = n + n /\ PlusChar \in SignChars
    BY Sizes DEF SignChars
  <1>2. zeros \in Signed(2 * n) /\ \A i \in 1 .. 2 * n : zeros[i] = bin(0)
    BY <1>1, FilledIs
  <1>3. z \in Signed(n) /\ Magnitude(z, n) = 0 /\ \A i \in 1 .. n : z[i] = bin(0)
    BY <1>1, FilledIs
  <1>4. /\ reg \in Seq(DigitCodes) /\ Len(reg) = n + 1
        /\ sign(reg) \in SignChars /\ reg[n + 1] = bin(sign(reg))
    BY <1>1, SignedIs
  <1>5. zeros \in Seq(DigitCodes) /\ Len(zeros) = 2 * n + 1
    BY <1>1, <1>2, SignedIs
  <1> HIDE DEF zeros, z, n
  <1>6. /\ x \in Seq(DigitCodes) /\ Len(x) = 2 * n + 1
        /\ \A i \in 1 .. 2 * n + 1 : x[i] = IF i <= n THEN zeros[i] ELSE reg[i - n]
    <2>1. Room(n + 1, zeros, reg, 0, n) /\ 0 <= Len(reg) /\ n <= Len(zeros) /\ 0 \in Nat
      BY <1>1, <1>4, <1>5 DEF Room
    <2>2. /\ x \in Seq(DigitCodes) /\ Len(x) = Len(zeros)
          /\ \A i \in 1 .. Len(zeros) :
                x[i] = IF i <= n \/ n + (n + 1) < i THEN zeros[i] ELSE reg[(0 + i) - n]
      <3>1. n \in Nat /\ reg \in Seq(DigitCodes) /\ zeros \in Seq(DigitCodes)
        BY <1>1, <1>4, <1>5
      <3> QED  BY <2>1, <3>1, LoadIs
    <2> HIDE DEF x
    <2>3. ASSUME NEW i \in 1 .. 2 * n + 1
          PROVE  x[i] = IF i <= n THEN zeros[i] ELSE reg[i - n]
      <3>1. ~(n + (n + 1) < i) /\ (0 + i) - n = i - n
        BY <1>1
      <3> QED  BY <1>5, <2>2, <3>1
    <2> QED  BY <1>5, <2>2, <2>3
  <1> HIDE DEF x
  <1>7. x \in Signed(2 * n) /\ sign(x) = sign(reg)
    <2>1. x \in Reg(2 * n + 1)
      BY <1>1, <1>6 DEF Reg
    <2>2. x[2 * n + 1] = bin(sign(reg))
      <3>1. 2 * n + 1 \in 1 .. 2 * n + 1 /\ ~(2 * n + 1 <= n) /\ (2 * n + 1) - n = n + 1
        BY <1>1
      <3> QED  BY <1>4, <1>6, <3>1
    <2> QED  BY <1>1, <1>4, <2>1, <2>2, SignOf
  <1>8. \A i \in 1 .. n : x[i] = bin(0) /\ x[n + i] = reg[i]
    <2>1. ASSUME NEW i \in 1 .. n PROVE x[i] = bin(0) /\ x[n + i] = reg[i]
      <3>1. /\ i \in 1 .. 2 * n + 1 /\ i \in 1 .. 2 * n /\ i <= n
            /\ n + i \in 1 .. 2 * n + 1 /\ ~(n + i <= n) /\ (n + i) - n = i
        BY <1>1
      <3> QED  BY <1>2, <1>6, <3>1
    <2> QED  BY <2>1
  <1>9. CASE to_upper
    <2> DEFINE y == shift(x, n)
    <2>1. n \in 0 .. 2 * n
      BY <1>1
    <2>2. /\ y \in Signed(2 * n) /\ sign(y) = sign(x)
          /\ \A i \in 1 .. 2 * n : y[i] = IF i + n <= 2 * n THEN x[i + n] ELSE bin(0)
      BY <1>1, <1>7, <2>1, ShiftLeftIs
    <2>3. Rhs(reg, to_upper) = y
      BY <1>9 DEF Rhs, x, zeros, n
    <2> HIDE DEF y
    <2>4. \A i \in 1 .. n : y[i] = reg[i] /\ y[n + i] = z[i]
      <3>1. ASSUME NEW i \in 1 .. n PROVE y[i] = reg[i] /\ y[n + i] = z[i]
        <4>1. /\ i \in 1 .. 2 * n /\ i + n <= 2 * n /\ i + n = n + i
              /\ n + i \in 1 .. 2 * n /\ ~((n + i) + n <= 2 * n)
          BY <1>1
        <4> QED  BY <1>3, <1>8, <2>2, <4>1
      <3> QED  BY <3>1
    <2>5. Begins(y, n, reg) /\ Goes_on(y, n, z)
      BY <2>4 DEF Begins, Goes_on
    <2>6. Magnitude(y, 2 * n) = Magnitude(reg, n) * WordBase + Magnitude(z, n)
      BY <1>3, <2>2, <2>5, JoinedMagnitude DEF n
    <2> QED  BY <1>3, <1>7, <1>9, <2>2, <2>3, <2>6 DEF n
  <1>10. CASE ~to_upper
    <2> DEFINE y == shift(x, 0)
    <2>1. 0 \in 0 .. 2 * n
      BY <1>1
    <2>2. /\ y \in Signed(2 * n) /\ sign(y) = sign(x)
          /\ \A i \in 1 .. 2 * n : y[i] = IF i + 0 <= 2 * n THEN x[i + 0] ELSE bin(0)
      BY <1>1, <1>7, <2>1, ShiftLeftIs
    <2>3. Rhs(reg, to_upper) = y
      BY <1>10 DEF Rhs, x, zeros, n
    <2> HIDE DEF y
    <2>4. \A i \in 1 .. n : y[i] = z[i] /\ y[n + i] = reg[i]
      <3>1. ASSUME NEW i \in 1 .. n PROVE y[i] = z[i] /\ y[n + i] = reg[i]
        <4>1. /\ i \in 1 .. 2 * n /\ i + 0 <= 2 * n /\ i + 0 = i
              /\ n + i \in 1 .. 2 * n /\ (n + i) + 0 <= 2 * n /\ (n + i) + 0 = n + i
          BY <1>1
        <4> QED  BY <1>3, <1>8, <2>2, <4>1
      <3> QED  BY <3>1
    <2>5. Begins(y, n, z) /\ Goes_on(y, n, reg)
      BY <2>4 DEF Begins, Goes_on
    <2>6. Magnitude(y, 2 * n) = Magnitude(z, n) * WordBase + Magnitude(reg, n)
      BY <1>3, <2>2, <2>5, JoinedMagnitude DEF n
    <2> QED  BY <1>3, <1>7, <1>10, <2>2, <2>3, <2>6 DEF n
  <1> QED  BY <1>9, <1>10

(* What the calls leave in the halves.                                        *)
LEMMA SplitIs ==
    ASSUME DigitTypes, NEW accum \in Signed(2 * WordSize), Split(accum)
    PROVE  /\ upper' \in Signed(WordSize) /\ lower' \in Signed(WordSize)
           /\ sign(upper') = sign(upper) /\ sign(lower') = sign(accum)
           /\ Begins(accum, WordSize, upper') /\ Goes_on(accum, WordSize, lower')
  <1>1. upper' = UpperOf(upper, accum) /\ lower' = LowerOf(lower, accum)
    BY DEF Split, UpperOf, LowerOf
  <1> QED  BY <1>1, UpperIs, LowerIs, Zenon DEF DigitTypes

LEMMA DigitAddIs ==
    ASSUME DigitTypes, NEW reg \in Signed(WordSize), NEW to_upper \in BOOLEAN,
           DigitAdd(reg, to_upper)
    PROVE  LET sum == add(Joined, Rhs(reg, to_upper))
           IN  sum.reg \in Signed(2 * WordSize) /\ Split(sum.reg) /\ carry' = sum.carry
  <1> DEFINE sum == add(Joined, Rhs(reg, to_upper))
  <1>1. Split(sum.reg) /\ carry' = sum.carry
    BY Zenon DEF DigitAdd, Rhs
  <1>2. Joined \in Signed(2 * WordSize) /\ Rhs(reg, to_upper) \in Signed(2 * WordSize)
    BY JoinedIs, RhsIs DEF DigitTypes
  <1>3. sum.reg \in Signed(2 * WordSize)
    BY <1>2, Sizes, AddAdds, Zenon
  <1> QED  BY <1>1, <1>3

LEMMA ShiftedIs ==
    ASSUME DigitTypes, NEW k \in {-1, 1}
    PROVE  /\ shift(Joined, k) \in Signed(2 * WordSize)
           /\ sign(shift(Joined, k)) = sign(lower)
  <1>1. /\ Joined \in Signed(2 * WordSize) /\ sign(Joined) = sign(lower)
        /\ 2 * WordSize \in Nat /\ 1 \in 0 .. 2 * WordSize /\ 1 \in 1 .. 2 * WordSize
    <2>1. 1 \in 0 .. 2 * WordSize /\ 1 \in 1 .. 2 * WordSize
      BY Sizes
    <2> QED  BY <2>1, Sizes, JoinedIs DEF DigitTypes
  <1>2. CASE k = 1
    BY <1>1, <1>2, ShiftLeftIs
  <1>3. CASE k = -1
    BY <1>1, <1>3, ShiftRightIs
  <1> QED  BY <1>2, <1>3

LEMMA DigitTypesHold == DigitSpec => []DigitTypes
  <1>1. DigitInit => DigitTypes
    <2>1. ASSUME NEW w \in DigitWords PROVE w \in Signed(WordSize)
      <3>1. PICK d \in Digits, s \in {PlusChar, MinusChar} : w = Signed_Register(d, s)
        BY DEF DigitWords
      <3>2. d \in Decimals(WordSize) /\ s \in SignChars
        BY DigitsInRange DEF Decimals, SignChars
      <3> QED  BY <3>1, <3>2, Sizes, SignedRegisterIs
    <2>2. ASSUME NEW d \in StartAddresses PROVE Register(d) \in Seq(DigitCodes)
      <3>1. d \in Seq(0 .. 9)
        BY DigitsInRange
      <3>2. Len(d) \in Nat /\ DOMAIN d = 1 .. Len(d) /\ \A i \in 1 .. Len(d) : d[i] \in 0 .. 9
        BY <3>1, LenProperties
      <3>3. Register(d) \in [1 .. Len(d) -> DigitCodes]
        BY <3>2, BinDec DEF Register
      <3> QED  BY <3>2, <3>3, SeqDef
    <2> QED  BY <2>1, <2>2 DEF DigitInit, DigitTypes
  <1>2. DigitTypes /\ [DigitNext]_dvars => DigitTypes'
    <2> SUFFICES ASSUME DigitTypes, [DigitNext]_dvars PROVE DigitTypes'
      OBVIOUS
    <2>1. ASSUME NEW reg \in Operands, NEW to_upper \in BOOLEAN, DigitAdd(reg, to_upper)
          PROVE  DigitTypes'
      <3>1. reg \in Signed(WordSize)
        BY OperandsAre DEF DigitTypes
      <3> DEFINE accum == add(Joined, Rhs(reg, to_upper)).reg
      <3>2. accum \in Signed(2 * WordSize) /\ Split(accum)
        BY <2>1, <3>1, DigitAddIs
      <3> HIDE DEF accum
      <3>3. upper' \in Signed(WordSize) /\ lower' \in Signed(WordSize)
        BY <3>2, SplitIs
      <3>4. distributor' = distributor /\ address_register' = address_register
        BY <2>1 DEF DigitAdd
      <3> QED  BY <3>3, <3>4 DEF DigitTypes
    <2>2. ASSUME NEW reg \in Operands, NEW to_upper \in BOOLEAN, DigitReset(reg, to_upper)
          PROVE  DigitTypes'
      <3>1. reg \in Signed(WordSize)
        BY OperandsAre DEF DigitTypes
      <3>2. Filled(WordSize, 0, sign(reg)) \in Signed(WordSize)
        BY <3>1, Sizes, SignedIs, FilledIs
      <3>3. upper' \in Signed(WordSize) /\ lower' \in Signed(WordSize)
        BY <2>2, <3>1, <3>2 DEF DigitReset
      <3>4. distributor' = distributor /\ address_register' = address_register
        BY <2>2 DEF DigitReset
      <3> QED  BY <3>3, <3>4 DEF DigitTypes
    <2>3. ASSUME NEW k \in {-1, 1}, DigitShift(k) PROVE DigitTypes'
      <3>1. upper' \in Signed(WordSize) /\ lower' \in Signed(WordSize)
        <4>1. Split(shift(Joined, k))
          BY <2>3 DEF DigitShift
        <4> QED  BY <4>1, ShiftedIs, SplitIs
      <3>2. distributor' = distributor /\ address_register' = address_register
        BY <2>3 DEF DigitShift
      <3> QED  BY <3>1, <3>2 DEF DigitTypes
    <2>4. ASSUME CountAddress PROVE DigitTypes'
      <3>1. AddressLength \in Nat /\ address_register \in Reg(AddressLength)
        BY LenProperties DEF DigitTypes, AddressLength, Reg
      <3>2. increment(address_register) \in Seq(DigitCodes)
        BY <3>1, IncrementAdds, RegIs
      <3> QED  BY <2>4, <3>2 DEF CountAddress, DigitTypes
    <2>5. CASE UNCHANGED dvars
      BY <2>5 DEF dvars, DigitTypes
    <2> QED  BY <2>1, <2>2, <2>3, <2>4, <2>5 DEF DigitNext
  <1> QED  BY <1>1, <1>2, PTL DEF DigitSpec

(* Every register of the machine spells a number after any sequence of calls,  *)
(* and no validity light comes on, whatever the length of a word.             *)
THEOREM RegistersAlwaysSpell == DigitSpec => []RegistersSpellNumbers
  <1>1. DigitTypes => RegistersSpellNumbers
    <2> SUFFICES ASSUME DigitTypes PROVE RegistersSpellNumbers
      OBVIOUS
    <2>1. ASSUME NEW reg \in {upper, lower, distributor}
          PROVE  /\ Len(reg) = WordSize + 1 /\ sign(reg) \in {PlusChar, MinusChar}
                 /\ \A i \in DOMAIN reg : reg[i] \in DigitCodes
                 /\ is_number(reg)
      <3>1. reg \in Signed(WordSize)
        BY DEF DigitTypes
      <3>2. /\ Len(reg) = WordSize + 1 /\ sign(reg) \in SignChars
            /\ reg \in Reg(WordSize + 1) /\ WordSize + 1 \in Nat
        BY <3>1, Sizes, SignedIs
      <3> QED  BY <3>2, RegIs, DigitsAreNumbers DEF SignChars
    <2>2. \A i \in DOMAIN address_register : address_register[i] \in DigitCodes
      BY LenProperties DEF DigitTypes
    <2> QED  BY <2>1, <2>2, NumbersAreDigits
             DEF RegistersSpellNumbers, distributor_validity_error,
                 accumulator_validity_error
  <1> QED  BY <1>1, DigitTypesHold, PTL

(* operator++ counts in address registers of every length.                    *)
THEOREM AddressAlwaysCounts == DigitSpec => AddressCountsUp
  <1>1. DigitTypes /\ CountAddress =>
           value(address_register') =
              (value(address_register) + 1) % Weight[Len(address_register)]
    <2> SUFFICES ASSUME DigitTypes, CountAddress
                 PROVE  value(address_register') =
                           (value(address_register) + 1) % Weight[Len(address_register)]
      OBVIOUS
    <2> DEFINE n == AddressLength
               v == value(address_register)
               w == value(address_register')
    <2>1. n \in Nat /\ address_register \in Reg(n) /\ address_register' = increment(address_register)
      BY LenProperties DEF DigitTypes, AddressLength, Reg, CountAddress
    <2>2. address_register' \in Reg(n)
      BY <2>1, IncrementAdds
    <2>3. PICK x \in 0 .. 1 : w + x * Weight[n] = v + 1
      BY <2>1, IncrementAdds
    <2>4. v \in 0 .. Weight[n] - 1 /\ w \in 0 .. Weight[n] - 1
      <3>1. n <= n
        BY <2>1
      <3>2. \A reg \in Reg(n) : value(reg) \in 0 .. Weight[n] - 1
        BY <2>1, <3>1, ValueSpelt, FiguresType, SpeltRange
      <3> QED  BY <2>1, <2>2, <3>2
    <2>5. Weight[n] \in Nat \ {0}
      BY <2>1, WeightAt
    <2> DEFINE W == Weight[n]
    <2>6. Len(address_register) = n
      BY DEF AddressLength
    <2> HIDE DEF n, v, w, W
    <2>7. v + 1 \in Nat /\ v + 1 = x * W + w /\ x \in Int /\ W \in Nat \ {0} /\ w \in 0 .. W - 1
      BY <2>3, <2>4, <2>5 DEF W
    <2>8. (v + 1) % W = w
      BY <2>7, DivisionUnique
    <2> QED  BY <2>6, <2>8 DEF v, w, W
  <1>2. DigitTypes /\ [DigitNext]_dvars =>
           [CountAddress =>
              value(address_register') =
                 (value(address_register) + 1) % Weight[Len(address_register)]]_dvars
    BY <1>1
  <1> QED  BY <1>2, DigitTypesHold, PTL DEF DigitSpec, AddressCountsUp

----------------------------------------------------------------------------
(* The numbers of module Accumulator that registers spell.                    *)
SignWord(reg) == IF sign(reg) = PlusChar THEN "+" ELSE "-"

LEMMA NumberIs ==
    ASSUME NEW reg \in Signed(WordSize)
    PROVE  /\ Number(reg) \in Word
           /\ Number(reg) = WordOf(Magnitude(reg, WordSize), SignWord(reg))
           /\ Mag(Number(reg)) = Magnitude(reg, WordSize)
           /\ Number(reg).sign = SignWord(reg)
           /\ Magnitude(reg, WordSize) \in 0 .. WordBase - 1
  <1> DEFINE m == Magnitude(reg, WordSize)
  <1>1. m \in 0 .. WordBase - 1 /\ value(SubSeq(reg, 1, WordSize)) = m
    BY Sizes, MagnitudeRange, MagnitudeIsValue
  <1> HIDE DEF m
  <1>2. SignWord(reg) \in Signs
    BY DEF SignWord, Signs
  <1>3. Number(reg) = WordOf(m, SignWord(reg))
    BY <1>1 DEF Number, SignWord
  <1>4. Mag(WordOf(m, SignWord(reg))) = m /\ WordOf(m, SignWord(reg)) \in Word
    BY <1>1, <1>2, MagOfWordOf, WordOfType
  <1>5. WordOf(m, SignWord(reg)).sign = SignWord(reg)
    BY DEF WordOf
  <1> QED  BY <1>1, <1>3, <1>4, <1>5 DEF m

LEMMA SignWords ==
    ASSUME NEW l \in Signed(WordSize), NEW r \in Signed(WordSize)
    PROVE  /\ sign(l) \in SignChars
           /\ SignWord(l) = SignWord(r) <=> sign(l) = sign(r)
           /\ SignWord(r) = "-" <=> sign(r) = MinusChar
           /\ SignWord(r) = "+" <=> sign(r) = PlusChar
  <1>1. sign(l) \in {43, 45} /\ sign(r) \in {43, 45}
    BY Sizes, SignedIs DEF SignChars, PlusChar, MinusChar
  <1> QED  BY <1>1 DEF SignWord, SignChars, PlusChar, MinusChar

(* A number of double length has one upper and one lower half.                *)
LEMMA PairUnique ==
    ASSUME NEW B \in Nat \ {0}, NEW u \in Nat, NEW v \in Nat,
           NEW l \in 0 .. B - 1, NEW k \in 0 .. B - 1, u * B + l = v * B + k
    PROVE  u = v /\ l = k
  <1>1. ASSUME NEW x \in Nat, NEW y \in Nat, x < y PROVE x * B + B <= y * B
    <2>1. PICK z \in Nat : y = (x + 1) + z
      <3>1. y - (x + 1) \in Nat /\ y = (x + 1) + (y - (x + 1))
        BY <1>1
      <3> QED  BY <3>1
    <2>2. y * B = (x * B + B) + z * B /\ z * B \in Nat /\ x * B \in Nat
      BY <2>1
    <2> QED  BY <2>2
  <1> DEFINE p == u * B
             q == v * B
  <1>2. p \in Nat /\ q \in Nat /\ p + l = q + k
    OBVIOUS
  <1>3. (u < v => p + B <= q) /\ (v < u => q + B <= p) /\ (u = v => p = q)
    BY <1>1
  <1> HIDE DEF p, q
  <1> QED  BY <1>2, <1>3

LEMMA HalvesUnique ==
    ASSUME NEW u \in 0 .. WordBase - 1, NEW l \in 0 .. WordBase - 1,
           NEW v \in 0 .. WordBase - 1, NEW k \in 0 .. WordBase - 1,
           u * WordBase + l = v * WordBase + k
    PROVE  u = v /\ l = k
  <1>1. WordBase \in Nat \ {0} /\ u \in Nat /\ v \in Nat
    BY BaseFacts
  <1> QED  BY <1>1, PairUnique

LEMMA ValueBound ==
    ASSUME NEW u \in 0 .. WordBase - 1, NEW l \in 0 .. WordBase - 1
    PROVE  u * WordBase + l \in 0 .. WordBase * WordBase - 1
  <1> DEFINE B == WordBase
  <1>1. B \in Nat \ {0} /\ u \in 0 .. B - 1 /\ l \in 0 .. B - 1
    BY BaseFacts
  <1> HIDE DEF B
  <1>2. u * B <= (B - 1) * B /\ u * B \in Nat
    BY <1>1
  <1>3. (B - 1) * B = B * B - B /\ B * B \in Nat
    BY <1>1
  <1>4. u * B + l \in 0 .. B * B - 1
    BY <1>1, <1>2, <1>3
  <1> QED  BY <1>4 DEF B

LEMMA CarryUnique ==
    ASSUME NEW M \in Nat, NEW x \in 0 .. M - 1, NEW y \in 0 .. M - 1,
           NEW c \in {0, 1}, NEW d \in {0, 1}, x + c * M = y + d * M
    PROVE  x = y /\ c = d
  <1>1. 0 * M = 0 /\ 1 * M = M
    OBVIOUS
  <1> QED  BY <1>1

LEMMA AtLeastValue ==
    ASSUME NEW a \in Double, NEW b \in Double
    PROVE  AtLeast(a, b) <=> Value(a) >= Value(b)
  <1>1. /\ a.upper \in 0 .. WordBase - 1 /\ a.lower \in 0 .. WordBase - 1
        /\ b.upper \in 0 .. WordBase - 1 /\ b.lower \in 0 .. WordBase - 1
        /\ WordBase \in Nat
    BY BaseFacts DEF Double
  <1>2. Value(a) \in Nat /\ Value(b) \in Nat
    BY ValueIsNat
  <1>3. ASSUME NEW x \in Double, NEW y \in Double, AtLeast(x, y),
               Value(x) \in Nat, Value(y) \in Nat
        PROVE  Value(x) >= Value(y)
    <2> DEFINE m == MinusMagnitude(x, y)
    <2>1. m.upper \in 0 .. WordBase - 1 /\ m.lower \in 0 .. WordBase - 1
          /\ Value(m) = Value(x) - Value(y)
      BY <1>3, MinusMagnitudeSum
    <2> HIDE DEF m
    <2>2. Value(m) \in Nat
      <3>1. m.upper \in Nat /\ m.lower \in Nat /\ WordBase \in Nat
        BY <1>1, <2>1
      <3> QED  BY <3>1 DEF Value
    <2> QED  BY <1>3, <2>1, <2>2
  <1>4. CASE AtLeast(a, b)
    BY <1>2, <1>3, <1>4
  <1>5. CASE ~AtLeast(a, b)
    <2>1. AtLeast(b, a)
      BY <1>1, <1>5 DEF AtLeast
    <2>2. Value(b) >= Value(a)
      BY <1>2, <1>3, <2>1
    <2>3. Value(a) # Value(b)
      <3>1. SUFFICES ASSUME Value(a) = Value(b) PROVE FALSE
        OBVIOUS
      <3>2. a.upper * WordBase + a.lower = b.upper * WordBase + b.lower
        BY <3>1 DEF Value
      <3>3. a.upper = b.upper /\ a.lower = b.lower
        BY <1>1, <3>2, HalvesUnique
      <3> QED  BY <1>1, <1>5, <3>3 DEF AtLeast
    <2> QED  BY <1>2, <1>5, <2>2, <2>3
  <1> QED  BY <1>4, <1>5

(* The sum of two numbers of double length, whose digits and carry add makes.  *)
LEMMA SumUnique ==
    ASSUME NEW sum \in Signed(2 * WordSize), NEW c \in 0 .. 1,
           NEW u \in Signed(WordSize), NEW l \in Signed(WordSize),
           Begins(sum, WordSize, u), Goes_on(sum, WordSize, l),
           NEW mag, mag.upper \in 0 .. WordBase - 1, mag.lower \in 0 .. WordBase - 1,
           mag.carry \in {0, 1},
           Value(mag) + mag.carry * (WordBase * WordBase)
              = Magnitude(sum, 2 * WordSize) + c * (WordBase * WordBase)
    PROVE  /\ Magnitude(u, WordSize) = mag.upper
           /\ Magnitude(l, WordSize) = mag.lower
           /\ c = mag.carry
  <1> DEFINE U == Magnitude(u, WordSize)
             L == Magnitude(l, WordSize)
             x == U * WordBase + L
             y == mag.upper * WordBase + mag.lower
             M == WordBase * WordBase
             d == mag.carry
  <1>1. U \in 0 .. WordBase - 1 /\ L \in 0 .. WordBase - 1
    BY NumberIs
  <1>2. Magnitude(sum, 2 * WordSize) = x
    BY JoinedMagnitude
  <1>3. x \in 0 .. M - 1 /\ y \in 0 .. M - 1 /\ M \in Nat
    <2>1. M \in Nat
      BY BaseFacts
    <2> HIDE DEF U, L
    <2> QED  BY <1>1, <2>1, ValueBound
  <1>4. x + c * M = y + d * M
    BY <1>2 DEF Value
  <1>5. c \in {0, 1} /\ d \in {0, 1}
    OBVIOUS
  <1>6. x = y /\ c = d
    <2> HIDE DEF x, y, M, d
    <2> QED  BY <1>3, <1>4, <1>5, CarryUnique
  <1>7. U = mag.upper /\ L = mag.lower
    <2> HIDE DEF U, L
    <2> QED  BY <1>1, <1>6, HalvesUnique
  <1> QED  BY <1>6, <1>7

LEMMA AddComputes ==
    ASSUME DigitTypes, NEW reg \in Signed(WordSize), NEW to_upper \in BOOLEAN,
           DigitAdd(reg, to_upper)
    PROVE  LET sum == add_to_accumulator(Number(upper), Number(lower), Number(reg), to_upper)
           IN  Spells(sum) /\ carry' = sum.carry
  <1> DEFINE n == WordSize
             u == Number(upper)
             l == Number(lower)
             w == Number(reg)
             a == Halves(u, l)
             b == [upper |-> IF to_upper THEN Mag(w) ELSE 0,
                   lower |-> IF to_upper THEN 0 ELSE Mag(w)]
             sum == SignedSum(a, l.sign, b, w.sign)
             rhs == Rhs(reg, to_upper)
             res == add(Joined, rhs)
             M == WordBase * WordBase
  <1>1. upper \in Signed(n) /\ lower \in Signed(n) /\ n \in Nat /\ 2 * n \in Nat
    BY Sizes DEF DigitTypes
  <1>2. /\ Mag(u) = Magnitude(upper, n) /\ u.sign = SignWord(upper) /\ u \in Word
        /\ Mag(l) = Magnitude(lower, n) /\ l.sign = SignWord(lower) /\ l \in Word
        /\ Mag(w) = Magnitude(reg, n) /\ w.sign = SignWord(reg) /\ w \in Word
    BY <1>1, NumberIs
  <1>3. a \in Double /\ b \in Double
    <2>1. a \in Double
      BY <1>2, HalvesType
    <2>2. Mag(w) \in 0 .. WordBase - 1 /\ 0 \in 0 .. WordBase - 1
      BY <1>2, WordFields, BaseFacts
    <2> HIDE DEF w
    <2> QED  BY <2>1, <2>2 DEF Double
  <1>4. /\ res.reg \in Signed(2 * n) /\ Split(res.reg) /\ carry' = res.carry
    BY DigitAddIs
  <1>5. /\ upper' \in Signed(n) /\ lower' \in Signed(n)
        /\ sign(upper') = sign(upper) /\ sign(lower') = sign(res.reg)
        /\ Begins(res.reg, n, upper') /\ Goes_on(res.reg, n, lower')
    <2> HIDE DEF res
    <2> QED  BY <1>4, SplitIs
  <1>6. /\ Joined \in Signed(2 * n) /\ sign(Joined) = sign(lower)
        /\ Magnitude(Joined, 2 * n) = Value(a)
    <2>1. /\ Joined \in Signed(2 * n) /\ sign(Joined) = sign(lower)
          /\ Begins(Joined, n, upper) /\ Goes_on(Joined, n, lower)
      BY <1>1, JoinedIs
    <2>2. Magnitude(Joined, 2 * n) = Magnitude(upper, n) * WordBase + Magnitude(lower, n)
      BY <1>1, <2>1, JoinedMagnitude
    <2>3. a.upper = Magnitude(upper, n) /\ a.lower = Magnitude(lower, n)
      BY <1>2 DEF Halves
    <2> QED  BY <2>1, <2>2, <2>3, Zenon DEF Value
  <1>7. /\ rhs \in Signed(2 * n) /\ sign(rhs) = sign(reg)
        /\ Magnitude(rhs, 2 * n) = Value(b)
    <2>1. /\ rhs \in Signed(2 * n) /\ sign(rhs) = sign(reg)
          /\ Magnitude(rhs, 2 * n) =
                (IF to_upper THEN Magnitude(reg, n) ELSE 0) * WordBase
                   + (IF to_upper THEN 0 ELSE Magnitude(reg, n))
      BY RhsIs
    <2>2. /\ b.upper = IF to_upper THEN Magnitude(reg, n) ELSE 0
          /\ b.lower = IF to_upper THEN 0 ELSE Magnitude(reg, n)
      BY <1>2
    <2> HIDE DEF b, rhs
    <2> QED  BY <2>1, <2>2, Zenon DEF Value
  <1>8. Value(a) \in Nat /\ Value(b) \in Nat
    BY <1>3, ValueIsNat
  <1>9. Weight[2 * n] = M /\ M \in Nat
    BY Sizes, BaseFacts
  <1>10. /\ l.sign = w.sign <=> sign(lower) = sign(reg)
         /\ w.sign = "-" <=> sign(reg) = MinusChar
         /\ l.sign \in Signs
    BY <1>1, <1>2, SignWords DEF SignWord, Signs
  <1> DEFINE positive == IF sign(rhs) = MinusChar THEN Joined ELSE rhs
             negative == IF sign(rhs) = MinusChar THEN rhs ELSE Joined
             P == Magnitude(positive, 2 * n)
             N == Magnitude(negative, 2 * n)
             pos == IF w.sign = "-" THEN a ELSE b
             neg == IF w.sign = "-" THEN b ELSE a
  <1>11. /\ res.carry \in 0 .. 1
         /\ sign(Joined) = sign(rhs) =>
               /\ sign(res.reg) = sign(Joined)
               /\ Magnitude(res.reg, 2 * n) + res.carry * Weight[2 * n]
                     = Magnitude(Joined, 2 * n) + Magnitude(rhs, 2 * n)
         /\ sign(Joined) # sign(rhs) /\ P >= N =>
               /\ sign(res.reg) = PlusChar /\ res.carry = 0
               /\ Magnitude(res.reg, 2 * n) = P - N
         /\ sign(Joined) # sign(rhs) /\ ~(P >= N) =>
               /\ sign(res.reg) = MinusChar /\ res.carry = 0
               /\ Magnitude(res.reg, 2 * n) = N - P
    BY <1>1, <1>6, <1>7, AddAdds, Zenon
  <1>12. pos \in Double /\ neg \in Double /\ P = Value(pos) /\ N = Value(neg)
    <2> HIDE DEF a, b, rhs
    <2> QED  BY <1>3, <1>6, <1>7, <1>10
  <1> HIDE DEF a, b, rhs, res, M, P, N, pos, neg, positive, negative
  <1>13. /\ sum.mag.upper \in 0 .. WordBase - 1 /\ sum.mag.lower \in 0 .. WordBase - 1
         /\ sum.mag.carry \in {0, 1} /\ res.carry \in 0 .. 1
         /\ Value(sum.mag) + sum.mag.carry * M
               = Magnitude(res.reg, 2 * n) + res.carry * M
         /\ SignWord(lower') = sum.sign
    <2>1. CASE l.sign = w.sign
      <3>1. sum = [mag |-> PlusMagnitude(a, b), sign |-> l.sign]
        BY <2>1 DEF SignedSum
      <3>2. SignWord(lower') = l.sign
        BY <1>2, <1>5, <1>6, <1>7, <1>10, <1>11, <2>1 DEF SignWord
      <3>3. Magnitude(res.reg, 2 * n) + res.carry * M = Value(a) + Value(b)
        BY <1>6, <1>7, <1>9, <1>10, <1>11, <2>1
      <3>4. /\ PlusMagnitude(a, b).upper \in 0 .. WordBase - 1
            /\ PlusMagnitude(a, b).lower \in 0 .. WordBase - 1
            /\ PlusMagnitude(a, b).carry \in {0, 1}
            /\ Value(PlusMagnitude(a, b)) + PlusMagnitude(a, b).carry * M
                  = Value(a) + Value(b)
        BY <1>3, PlusMagnitudeSum DEF M
      <3> QED  BY <1>11, <3>1, <3>2, <3>3, <3>4
    <2>2. CASE l.sign # w.sign /\ AtLeast(pos, neg)
      <3>1. sum = [mag |-> MinusMagnitude(pos, neg), sign |-> "+"]
        BY <2>2 DEF SignedSum, pos, neg
      <3>2. P >= N
        BY <1>12, <2>2, AtLeastValue
      <3>3. sign(res.reg) = PlusChar /\ res.carry = 0 /\ Magnitude(res.reg, 2 * n) = P - N
        BY <1>6, <1>7, <1>10, <1>11, <2>2, <3>2
      <3>4. SignWord(lower') = "+"
        BY <1>5, <3>3 DEF SignWord
      <3>5. /\ MinusMagnitude(pos, neg).upper \in 0 .. WordBase - 1
            /\ MinusMagnitude(pos, neg).lower \in 0 .. WordBase - 1
            /\ MinusMagnitude(pos, neg).carry = 0
            /\ Value(MinusMagnitude(pos, neg)) = P - N
        BY <1>12, <2>2, MinusMagnitudeSum
      <3> QED  BY <1>11, <3>1, <3>3, <3>4, <3>5
    <2>3. CASE l.sign # w.sign /\ ~AtLeast(pos, neg)
      <3>1. sum = [mag |-> MinusMagnitude(neg, pos), sign |-> "-"]
        BY <2>3 DEF SignedSum, pos, neg
      <3>2. ~(P >= N) /\ AtLeast(neg, pos)
        <4>1. Value(pos) \in Nat /\ Value(neg) \in Nat
          BY <1>12, ValueIsNat
        <4>2. ~(P >= N)
          BY <1>12, <2>3, AtLeastValue
        <4>3. Value(neg) >= Value(pos)
          BY <1>12, <4>1, <4>2
        <4> QED  BY <1>12, <4>2, <4>3, AtLeastValue
      <3>3. sign(res.reg) = MinusChar /\ res.carry = 0 /\ Magnitude(res.reg, 2 * n) = N - P
        BY <1>6, <1>7, <1>10, <1>11, <2>3, <3>2
      <3>4. SignWord(lower') = "-"
        BY <1>5, <3>3 DEF SignWord, PlusChar, MinusChar
      <3>5. /\ MinusMagnitude(neg, pos).upper \in 0 .. WordBase - 1
            /\ MinusMagnitude(neg, pos).lower \in 0 .. WordBase - 1
            /\ MinusMagnitude(neg, pos).carry = 0
            /\ Value(MinusMagnitude(neg, pos)) = N - P
        BY <1>12, <3>2, MinusMagnitudeSum
      <3> QED  BY <1>11, <3>1, <3>3, <3>4, <3>5
    <2> QED  BY <2>1, <2>2, <2>3
  <1> HIDE DEF sum
  <1> DEFINE mag == sum.mag
  <1>14. /\ Magnitude(upper', n) = mag.upper /\ Magnitude(lower', n) = mag.lower
         /\ res.carry = mag.carry
    <2>1. /\ mag.upper \in 0 .. WordBase - 1 /\ mag.lower \in 0 .. WordBase - 1
          /\ mag.carry \in {0, 1} /\ res.carry \in 0 .. 1
          /\ Value(mag) + mag.carry * (WordBase * WordBase)
                = Magnitude(res.reg, 2 * n) + res.carry * (WordBase * WordBase)
      BY <1>13 DEF M
    <2> HIDE DEF mag
    <2> DEFINE v == upper'
               k == lower'
               e == res.reg
               c == res.carry
    <2>2. v \in Signed(n) /\ k \in Signed(n) /\ e \in Signed(2 * n)
          /\ Begins(e, n, v) /\ Goes_on(e, n, k)
      BY <1>4, <1>5
    <2>3. /\ c \in 0 .. 1
          /\ Value(mag) + mag.carry * (WordBase * WordBase)
                = Magnitude(e, 2 * n) + c * (WordBase * WordBase)
      BY <2>1
    <2> HIDE DEF v, k, e, c
    <2>4. Magnitude(v, n) = mag.upper /\ Magnitude(k, n) = mag.lower /\ c = mag.carry
      BY <2>1, <2>2, <2>3, SumUnique
    <2> QED  BY <2>4 DEF v, k, c
  <1>15. /\ Number(upper') = WordOf(Magnitude(upper', n), SignWord(upper'))
         /\ Number(lower') = WordOf(Magnitude(lower', n), SignWord(lower'))
    BY <1>5, NumberIs
  <1>16. SignWord(upper') = u.sign
    BY <1>2, <1>5 DEF SignWord
  <1>17. add_to_accumulator(u, l, w, to_upper) =
            [upper |-> WordOf(sum.mag.upper, u.sign),
             lower |-> WordOf(sum.mag.lower, sum.sign),
             carry |-> sum.mag.carry]
    BY DEF add_to_accumulator, sum, a, b
  <1>18. Number(upper') = WordOf(sum.mag.upper, u.sign)
         /\ Number(lower') = WordOf(sum.mag.lower, sum.sign)
         /\ carry' = sum.mag.carry
    BY <1>4, <1>13, <1>14, <1>15, <1>16
  <1> HIDE DEF u, l, w
  <1> DEFINE r == add_to_accumulator(u, l, w, to_upper)
  <1>19. r.upper = Number(upper') /\ r.lower = Number(lower') /\ r.carry = carry'
    BY <1>17, <1>18
  <1> HIDE DEF r
  <1>20. Spells(r) /\ carry' = r.carry
    BY <1>19 DEF Spells
  <1> QED  BY <1>20 DEF r, u, l, w

(* Shifting a number of double length by a place, half by half.               *)
LEMMA LeftHalves ==
    ASSUME NEW U \in 0 .. WordBase - 1, NEW L \in 0 .. WordBase - 1,
           NEW V \in 0 .. WordBase - 1, NEW K \in 0 .. WordBase - 1,
           NEW t \in 0 .. HighBase * WordBase - 1, NEW first \in 0 .. 9,
           U * WordBase + L = first * (HighBase * WordBase) + t,
           V * WordBase + K = 10 * t
    PROVE  /\ V = (U * Base + HighDigit(L)) % WordBase
           /\ K = (L * Base) % WordBase
  <1> DEFINE W == WordBase
             H == HighBase
             g == U \div H
             r == U % H
             h == L \div H
             s == L % H
  <1>1. W \in Nat \ {0} /\ H \in Nat \ {0} /\ W = 10 * H /\ U \in Nat /\ L \in Nat
    BY BaseFacts
  <1>2. /\ g \in Nat /\ r \in 0 .. H - 1 /\ U = H * g + r
        /\ h \in Nat /\ s \in 0 .. H - 1 /\ L = H * h + s
    <2> HIDE DEF H
    <2> QED  BY <1>1, DivMod
  <1>3. h \in 0 .. 9
    <2>1. L < 10 * H
      BY <1>1
    <2>2. h < 10
      <3> HIDE DEF H
      <3> QED  BY <1>1, <2>1, QuotientBound
    <2> QED  BY <1>2, <2>2
  <1>a. HighDigit(L) = h
    BY DEF HighDigit
  <1>b. /\ L \in 0 .. W - 1 /\ V \in 0 .. W - 1 /\ K \in 0 .. W - 1 /\ t \in 0 .. H * W - 1
        /\ U * W + L = first * (H * W) + t /\ V * W + K = 10 * t
    OBVIOUS
  <1> HIDE DEF W, H, g, r, h, s
  <1> DEFINE rW == r * W
             HW == H * W
             gW == g * W
             hW == h * W
  <1>4. rW \in Nat /\ rW + W <= HW /\ HW \in Nat \ {0}
    <2>1. (r + 1) * W <= H * W
      BY <1>1, <1>2
    <2>2. (r + 1) * W = r * W + W
      BY <1>1, <1>2
    <2> QED  BY <1>1, <1>2, <2>1, <2>2
  <1>5. U * W = g * HW + rW
    <2>1. U * W = (H * g) * W + r * W
      BY <1>1, <1>2
    <2>2. (H * g) * W = g * (H * W)
      BY <1>1, <1>2
    <2> QED  BY <2>1, <2>2
  <1>6. g = first /\ rW + L = t
    <2>1. rW + L \in 0 .. HW - 1 /\ t \in 0 .. HW - 1
      <3> HIDE DEF rW
      <3>1. t \in 0 .. HW - 1
        BY <1>b
      <3> HIDE DEF HW
      <3> QED  BY <1>1, <1>b, <1>4, <3>1
    <2>2. g * HW + (rW + L) = first * HW + t
      <3>1. U * W + L = first * HW + t
        BY <1>b
      <3>2. g * HW \in Nat /\ rW \in Nat /\ L \in Nat
        BY <1>1, <1>2, <1>4
      <3> DEFINE x == U * W
                 y == g * HW
                 z == first * HW + t
      <3>3. x + L = z /\ x = y + rW /\ y \in Nat
        BY <1>5, <3>1, <3>2
      <3> HIDE DEF x, y, z, rW
      <3>4. y + (rW + L) = z
        BY <3>2, <3>3
      <3> QED  BY <3>4 DEF y, z
    <2> HIDE DEF rW, HW
    <2>3. first \in Nat
      OBVIOUS
    <2> QED  BY <1>2, <1>4, <2>1, <2>2, <2>3, PairUnique
  <1>7. 10 * L = hW + 10 * s /\ 10 * U = gW + 10 * r /\ hW \in Nat /\ gW \in Nat
    <2>1. 10 * (H * h) = (10 * H) * h /\ 10 * (H * g) = (10 * H) * g
      BY <1>1, <1>2
    <2>2. hW = (10 * H) * h /\ gW = (10 * H) * g
      BY <1>1, <1>2
    <2>3. hW \in Nat /\ gW \in Nat
      BY <1>1, <1>2
    <2> DEFINE Hh == H * h
               Hg == H * g
    <2>4. Hh \in Nat /\ Hg \in Nat /\ L = Hh + s /\ U = Hg + r
          /\ 10 * Hh = hW /\ 10 * Hg = gW
      BY <1>1, <1>2, <2>1, <2>2
    <2> HIDE DEF Hh, Hg, hW, gW
    <2> QED  BY <1>2, <2>3, <2>4
  <1>8. 10 * s \in 0 .. W - 1 /\ 10 * r + h \in 0 .. W - 1
    BY <1>1, <1>2, <1>3
  <1>9. V = 10 * r + h /\ K = 10 * s
    <2>1. V * W + K = (10 * r + h) * W + 10 * s
      <3>1. (10 * r + h) * W = 10 * rW + hW
        BY <1>1, <1>2, <1>3
      <3>2. 10 * t = 10 * rW + 10 * L
        <4> HIDE DEF rW
        <4> QED  BY <1>1, <1>4, <1>6
      <3> DEFINE x == V * W + K
                 y == (10 * r + h) * W
      <3>3. x = 10 * t /\ y = 10 * rW + hW
        BY <1>b, <3>1
      <3> HIDE DEF x, y, rW, hW
      <3>4. x = y + 10 * s
        BY <1>2, <1>4, <1>7, <3>2, <3>3
      <3> QED  BY <3>4 DEF x, y
    <2> DEFINE p == 10 * r + h
               q == 10 * s
    <2>2. /\ W \in Nat \ {0} /\ V \in Nat /\ p \in Nat
          /\ K \in 0 .. W - 1 /\ q \in 0 .. W - 1
      BY <1>1, <1>b, <1>8
    <2>3. V * W + K = p * W + q
      BY <2>1
    <2> HIDE DEF p, q
    <2>4. V = p /\ K = q
      BY <2>2, <2>3, PairUnique
    <2> QED  BY <2>4 DEF p, q
  <1>10. (U * Base + h) % W = 10 * r + h
    <2> DEFINE x == 10 * r + h
               m == U * Base + h
    <2>1. m = gW + x
      <3> HIDE DEF gW
      <3> QED  BY <1>1, <1>2, <1>3, <1>7
    <2>2. /\ W \in Nat \ {0} /\ m = g * W + x
          /\ m \in Nat /\ g \in Int /\ x \in 0 .. W - 1
      BY <1>1, <1>2, <1>7, <1>8, <2>1
    <2> HIDE DEF x, m
    <2>3. m % W = x
      BY <2>2, DivisionUnique
    <2> QED  BY <2>3 DEF m, x
  <1>11. (L * Base) % W = 10 * s
    <2> DEFINE x == 10 * s
               m == L * Base
    <2>1. m = hW + x
      <3> HIDE DEF hW
      <3> QED  BY <1>1, <1>2, <1>3, <1>7
    <2>2. /\ W \in Nat \ {0} /\ m = h * W + x
          /\ m \in Nat /\ h \in Int /\ x \in 0 .. W - 1
      BY <1>1, <1>2, <1>7, <1>8, <2>1
    <2> HIDE DEF x, m
    <2>3. m % W = x
      BY <2>2, DivisionUnique
    <2> QED  BY <2>3 DEF m, x
  <1> QED  BY <1>9, <1>10, <1>11, <1>a DEF W

LEMMA RightHalves ==
    ASSUME NEW U \in 0 .. WordBase - 1, NEW L \in 0 .. WordBase - 1,
           NEW V \in 0 .. WordBase - 1, NEW K \in 0 .. WordBase - 1, NEW last \in 0 .. 9,
           U * WordBase + L = 10 * (V * WordBase + K) + last
    PROVE  V = U \div Base /\ K = (U % Base) * HighBase + L \div Base
  <1> DEFINE W == WordBase
             H == HighBase
             a == U \div Base
             b == U % Base
             c == L \div Base
             f == L % Base
             bH == b * H
             aW == a * W
             k == bH + c
             x == aW + k
             y == V * W + K
  <1>1. W \in Nat \ {0} /\ H \in Nat \ {0} /\ W = 10 * H /\ U \in Nat /\ L \in Nat
    BY BaseFacts
  <1>2. /\ a \in Nat /\ b \in 0 .. 9 /\ U = 10 * a + b
        /\ c \in Nat /\ f \in 0 .. 9 /\ L = 10 * c + f
    BY <1>1
  <1>3. /\ U \in 0 .. W - 1 /\ L \in 0 .. W - 1 /\ V \in 0 .. W - 1 /\ K \in 0 .. W - 1
        /\ U * W + L = 10 * y + last
    OBVIOUS
  <1> HIDE DEF W, H, a, b, c, f
  <1>4. a \in 0 .. W - 1 /\ c \in 0 .. H - 1
    BY <1>1, <1>2, <1>3
  <1>5. bH \in Nat /\ bH <= 9 * H /\ b * W = 10 * bH
    BY <1>1, <1>2
  <1>6. k \in 0 .. W - 1
    <2> HIDE DEF bH
    <2> QED  BY <1>1, <1>4, <1>5
  <1>7. U * W + L = 10 * x + f
    <2>1. U * W = 10 * aW + b * W /\ aW \in Nat
      BY <1>1, <1>2
    <2> DEFINE z == U * W
    <2>2. z = 10 * aW + 10 * bH
      BY <1>5, <2>1
    <2> HIDE DEF z, aW, bH
    <2>3. z + L = 10 * x + f
      BY <1>2, <1>5, <2>1, <2>2
    <2> QED  BY <2>3 DEF z
  <1>8. x \in Nat /\ y \in Nat
    <2>1. aW \in Nat
      BY <1>1, <1>2
    <2>2. V * W \in Nat /\ K \in Nat
      BY <1>1, <1>3
    <2> HIDE DEF aW, k
    <2> QED  BY <1>6, <2>1, <2>2
  <1>9. x = y
    <2> DEFINE z == U * W + L
    <2>1. z = 10 * x + f /\ z = 10 * y + last
      BY <1>3, <1>7
    <2> HIDE DEF x, y, z
    <2> QED  BY <1>2, <1>8, <2>1
  <1>10. V = a /\ K = k
    <2>1. V * W + K = a * W + k
      BY <1>9
    <2>2. V \in Nat
      BY <1>3
    <2> HIDE DEF k
    <2> QED  BY <1>1, <1>2, <1>3, <1>6, <2>1, <2>2, PairUnique
  <1> QED  BY <1>10 DEF a, b, c, H

LEMMA DoubleWeight ==
    /\ 2 * WordSize \in Nat \ {0}
    /\ Weight[2 * WordSize - 1] = HighBase * WordBase
  <1> DEFINE k == 2 * WordSize - 1
             x == Weight[k]
             y == HighBase * WordBase
  <1>1. 2 * WordSize \in Nat \ {0} /\ k \in Nat /\ k + 1 = 2 * WordSize
    BY Sizes
  <1>2. Weight[k + 1] = 10 * x /\ x \in Nat
    <2> HIDE DEF k
    <2> QED  BY <1>1, WeightAt
  <1>3. WordBase * WordBase = 10 * y /\ y \in Nat
    BY BaseFacts
  <1>4. 10 * x = 10 * y
    BY <1>1, <1>2, <1>3, Sizes
  <1> HIDE DEF x, y
  <1>5. x = y
    BY <1>2, <1>3, <1>4
  <1> QED  BY <1>1, <1>5 DEF x, y, k

LEMMA ShiftComputes ==
    ASSUME DigitTypes, NEW k \in {-1, 1}, DigitShift(k)
    PROVE  Spells(IF k = 1 THEN ShiftLeft(Number(upper), Number(lower))
                  ELSE ShiftRight(Number(upper), Number(lower)))
  <1> DEFINE n == WordSize
             m == 2 * WordSize
             accum == shift(Joined, k)
             d == Figures(Joined, m)
             e == Figures(accum, m)
             U == Magnitude(upper, n)
             L == Magnitude(lower, n)
             V == Magnitude(upper', n)
             K == Magnitude(lower', n)
  <1>1. upper \in Signed(n) /\ lower \in Signed(n) /\ n \in Nat /\ m \in Nat /\ m \in Nat \ {0}
    BY Sizes, DoubleWeight DEF DigitTypes
  <1>2. /\ Joined \in Signed(m) /\ Begins(Joined, n, upper) /\ Goes_on(Joined, n, lower)
    BY <1>1, JoinedIs
  <1>3. accum \in Signed(m) /\ sign(accum) = sign(lower) /\ Split(accum)
    BY ShiftedIs DEF DigitShift
  <1>4. /\ upper' \in Signed(n) /\ lower' \in Signed(n)
        /\ sign(upper') = sign(upper) /\ sign(lower') = sign(lower)
        /\ Begins(accum, n, upper') /\ Goes_on(accum, n, lower')
    <2> HIDE DEF accum
    <2> QED  BY <1>3, SplitIs
  <1>5. /\ U \in 0 .. WordBase - 1 /\ L \in 0 .. WordBase - 1
        /\ V \in 0 .. WordBase - 1 /\ K \in 0 .. WordBase - 1
        /\ Number(upper') = WordOf(V, SignWord(upper)) /\ Number(lower') = WordOf(K, SignWord(lower))
        /\ Mag(Number(upper)) = U /\ Mag(Number(lower)) = L
        /\ Number(upper).sign = SignWord(upper) /\ Number(lower).sign = SignWord(lower)
    BY <1>1, <1>4, NumberIs DEF SignWord
  <1>6. Spelt(d, m) = U * WordBase + L
    <2>1. Magnitude(Joined, m) = U * WordBase + L
      BY <1>1, <1>2, JoinedMagnitude
    <2> QED  BY <2>1 DEF Magnitude
  <1>7. Spelt(e, m) = V * WordBase + K
    <2> HIDE DEF accum
    <2>1. Magnitude(accum, m) = V * WordBase + K
      BY <1>3, <1>4, JoinedMagnitude
    <2> QED  BY <2>1 DEF Magnitude
  <1>8. d \in Decimals(m) /\ e \in Decimals(m)
    BY <1>1, <1>2, <1>3, MagnitudeRange
  <1>9. \A i \in 1 .. m : d[i] = dec(Joined[i]) /\ e[i] = dec(accum[i])
    BY DEF Figures
  <1>a. m \in 1 .. m /\ 1 \in 1 .. m /\ 1 \in 0 .. m
    BY <1>1
  <1>b. Weight[m - 1] = HighBase * WordBase
    BY DoubleWeight
  <1>c. dec(bin(0)) = 0
    BY BinDec
  <1>10. CASE k = 1
    <2>1. \A i \in 1 .. m : accum[i] = IF i + 1 <= m THEN Joined[i + 1] ELSE bin(0)
      BY <1>1, <1>2, <1>a, <1>10, ShiftLeftIs
    <2> HIDE DEF m, accum, d, e
    <2>2. e[m] = 0 /\ Moved(e, d, m)
      <3>1. e[m] = 0
        BY <1>1, <1>9, <1>a, <1>c, <2>1
      <3>2. ASSUME NEW i \in 1 .. m - 1 PROVE e[i] = d[i + 1]
        <4>1. i \in 1 .. m /\ i + 1 \in 1 .. m /\ i + 1 <= m
          BY <1>1
        <4> QED  BY <1>9, <2>1, <4>1
      <3> QED  BY <3>1, <3>2 DEF Moved
    <2>3. PICK t \in 0 .. Weight[m - 1] - 1 :
             Spelt(d, m) = d[1] * Weight[m - 1] + t /\ Spelt(e, m) = base * t + e[m]
      BY <1>1, <1>8, <2>2, MovedSpelt
    <2>4. d[1] \in 0 .. 9 /\ t \in 0 .. HighBase * WordBase - 1 /\ t \in Nat
      <3>1. HighBase * WordBase \in Nat
        BY BaseFacts
      <3>2. d[1] \in 0 .. 9
        BY <1>8, <1>a DEF Decimals
      <3>3. t \in 0 .. HighBase * WordBase - 1
        BY <1>b, <2>3
      <3> HIDE DEF d
      <3> QED  BY <3>1, <3>2, <3>3
    <2>5. /\ U * WordBase + L = d[1] * (HighBase * WordBase) + t
          /\ V * WordBase + K = 10 * t
      <3>1. base * t + e[m] = 10 * t
        BY <2>2, <2>4
      <3> QED  BY <1>6, <1>7, <1>b, <2>3, <3>1
    <2> HIDE DEF U, L, V, K
    <2>6. V = (U * Base + HighDigit(L)) % WordBase /\ K = (L * Base) % WordBase
      BY <1>5, <2>4, <2>5, LeftHalves
    <2> QED  BY <1>5, <1>10, <2>6 DEF Spells, ShiftLeft
  <1>11. CASE k = -1
    <2>1. \A i \in 1 .. m : accum[i] = IF i <= 1 THEN bin(0) ELSE Joined[i - 1]
      BY <1>1, <1>2, <1>a, <1>11, ShiftRightIs
    <2> HIDE DEF m, accum, d, e
    <2>2. e[1] = 0 /\ Moved(d, e, m)
      <3>1. e[1] = 0
        BY <1>1, <1>9, <1>a, <1>c, <2>1
      <3>2. ASSUME NEW i \in 1 .. m - 1 PROVE d[i] = e[i + 1]
        <4>1. i \in 1 .. m /\ i + 1 \in 1 .. m /\ ~(i + 1 <= 1) /\ (i + 1) - 1 = i
          BY <1>1
        <4> QED  BY <1>9, <2>1, <4>1
      <3> QED  BY <3>1, <3>2 DEF Moved
    <2>3. PICK t \in 0 .. Weight[m - 1] - 1 :
             Spelt(e, m) = e[1] * Weight[m - 1] + t /\ Spelt(d, m) = base * t + d[m]
      BY <1>1, <1>8, <2>2, MovedSpelt
    <2>4. d[m] \in 0 .. 9
      BY <1>8, <1>a DEF Decimals
    <2>5. U * WordBase + L = 10 * (V * WordBase + K) + d[m]
      <3>1. e[1] * Weight[m - 1] = 0
        <4>1. Weight[m - 1] \in Nat
          BY <1>b, BaseFacts
        <4> QED  BY <2>2, <4>1
      <3>2. Spelt(e, m) = t
        BY <2>3, <3>1
      <3> QED  BY <1>6, <1>7, <2>3, <3>2
    <2> HIDE DEF U, L, V, K
    <2>6. V = U \div Base /\ K = (U % Base) * HighBase + L \div Base
      BY <1>5, <2>4, <2>5, RightHalves
    <2> QED  BY <1>5, <1>11, <2>6 DEF Spells, ShiftRight
  <1> QED  BY <1>10, <1>11

(* The loops over digits, the joining of the halves and the copying back make  *)
(* of the registers what module Accumulator says of their numbers, for words   *)
(* of every length.                                                          *)
THEOREM DigitsAlwaysCompute == DigitSpec => DigitsComputeNumbers
  <1> DEFINE Computes ==
        LET u == Number(upper)
            l == Number(lower)
        IN  /\ \A reg \in Operands, to_upper \in BOOLEAN : DigitAdd(reg, to_upper) =>
                  LET sum == add_to_accumulator(u, l, Number(reg), to_upper)
                  IN  Spells(sum) /\ carry' = sum.carry
            /\ DigitShift(1) => Spells(ShiftLeft(u, l))
            /\ DigitShift(-1) => Spells(ShiftRight(u, l))
  <1>1. DigitTypes => Computes
    <2> SUFFICES ASSUME DigitTypes PROVE Computes
      OBVIOUS
    <2>1. ASSUME NEW reg \in Operands, NEW to_upper \in BOOLEAN, DigitAdd(reg, to_upper)
          PROVE  LET sum == add_to_accumulator(Number(upper), Number(lower), Number(reg),
                                               to_upper)
                 IN  Spells(sum) /\ carry' = sum.carry
      <3>1. reg \in Signed(WordSize)
        BY OperandsAre DEF DigitTypes
      <3> QED  BY <2>1, <3>1, AddComputes
    <2>2. DigitShift(1) => Spells(ShiftLeft(Number(upper), Number(lower)))
      <3>1. 1 \in {-1, 1}
        OBVIOUS
      <3> QED  BY <3>1, ShiftComputes
    <2>3. DigitShift(-1) => Spells(ShiftRight(Number(upper), Number(lower)))
      <3>1. -1 \in {-1, 1} /\ -1 # 1
        OBVIOUS
      <3> QED  BY <3>1, ShiftComputes
    <2> QED  BY <2>1, <2>2, <2>3, Zenon
  <1>2. DigitTypes /\ [DigitNext]_dvars => [Computes]_dvars
    <2> HIDE DEF Computes
    <2> QED  BY <1>1
  <1> QED  BY <1>2, DigitTypesHold, PTL DEF DigitSpec, DigitsComputeNumbers

----------------------------------------------------------------------------
(* The comparison of digits one after the other is that of numbers.           *)
FirstLess(d, e, m) == \E i \in 1 .. m : d[i] < e[i] /\ \A j \in 1 .. i - 1 : d[j] = e[j]

LEMMA FirstLessStep ==
    ASSUME NEW d, NEW e, NEW m \in Nat
    PROVE  /\ FirstLess(d, e, m + 1) <=>
                 FirstLess(d, e, m) \/ (Agree(d, e, m) /\ d[m + 1] < e[m + 1])
           /\ Agree(d, e, m + 1) <=> Agree(d, e, m) /\ d[m + 1] = e[m + 1]
  <1>1. \A i : i \in 1 .. m + 1 <=> i \in 1 .. m \/ i = m + 1
    OBVIOUS
  <1>2. \A j : j \in 1 .. (m + 1) - 1 <=> j \in 1 .. m
    OBVIOUS
  <1>3. Agree(d, e, m + 1) <=> Agree(d, e, m) /\ d[m + 1] = e[m + 1]
    BY <1>1, Zenon DEF Agree
  <1>4. FirstLess(d, e, m + 1) <=>
           FirstLess(d, e, m) \/ (Agree(d, e, m) /\ d[m + 1] < e[m + 1])
    <2> DEFINE P(i) == d[i] < e[i] /\ \A j \in 1 .. i - 1 : d[j] = e[j]
    <2>1. P(m + 1) <=> d[m + 1] < e[m + 1] /\ Agree(d, e, m)
      BY <1>2, Zenon DEF Agree
    <2>2. \A k : FirstLess(d, e, k) <=> \E i \in 1 .. k : P(i)
      BY Zenon DEF FirstLess
    <2> HIDE DEF P
    <2> QED  BY <1>1, <2>1, <2>2, Zenon
  <1> QED  BY <1>3, <1>4

LEMMA OrderStep ==
    ASSUME NEW T \in Nat, NEW U \in Nat, NEW x \in 0 .. 9, NEW y \in 0 .. 9
    PROVE  /\ base * T + x < base * U + y <=> T < U \/ (T = U /\ x < y)
           /\ base * T + x = base * U + y <=> T = U /\ x = y
  OBVIOUS

LEMMA SpeltOrders ==
    ASSUME NEW k \in Nat, NEW d \in Decimals(k), NEW e \in Decimals(k)
    PROVE  /\ Spelt(d, k) < Spelt(e, k) <=> FirstLess(d, e, k)
           /\ Spelt(d, k) = Spelt(e, k) <=> Agree(d, e, k)
  <1>1. PICK T : Prefixes(T, d, k)
    BY PrefixesExist
  <1>2. PICK U : Prefixes(U, e, k)
    BY PrefixesExist
  <1> DEFINE S == {m \in Nat : m <= k => /\ T[m] < U[m] <=> FirstLess(d, e, m)
                                         /\ T[m] = U[m] <=> Agree(d, e, m)}
  <1>3. 0 \in S
    <2>1. T[0] = 0 /\ U[0] = 0
      BY <1>1, <1>2 DEF Prefixes
    <2>2. Agree(d, e, 0) /\ ~FirstLess(d, e, 0)
      <3>1. \A i : i \notin 1 .. 0
        OBVIOUS
      <3> QED  BY <3>1, Zenon DEF Agree, FirstLess
    <2>3. /\ T[0] < U[0] <=> FirstLess(d, e, 0)
          /\ T[0] = U[0] <=> Agree(d, e, 0)
      BY <2>1, <2>2
    <2> QED  BY <2>3
  <1>4. ASSUME NEW m \in Nat, m \in S PROVE m + 1 \in S
    <2>1. CASE m + 1 <= k
      <3>1. m + 1 \in 1 .. k /\ m \in 0 .. k /\ (m + 1) - 1 = m /\ m <= k
        BY <2>1
      <3>2. T[m + 1] = base * T[m] + d[m + 1] /\ U[m + 1] = base * U[m] + e[m + 1]
        BY <1>1, <1>2, <3>1 DEF Prefixes
      <3>3. T[m] \in Nat /\ U[m] \in Nat /\ d[m + 1] \in 0 .. 9 /\ e[m + 1] \in 0 .. 9
        BY <1>1, <1>2, <3>1 DEF Prefixes, Decimals
      <3>4. /\ T[m] < U[m] <=> FirstLess(d, e, m)
            /\ T[m] = U[m] <=> Agree(d, e, m)
        BY <1>4, <3>1
      <3> DEFINE t == T[m]
                 u == U[m]
                 x == d[m + 1]
                 y == e[m + 1]
                 tt == T[m + 1]
                 uu == U[m + 1]
                 before == FirstLess(d, e, m)
                 same == Agree(d, e, m)
      <3>5. /\ FirstLess(d, e, m + 1) <=> before \/ (same /\ x < y)
            /\ Agree(d, e, m + 1) <=> same /\ x = y
        BY FirstLessStep
      <3>a. /\ tt = base * t + x /\ uu = base * u + y
            /\ t \in Nat /\ u \in Nat /\ x \in 0 .. 9 /\ y \in 0 .. 9
            /\ t < u <=> before
            /\ t = u <=> same
        BY <3>2, <3>3, <3>4
      <3> HIDE DEF t, u, x, y, tt, uu, before, same
      <3>b. /\ tt < uu <=> t < u \/ (t = u /\ x < y)
            /\ tt = uu <=> t = u /\ x = y
        BY <3>a, OrderStep
      <3>c. /\ tt < uu <=> FirstLess(d, e, m + 1)
            /\ tt = uu <=> Agree(d, e, m + 1)
        BY <3>5, <3>a, <3>b, Zenon
      <3>6. /\ T[m + 1] < U[m + 1] <=> FirstLess(d, e, m + 1)
            /\ T[m + 1] = U[m + 1] <=> Agree(d, e, m + 1)
        BY <3>c DEF tt, uu
      <3> QED  BY <3>6
    <2>2. CASE ~(m + 1 <= k)
      BY <2>2
    <2> QED  BY <2>1, <2>2
  <1> HIDE DEF S
  <1>5. Nat \subseteq S
    BY <1>3, <1>4, Induction
  <1>6. /\ T[k] < U[k] <=> FirstLess(d, e, k)
        /\ T[k] = U[k] <=> Agree(d, e, k)
    BY <1>5 DEF S
  <1>7. Spelt(d, k) = T[k] /\ Spelt(e, k) = U[k]
    BY <1>1, <1>2, SpeltIs
  <1> QED  BY <1>6, <1>7

(* The digits of a word below the first, and what they spell.                  *)
LowDigits(reg) == [i \in 1 .. WordSize - 1 |-> dec(reg[i + 1])]

LEMMA LowDigitsSpell ==
    ASSUME NEW reg \in Signed(WordSize)
    PROVE  /\ LowDigits(reg) \in Decimals(WordSize - 1)
           /\ Mag(Number(reg)) % HighBase = Spelt(LowDigits(reg), WordSize - 1)
  <1> DEFINE n == WordSize
             k == WordSize - 1
             d == Figures(reg, n)
             x == [i \in 1 .. 1 |-> d[1]]
             t == LowDigits(reg)
  <1>1. n \in Nat /\ k \in Nat /\ n = 1 + k /\ n = k + 1 /\ 1 \in Nat
    BY Sizes
  <1>2. d \in Decimals(n) /\ Mag(Number(reg)) = Spelt(d, n)
    BY <1>1, MagnitudeRange, NumberIs DEF Magnitude
  <1>3. \A i \in 1 .. k : t[i] = d[1 + i]
    BY <1>1 DEF LowDigits, Figures
  <1> HIDE DEF d, t, n, k
  <1>4. t \in Decimals(k)
    <2>1. \A i \in 1 .. k : t[i] \in 0 .. 9
      <3>1. ASSUME NEW i \in 1 .. k PROVE t[i] \in 0 .. 9
        <4>1. 1 + i \in 1 .. n
          BY <1>1
        <4>2. d[1 + i] \in 0 .. 9
          BY <1>2, <4>1 DEF Decimals
        <4> QED  BY <1>3, <4>2
      <3> QED  BY <3>1
    <2>2. t = [i \in 1 .. k |-> t[i]]
      BY DEF t, k, LowDigits
    <2> QED  BY <2>1, <2>2 DEF Decimals
  <1>5. x \in Decimals(1) /\ Agree(x, d, 1) /\ Spelt(x, 1) = d[1] /\ d[1] \in 0 .. 9
    <2>1. d[1] \in 0 .. 9
      <3>1. 1 \in 1 .. n
        BY <1>1
      <3> QED  BY <1>2, <3>1 DEF Decimals
    <2>2. x \in Decimals(1) /\ Agree(x, d, 1) /\ x[1] = d[1]
      BY <2>1 DEF Decimals, Agree
    <2> HIDE DEF x
    <2> QED  BY <2>1, <2>2, OneSpelt
  <1> HIDE DEF x
  <1>6. Spelt(d, n) = d[1] * Weight[k] + Spelt(t, k)
    <2>1. d \in Decimals(1 + k)
      BY <1>1, <1>2
    <2>2. Spelt(d, 1 + k) = Spelt(x, 1) * Weight[k] + Spelt(t, k)
      BY <1>1, <1>3, <1>4, <1>5, <2>1, JoinedSpelt
    <2> QED  BY <1>1, <1>5, <2>2
  <1>7. Weight[k] = HighBase
    <2>1. Weight[k + 1] = 10 * Weight[k] /\ Weight[k] \in Nat
      BY <1>1, WeightAt
    <2>2. Weight[k + 1] = WordBase
      BY <1>1, Sizes DEF n
    <2>3. WordBase = 10 * HighBase /\ HighBase \in Nat
      BY BaseFacts
    <2> QED  BY <2>1, <2>2, <2>3
  <1>8. Spelt(t, k) \in 0 .. Weight[k] - 1
    BY <1>1, <1>4, SpeltRange
  <1> DEFINE H == HighBase
             m == Spelt(d, n)
             r == Spelt(t, k)
             q == d[1]
  <1>9. H \in Nat \ {0} /\ q \in Int /\ r \in 0 .. H - 1 /\ m \in Nat /\ m = q * H + r
    <2>1. H \in Nat \ {0} /\ q \in Int /\ r \in 0 .. H - 1 /\ m = q * H + r
      BY <1>5, <1>6, <1>7, <1>8, BaseFacts
    <2>2. m \in Nat
      BY <1>1, <1>2, SpeltRange
    <2> QED  BY <2>1, <2>2
  <1> HIDE DEF H, m, r, q
  <1>10. m % H = r
    BY <1>9, DivisionUnique
  <1> QED  BY <1>2, <1>4, <1>10 DEF H, m, r, t, k

LEMMA LessIs ==
    ASSUME NEW l \in Signed(WordSize), NEW r \in Signed(WordSize)
    PROVE  less(l, r) <=> Less(Number(l), Number(r))
  <1> DEFINE n == WordSize
             k == WordSize - 1
             d == LowDigits(l)
             e == LowDigits(r)
  <1>1. n \in Nat /\ k \in Nat /\ n = k + 1 /\ n + 1 \in Nat
    BY Sizes
  <1>2. /\ Len(l) = n + 1 /\ (\A i \in 1 .. n + 1 : l[i] \in DigitCodes)
        /\ Len(r) = n + 1 /\ (\A i \in 1 .. n + 1 : r[i] \in DigitCodes)
        /\ sign(l) \in SignChars /\ l[n + 1] = bin(sign(l))
        /\ sign(r) \in SignChars /\ r[n + 1] = bin(sign(r))
    BY <1>1, SignedIs
  <1>3. \A i \in 1 .. k : d[i] = dec(l[i + 1]) /\ e[i] = dec(r[i + 1])
    BY DEF LowDigits
  <1>4. /\ d \in Decimals(k) /\ e \in Decimals(k)
        /\ Mag(Number(l)) % HighBase = Spelt(d, k)
        /\ Mag(Number(r)) % HighBase = Spelt(e, k)
    BY LowDigitsSpell
  <1>5. /\ Number(l).sign = "-" <=> sign(l) = MinusChar
        /\ Number(r).sign = "+" <=> sign(r) = PlusChar
    BY SignWords, NumberIs
  <1> HIDE DEF n, k, d, e
  <1>6. ASSUME NEW i \in 1 .. k
        PROVE  /\ d[i] < e[i] <=> l[i + 1] < r[i + 1]
               /\ d[i] = e[i] <=> l[i + 1] = r[i + 1]
    <2>1. i + 1 \in 1 .. n + 1
      BY <1>1
    <2>2. l[i + 1] \in DigitCodes /\ r[i + 1] \in DigitCodes
      BY <1>2, <2>1
    <2> QED  BY <1>3, <2>2, CodesOrdered
  <1>7. l[n + 1] < r[n + 1] <=> sign(l) = MinusChar /\ sign(r) = PlusChar
    BY <1>2, BinIs DEF SignChars, PlusChar, MinusChar
  <1>8. ASSUME NEW i \in 0 .. k
        PROVE  Agree(d, e, i) <=> \A j \in 2 .. i + 1 : l[j] = r[j]
    <2>1. ASSUME Agree(d, e, i), NEW j \in 2 .. i + 1 PROVE l[j] = r[j]
      <3>1. j - 1 \in 1 .. i /\ j - 1 \in 1 .. k /\ (j - 1) + 1 = j
        BY <1>1
      <3>2. d[j - 1] = e[j - 1]
        BY <2>1, <3>1 DEF Agree
      <3>3. l[(j - 1) + 1] = r[(j - 1) + 1]
        BY <1>6, <3>1, <3>2
      <3> QED  BY <3>1, <3>3
    <2>2. ASSUME \A j \in 2 .. i + 1 : l[j] = r[j], NEW j \in 1 .. i PROVE d[j] = e[j]
      <3>1. j + 1 \in 2 .. i + 1 /\ j \in 1 .. k
        BY <1>1
      <3>2. l[j + 1] = r[j + 1]
        BY <2>2, <3>1
      <3> QED  BY <1>6, <3>1, <3>2
    <2> QED  BY <2>1, <2>2 DEF Agree
  <1>9. less(l, r) <=>
           FirstLess(d, e, k) \/ (Agree(d, e, k) /\ l[n + 1] < r[n + 1])
    <2> DEFINE At(i) == l[i] < r[i] /\ \A j \in 2 .. i - 1 : l[j] = r[j]
    <2>1. less(l, r) <=> \E i \in 2 .. n + 1 : At(i)
      BY <1>2 DEF less
    <2>2. ASSUME NEW i \in 1 .. k
          PROVE  At(i + 1) <=> d[i] < e[i] /\ \A j \in 1 .. i - 1 : d[j] = e[j]
      <3> DEFINE p == i - 1
      <3>1. p \in 0 .. k /\ p + 1 = i /\ (i + 1) - 1 = i
        BY <1>1
      <3> HIDE DEF p
      <3>2. Agree(d, e, p) <=> \A j \in 2 .. p + 1 : l[j] = r[j]
        BY <1>8, <3>1
      <3>3. At(i + 1) <=> l[i + 1] < r[i + 1] /\ \A j \in 2 .. p + 1 : l[j] = r[j]
        BY <3>1
      <3>4. Agree(d, e, p) <=> \A j \in 1 .. i - 1 : d[j] = e[j]
        BY DEF Agree, p
      <3> HIDE DEF At
      <3> QED  BY <1>6, <3>2, <3>3, <3>4, Zenon
    <2>3. At(n + 1) <=> Agree(d, e, k) /\ l[n + 1] < r[n + 1]
      <3>1. (n + 1) - 1 = k + 1 /\ k \in 0 .. k
        BY <1>1
      <3> QED  BY <1>8, <3>1
    <2> HIDE DEF At
    <2>4. ASSUME NEW i \in 2 .. n + 1, At(i)
          PROVE  FirstLess(d, e, k) \/ (Agree(d, e, k) /\ l[n + 1] < r[n + 1])
      <3>1. CASE i = n + 1
        BY <2>3, <2>4, <3>1
      <3>2. CASE i # n + 1
        <4> DEFINE p == i - 1
        <4>1. p \in 1 .. k /\ p + 1 = i
          BY <1>1, <3>2
        <4> HIDE DEF p
        <4> QED  BY <2>2, <2>4, <4>1 DEF FirstLess
      <3> QED  BY <3>1, <3>2
    <2>5. ASSUME FirstLess(d, e, k) PROVE \E i \in 2 .. n + 1 : At(i)
      <3>1. PICK i \in 1 .. k : d[i] < e[i] /\ \A j \in 1 .. i - 1 : d[j] = e[j]
        BY <2>5 DEF FirstLess
      <3>2. i + 1 \in 2 .. n + 1 /\ At(i + 1)
        BY <1>1, <2>2, <3>1
      <3> QED  BY <3>2
    <2>6. ASSUME Agree(d, e, k), l[n + 1] < r[n + 1] PROVE \E i \in 2 .. n + 1 : At(i)
      <3>1. n + 1 \in 2 .. n + 1
        BY <1>1
      <3> QED  BY <2>3, <2>6, <3>1
    <2> QED  BY <2>1, <2>4, <2>5, <2>6
  <1>10. /\ Spelt(d, k) < Spelt(e, k) <=> FirstLess(d, e, k)
         /\ Spelt(d, k) = Spelt(e, k) <=> Agree(d, e, k)
    BY <1>1, <1>4, SpeltOrders
  <1> DEFINE u == Number(l)
             v == Number(r)
  <1>11. Less(u, v) <=>
            \/ Mag(u) % HighBase < Mag(v) % HighBase
            \/ Mag(u) % HighBase = Mag(v) % HighBase /\ u.sign = "-" /\ v.sign = "+"
    BY Zenon DEF Less
  <1>12. Less(u, v) <=>
            \/ Spelt(d, k) < Spelt(e, k)
            \/ Spelt(d, k) = Spelt(e, k) /\ sign(l) = MinusChar /\ sign(r) = PlusChar
    BY <1>4, <1>5, <1>11, Zenon
  <1> QED  BY <1>7, <1>9, <1>10, <1>12, Zenon

(* less, which compares codes from the second digit to the sign, orders words  *)
(* of every length by their digits below the first and then by their signs.    *)
THEOREM LessAlwaysOrders == DigitSpec => []LessOrdersLowDigits
  <1>1. DigitTypes => LessOrdersLowDigits
    <2> SUFFICES ASSUME DigitTypes PROVE LessOrdersLowDigits
      OBVIOUS
    <2>1. \A reg \in {upper, lower, distributor} : reg \in Signed(WordSize)
      BY DEF DigitTypes
    <2> QED  BY <2>1, LessIs, Zenon DEF LessOrdersLowDigits
  <1> QED  BY <1>1, DigitTypesHold, PTL

----------------------------------------------------------------------------
(* The columns of a card.                                                     *)
LEMMA DigitOfColumn ==
    ASSUME NEW digit \in 0 .. 9, NEW signs \in SUBSET {MinusRow, PlusRow}
    PROVE  ColumnDigit({digit} \cup signs) = digit
  <1> DEFINE rows == (({digit} \cup signs) \cap 0 .. 9) \cup {10}
  <1>1. \A x \in signs : x \notin 0 .. 9
    BY DEF MinusRow, PlusRow
  <1>2. rows = {digit, 10}
    BY <1>1
  <1>3. digit \in rows /\ (\A y \in rows : digit <= y) /\ \A x \in rows : x \in Int
    BY <1>2
  <1>4. \A x \in rows : (\A y \in rows : x <= y) => x = digit
    BY <1>3
  <1>5. Min(rows) = digit
    <2> HIDE DEF rows
    <2> QED  BY <1>3, <1>4 DEF Min
  <1> QED  BY <1>5 DEF ColumnDigit

(* The column of digit j of word i.                                           *)
Column(i, j) == (i - 1) * WordSize + j

LEMMA ColumnIs ==
    ASSUME NEW i \in 1 .. card_words, NEW j \in 1 .. WordSize
    PROVE  /\ Column(i, j) \in 1 .. card_words * WordSize
           /\ WordOfColumn(Column(i, j), WordSize) = i
           /\ ((Column(i, j) - 1) % WordSize) + 1 = j
           /\ Column(i, j) % WordSize # 0 <=> j # WordSize
  <1> DEFINE n == WordSize
             x == (i - 1) * n
             c == x + j
             p == i - 1
             q == j - 1
  <1>1. n \in Nat \ {0} /\ n \in Nat /\ p \in 0 .. 7 /\ q \in 0 .. n - 1
    BY Sizes DEF card_words
  <1>2. x = p * n /\ x \in Nat /\ x <= 7 * n
    <2> HIDE DEF n
    <2> QED  BY <1>1 DEF card_words
  <1>3. /\ c \in 1 .. 8 * n /\ c - 1 = x + q /\ c - 1 \in Nat /\ c \in Nat
        /\ (j = n => c = x + n)
    <2> HIDE DEF x
    <2> QED  BY <1>1, <1>2
  <1>4. (c - 1) \div n = p /\ (c - 1) % n = q
    <2> DEFINE m == c - 1
    <2>1. m = p * n + q /\ m \in Nat /\ p \in Int
      BY <1>1, <1>2, <1>3
    <2> HIDE DEF m, p, q, n
    <2>2. m \div n = p /\ m % n = q
      BY <1>1, <2>1, DivisionUnique
    <2> QED  BY <2>2 DEF m
  <1>5. c % n # 0 <=> j # n
    <2>1. CASE j = n
      <3> DEFINE r == p + 1
      <3>1. r \in Int /\ r * n = p * n + n
        <4> HIDE DEF n
        <4> QED  BY <1>1
      <3>2. c = r * n + 0 /\ 0 \in 0 .. n - 1
        <4>1. 0 \in 0 .. n - 1
          BY <1>1
        <4>2. c = x + n /\ x = p * n /\ x \in Nat
          BY <1>2, <1>3, <2>1
        <4> HIDE DEF c, x, r, n, p
        <4> QED  BY <1>1, <3>1, <4>1, <4>2
      <3> HIDE DEF c, r, n
      <3>3. c % n = 0
        BY <1>1, <1>3, <3>1, <3>2, DivisionUnique
      <3> QED  BY <2>1, <3>3
    <2>2. CASE j # n
      <3>1. c = p * n + j /\ p \in Int /\ j \in 0 .. n - 1
        BY <1>1, <1>2, <2>2
      <3> HIDE DEF c, p, n
      <3>2. c % n = j
        BY <1>1, <1>3, <3>1, DivisionUnique
      <3> QED  BY <2>2, <3>2
    <2> QED  BY <2>1, <2>2
  <1>6. Column(i, j) = c /\ card_words * WordSize = 8 * n
    BY DEF Column, card_words
  <1> HIDE DEF c, n, x
  <1>7. WordOfColumn(c, n) = i
    BY <1>4 DEF WordOfColumn
  <1> QED  BY <1>3, <1>4, <1>5, <1>6, <1>7 DEF n

(* The words of a card, punched and read.                                     *)
LEMMA CardKeeps ==
    ASSUME NEW buffer \in [1 .. card_words -> Signed(WordSize)]
    PROVE  SubSeq(card_to_buffer(buffer_to_card(buffer, WordSize), WordSize), 1, card_words)
              = buffer
  <1> DEFINE n == WordSize
             card == buffer_to_card(buffer, n)
             back == card_to_buffer(card, n)
             Row(word) == IF sign(word) = PlusChar THEN PlusRow ELSE MinusRow
  <1>1. n \in Nat /\ n \in Nat \ {0} /\ n \in 1 .. n
    BY Sizes
  <1>2. ASSUME NEW i \in 1 .. card_words, NEW j \in 1 .. n
        PROVE  card[Column(i, j)] =
                  {dec(buffer[i][j])} \cup (IF j # n THEN {} ELSE {Row(buffer[i])})
    <2> DEFINE c == Column(i, j)
    <2>1. /\ c \in 1 .. card_words * n /\ WordOfColumn(c, n) = i
          /\ ((c - 1) % n) + 1 = j /\ (c % n # 0 <=> j # n)
      BY ColumnIs
    <2> HIDE DEF c, n
    <2>2. card[c] =
             LET word == buffer[WordOfColumn(c, n)]
             IN  {dec(word[((c - 1) % n) + 1])} \cup
                    (IF c % n # 0 THEN {}
                     ELSE IF sign(word) = PlusChar THEN {PlusRow} ELSE {MinusRow})
      BY <2>1 DEF buffer_to_card
    <2>3. card[c] =
             {dec(buffer[i][j])} \cup
                (IF j # n THEN {}
                 ELSE IF sign(buffer[i]) = PlusChar THEN {PlusRow} ELSE {MinusRow})
      BY <2>1, <2>2
    <2> HIDE DEF card
    <2> QED  BY <2>3 DEF c
  <1>3. ASSUME NEW i \in 1 .. card_words PROVE back[i] = buffer[i]
    <2> DEFINE word == buffer[i]
               d == [j \in 1 .. n |-> ColumnDigit(card[(i - 1) * n + j])]
               s == IF MinusRow \in card[(i - 1) * n + n] THEN MinusChar ELSE PlusChar
    <2>1. /\ word \in Signed(n) /\ word \in Reg(n + 1) /\ n + 1 \in Nat
          /\ \A j \in 1 .. n + 1 : word[j] \in DigitCodes
          /\ sign(word) \in SignChars /\ word[n + 1] = bin(sign(word))
      BY <1>1, SignedIs
    <2>2. back[i] = Signed_Register(d, s)
      <3>1. i \in 1 .. buffer_size /\ i <= card_words
        BY DEF buffer_size, card_words
      <3> HIDE DEF card, n
      <3> QED  BY <3>1 DEF card_to_buffer
    <2>3. ASSUME NEW j \in 1 .. n PROVE d[j] = dec(word[j]) /\ d[j] \in 0 .. 9
      <3>1. j \in 1 .. n + 1
        BY <1>1
      <3>2. dec(word[j]) \in 0 .. 9
        BY <2>1, <3>1, DecBin
      <3> DEFINE signs == IF j # n THEN {} ELSE {Row(word)}
      <3>3. signs \in SUBSET {MinusRow, PlusRow}
        OBVIOUS
      <3>4. card[(i - 1) * n + j] = {dec(word[j])} \cup signs
        BY <1>2 DEF Column
      <3>5. d[j] = ColumnDigit(card[(i - 1) * n + j])
        OBVIOUS
      <3> HIDE DEF signs, d, card, word
      <3> QED  BY <3>2, <3>3, <3>4, <3>5, DigitOfColumn
    <2>4. s = sign(word)
      <3>1. card[(i - 1) * n + n] = {dec(word[n])} \cup {Row(word)}
        BY <1>1, <1>2 DEF Column
      <3>2. dec(word[n]) \in 0 .. 9
        <4>1. n \in 1 .. n + 1
          BY <1>1
        <4> QED  BY <2>1, <4>1, DecBin
      <3>3. MinusRow \in card[(i - 1) * n + n] <=> sign(word) # PlusChar
        <4> HIDE DEF card, word
        <4> QED  BY <3>1, <3>2 DEF MinusRow, PlusRow
      <3> HIDE DEF card, word
      <3> QED  BY <2>1, <3>3 DEF SignChars
    <2>5. d \in Decimals(n)
      BY <2>3 DEF Decimals
    <2> HIDE DEF d, s, word, back, n
    <2> DEFINE w == Signed_Register(d, s)
    <2>6. /\ w \in Signed(n) /\ sign(w) = s /\ \A j \in 1 .. n : w[j] = bin(d[j])
      BY <1>1, <2>1, <2>4, <2>5, SignedRegisterIs
    <2> HIDE DEF w
    <2>7. w \in Reg(n + 1) /\ w[n + 1] = bin(s)
      BY <1>1, <2>6, SignedIs
    <2>8. ASSUME NEW j \in 1 .. n + 1 PROVE w[j] = word[j]
      <3>1. CASE j = n + 1
        BY <2>1, <2>4, <2>7, <3>1
      <3>2. CASE j # n + 1
        <4>1. j \in 1 .. n
          BY <1>1, <3>2
        <4>2. bin(dec(word[j])) = word[j]
          BY <2>1, DecBin
        <4> QED  BY <2>3, <2>6, <4>1, <4>2
      <3> QED  BY <3>1, <3>2
    <2>9. w = word
      BY <2>1, <2>7, <2>8, SameReg
    <2> QED  BY <2>2, <2>9 DEF w, word
  <1> DEFINE S == Signed(n)
             m == card_words
             t == SubSeq(back, 1, m)
  <1>4. m \in Nat /\ m \in Int /\ 1 <= m /\ m - 1 + 1 = m /\ \A i \in 1 .. m : 1 + i - 1 = i
    BY DEF card_words
  <1>5. \A i \in 1 .. m : back[i] \in S /\ back[i] = buffer[i] /\ buffer[i] \in S
    BY <1>3
  <1> HIDE DEF S, back, m, n
  <1>6. t \in Seq(S) /\ Len(t) = m /\ \A i \in 1 .. m : t[i] = back[i]
    <2>1. /\ t \in Seq(S) /\ Len(t) = IF 1 <= m THEN m - 1 + 1 ELSE 0
          /\ \A i \in 1 .. m - 1 + 1 : t[i] = back[1 + i - 1]
      BY <1>4, <1>5, SubSeqProperties
    <2> HIDE DEF t
    <2> QED  BY <1>4, <2>1
  <1>7. buffer \in Seq(S) /\ Len(buffer) = m
    <2>1. buffer \in [1 .. m -> S]
      BY DEF m, S, n
    <2>2. buffer \in Seq(S)
      BY <1>4, <2>1, SeqDef
    <2> QED  BY <1>4, <2>1, <2>2, LenProperties
  <1> HIDE DEF t
  <1>8. t = buffer
    BY <1>5, <1>6, <1>7, SeqEqual
  <1> QED  BY <1>8 DEF t, back, card, m, n

(* A card that is punched and read again holds the words it was punched with, *)
(* whatever the registers hold and whatever the length of a word.             *)
THEOREM CardAlwaysKeeps == DigitSpec => []CardKeepsWords
  <1>1. DigitTypes => CardKeepsWords
    <2> SUFFICES ASSUME DigitTypes PROVE CardKeepsWords
      OBVIOUS
    <2> DEFINE buffer == [i \in 1 .. card_words |->
                      CASE i % 3 = 0 -> upper [] i % 3 = 1 -> lower [] OTHER -> distributor]
    <2>1. buffer \in [1 .. card_words -> Signed(WordSize)]
      BY DEF DigitTypes
    <2> HIDE DEF buffer
    <2>2. SubSeq(card_to_buffer(buffer_to_card(buffer, WordSize), WordSize), 1, card_words)
             = buffer
      BY <2>1, CardKeeps
    <2> QED  BY <2>2, Zenon DEF CardKeepsWords, buffer
  <1> QED  BY <1>1, DigitTypesHold, PTL
=============================================================================
