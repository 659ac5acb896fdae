---------------------------- MODULE ResultProofs ----------------------------
(***************************************************************************)
(* The numbers that the digit-by-digit operations leave, for every size of  *)
(* the machine, every drum and every program.                               *)
(***************************************************************************)
EXTENDS RefinementProofs, ArithmeticResults

----------------------------------------------------------------------------
(* What completes a data half-cycle is the end of its loop, and nothing has  *)
(* changed since the last word time.                                         *)
LEMMA CompletedAtEnd ==
    ASSUME IInv, IInv', Simulated, HNext, NEW ops, Completes(ops)
    PROVE  /\ pc = "data" /\ DataLoopEnded /\ Executing
           /\ completed \in Instructions!Machines
           /\ completed' = Machine
           /\ completed.operation = operation /\ operation \in ops
           /\ op_it = op_end /\ op_it \in 1 .. 5
  <1>1. /\ completed.half_cycle = "data" /\ completed'.half_cycle = "instruction"
        /\ completed.operation \in ops
    BY DEF Completes
  <1>2. completed' # completed
    BY <1>1
  <1>3. /\ Next
        /\ completed' = IF InHalfCycle' THEN completed ELSE Machine'
    BY DEF HNext
  <1>4. completed' = Machine'
    BY <1>2, <1>3
  <1>5. ~ManualStart /\ ~ManualAbort
    BY DEF Simulated, ManualStart, ManualAbort
  <1>6. ~Run
    BY <1>2, <1>4, RunImplements DEF Instructions!Start
  <1>7. ~EndInstruction
    <2> SUFFICES ASSUME EndInstruction PROVE FALSE
      OBVIOUS
    <2>1. Fetched
      BY DEF EndInstruction, Simulated
    <2> QED  BY <1>1, <2>1 DEF Fetched
  <1>8. ~(InstructionAbort \/ DecodeAbort \/ DataAbort)
    <2> SUFFICES ASSUME InstructionAbort \/ DecodeAbort \/ DataAbort PROVE FALSE
      OBVIOUS
    <2>1. pc' = "aborted"
      BY DEF InstructionAbort, DecodeAbort, DataAbort, Abort
    <2> QED  BY <1>2, <1>3, <2>1 DEF InHalfCycle
  <1>9. ~(InstructionWordTime \/ BeginData \/ DataWordTime)
    <2> SUFFICES ASSUME InstructionWordTime \/ BeginData \/ DataWordTime PROVE FALSE
      OBVIOUS
    <2>1. inst_it' \in 1 .. 3
      BY DEF IInv, TypeOK
    <2> QED  BY <1>2, <1>3, <2>1, WordTimeStutters
  <1>10. EndData
    BY <1>3, <1>5, <1>6, <1>7, <1>8, <1>9 DEF Next, ProgramStart, RunStep
  <1>11. pc = "data" /\ DataLoopEnded /\ UNCHANGED machine_vars
    BY <1>10 DEF EndData
  <1>12. Machine' = Machine
    BY <1>11 DEF machine_vars, drum_vars, register_vars, flag_vars, Machine
  <1>13. Executing /\ completed \in Instructions!Machines
    BY <1>11 DEF Simulated
  <1>14. completed.operation = operation
    BY <1>13 DEF Executing
  <1>15. op_it = op_end /\ op_it \in 1 .. 5
    BY <1>11 DEF DataLoopEnded, IInv, TypeOK
  <1> QED  BY <1>1, <1>4, <1>11, <1>12, <1>13, <1>14, <1>15

----------------------------------------------------------------------------
LEMMA TenthOfQuotient ==
    ASSUME NEW a \in Nat, NEW n \in Nat \ {0}, NEW m, m = n * 10
    PROVE  a \div m = (a \div n) \div 10
  <1> DEFINE b == 10
  <1>1. b \in Nat \ {0} /\ m = n * b
    OBVIOUS
  <1> HIDE DEF b
  <1>2. a \div (n * b) = (a \div n) \div b
    BY <1>1, DivisionNested
  <1> QED  BY <1>1, <1>2 DEF b

(* Shifting to the right by n places divides the double-length number.        *)
LEMMA RightDivides ==
    ASSUME NEW u \in 0 .. WordBase - 1, NEW l \in 0 .. WordBase - 1
    PROVE  \A n \in Nat :
              LET d == Instructions!Right(u, l, n)
              IN  d.upper * WordBase + d.lower = (u * WordBase + l) \div Weight[n]
  <1> DEFINE N == u * WordBase + l
             Number(n) == Instructions!Right(u, l, n).upper * WordBase
                             + Instructions!Right(u, l, n).lower
             S == {n \in Nat : Number(n) = N \div Weight[n]}
  <1>1. N \in Nat /\ WordBase \in Nat /\ HighBase \in Nat /\ WordBase = Base * HighBase
        /\ Base = 10
    BY Places DEF Base
  <1>2. 0 \in S
    <2>1. Instructions!Right(u, l, 0) = [upper |-> u, lower |-> l]
      BY NoPlaceRight
    <2>2. Number(0) = N
      BY <2>1
    <2> HIDE DEF N
    <2>3. N \div Weight[0] = N
      BY <1>1, Places, DivisionByOne
    <2> QED  BY <2>2, <2>3 DEF N
  <1>3. ASSUME NEW n \in Nat, n \in S PROVE n + 1 \in S
    <2> DEFINE d == Instructions!Right(u, l, n)
               e == Instructions!Right(u, l, n + 1)
               x == d.upper
               y == d.lower
    <2>1. /\ x \in 0 .. WordBase - 1 /\ y \in 0 .. WordBase - 1
          /\ e.upper = x \div Base
          /\ e.lower = (x % Base) * HighBase + y \div Base
      BY RightNext
    <2>2. x * WordBase + y = N \div Weight[n]
      BY <1>3
    <2> HIDE DEF d, e, x, y, N
    <2> DEFINE q == x \div Base
               r == x % Base
               z == y \div Base
               v == y % Base
    <2>3. /\ x \in Nat /\ y \in Nat /\ q \in Nat /\ z \in Nat
          /\ r \in 0 .. 9 /\ v \in 0 .. 9
          /\ x = 10 * q + r /\ y = 10 * z + v
      BY <1>1, <2>1 DEF Base
    <2> HIDE DEF q, r, z, v
    <2> DEFINE M == x * WordBase + y
               k == q * WordBase + (r * HighBase + z)
    <2>4. M \in Nat /\ k \in Int /\ M = k * 10 + v
      BY <1>1, <2>3
    <2> HIDE DEF M, k
    <2>5. M \div 10 = k
      <3>1. 10 \in Nat \ {0} /\ v \in 0 .. 10 - 1
        BY <2>3
      <3> QED  BY <2>4, <3>1, DivisionUnique
    <2>6. Weight[n] \in Nat \ {0} /\ Weight[n + 1] = Weight[n] * 10
      BY <1>1, Places
    <2>7. N \div Weight[n + 1] = (N \div Weight[n]) \div 10
      BY <1>1, <2>6, TenthOfQuotient
    <2>8. N \div Weight[n + 1] = k
      BY <2>2, <2>5, <2>7 DEF M
    <2>9. Number(n + 1) = k
      BY <2>1 DEF e, k, q, r, z
    <2> QED  BY <2>8, <2>9
  <1> HIDE DEF N, Number
  <1>4. Nat \subseteq S
    BY <1>2, <1>3, Induction
  <1> QED  BY <1>4 DEF N, Number

(* Adding half of the last place to be shifted off before the last place.     *)
LEMMA RoundedDivides ==
    ASSUME NEW u \in 0 .. WordBase - 1, NEW l \in 0 .. WordBase - 1, NEW n \in Nat,
           n > 1
    PROVE  LET d == Instructions!Rounded(u, l, n)
           IN  /\ d.upper \in 0 .. WordBase - 1 /\ d.lower \in 0 .. WordBase - 1
               /\ d.upper * WordBase + d.lower
                     = (u * WordBase + l + 5 * Weight[n - 1]) \div Weight[n]
  <1> DEFINE m == n - 1
             N == u * WordBase + l
             c == Instructions!Right(u, l, m)
             h == HalfAdded(c)
             d == Instructions!Right(h.upper, h.lower, 1)
             p == Weight[m]
  <1>1. /\ N \in Nat /\ WordBase \in Nat /\ Base = 10
        /\ m \in Nat /\ m > 0 /\ m + 1 = n /\ n # 1
    BY Places DEF Base
  <1> HIDE DEF m, N
  <1>2. p \in Nat \ {0} /\ Weight[n] = p * 10
    BY <1>1, Places
  <1>3. c.upper * WordBase + c.lower = N \div p
    BY <1>1, RightDivides DEF N
  <1>4. /\ c.upper \in 0 .. WordBase - 2 /\ c.lower \in 0 .. WordBase - 1
        /\ h.upper \in 0 .. WordBase - 1 /\ h.lower \in 0 .. WordBase - 1
    BY <1>1, RoundingFits
  <1>5. Instructions!Rounded(u, l, n) = d
    BY <1>1, SameSets, Zenon DEF Instructions!Rounded, HalfAdded, m
  <1> HIDE DEF c, p
  <1>6. h.upper * WordBase + h.lower = (N \div p) + 5
    <2> DEFINE x == c.upper
               y == c.lower
    <2>1. x \in Nat /\ y \in Nat /\ x * WordBase + y = N \div p
      BY <1>3, <1>4
    <2>2. CASE y + 5 >= WordBase
      <3>1. h = [upper |-> x + 1, lower |-> (y + 5) - 1 * WordBase]
        BY <2>2 DEF HalfAdded
      <3>2. h.upper = x + 1 /\ h.lower = (y + 5) - WordBase
        <4> HIDE DEF h, x, y
        <4>1. WordBase \in Int
          BY <1>1
        <4> QED  BY <3>1, <4>1
      <3> HIDE DEF h, x, y
      <3>3. (x + 1) * WordBase + ((y + 5) - WordBase) = (x * WordBase + y) + 5
        BY <1>1, <2>1
      <3> QED  BY <2>1, <3>2, <3>3
    <2>3. CASE ~(y + 5 >= WordBase)
      <3>1. h = [upper |-> x + 0, lower |-> (y + 5) - 0 * WordBase]
        BY <2>3 DEF HalfAdded
      <3>2. h.upper = x /\ h.lower = y + 5
        <4> HIDE DEF h, x, y
        <4>1. WordBase \in Int /\ x + 0 = x /\ (y + 5) - 0 * WordBase = y + 5
          BY <1>1, <2>1
        <4> QED  BY <3>1, <4>1
      <3> HIDE DEF h, x, y
      <3>3. x * WordBase + (y + 5) = (x * WordBase + y) + 5
        BY <1>1, <2>1
      <3> QED  BY <2>1, <3>2, <3>3
    <2> QED  BY <2>2, <2>3
  <1> HIDE DEF h
  <1>7. d.upper * WordBase + d.lower = ((N \div p) + 5) \div 10
    <2>1. d.upper * WordBase + d.lower = (h.upper * WordBase + h.lower) \div Weight[1]
      BY <1>4, RightDivides
    <2>2. Weight[1] = 10
      <3>1. Weight[0 + 1] = Base * Weight[0] /\ Weight[0] = 1
        BY Places
      <3> QED  BY <1>1, <3>1
    <2> QED  BY <1>6, <2>1, <2>2
  <1>8. d.upper \in 0 .. WordBase - 1 /\ d.lower \in 0 .. WordBase - 1
    BY <1>4, RightNext
  <1> HIDE DEF d
  <1>9. (N + 5 * p) \div p = (N \div p) + 5
    <2> DEFINE q == N \div p
               r == N % p
    <2>1. q \in Nat /\ r \in 0 .. p - 1 /\ N = p * q + r
      BY <1>1, <1>2, DivMod
    <2> HIDE DEF q, r
    <2> DEFINE a == N + 5 * p
               t == q + 5
    <2>2. a \in Nat /\ a = t * p + r /\ t \in Int
      BY <1>1, <1>2, <2>1
    <2> HIDE DEF a, t
    <2>3. a \div p = t
      BY <1>2, <2>1, <2>2, DivisionUnique
    <2> QED  BY <2>3 DEF q, a, t
  <1>10. (N + 5 * p) \div Weight[n] = ((N + 5 * p) \div p) \div 10
    <2> DEFINE a == N + 5 * p
    <2>1. a \in Nat
      BY <1>1, <1>2
    <2> HIDE DEF a
    <2> QED  BY <1>2, <2>1, TenthOfQuotient DEF a
  <1> QED  BY <1>5, <1>7, <1>8, <1>9, <1>10 DEF N, p, m

----------------------------------------------------------------------------
(* What the invariant says of the completed machine and of the step that      *)
(* completes the next half-cycle.                                            *)
LEMMA MachineWords ==
    ASSUME completed \in Instructions!Machines
    PROVE  /\ completed.upper \in Word /\ completed.lower \in Word
           /\ completed.distributor \in Word
           /\ completed.overflow \in BOOLEAN
  BY SameSets DEF Instructions!Machines

LEMMA ShiftRounded ==
    ASSUME IInv, IInv', Simulated, HNext, Completes({shift_and_round})
    PROVE  LET d == RoundedOrDropped(Upper, Lower, PlacesToShift)
           IN  /\ completed \in Instructions!Machines
               /\ completed.address \in Addresses
               /\ completed'.upper = WordOf(d.upper, completed.upper.sign)
               /\ completed'.lower = WordOf(d.lower, completed.lower.sign)
  <1>1. /\ Executing /\ completed \in Instructions!Machines
        /\ completed' = Machine /\ operation = shift_and_round
        /\ op_it = op_end /\ op_it \in 1 .. 5
    BY CompletedAtEnd
  <1>2. operation \in ShiftOps
    BY <1>1 DEF ShiftOps
  <1>3. op_end = 4
    BY <1>1, <1>2, ClassSteps, StepOfThree
  <1>4. ShiftedBy(RoundedOrDropped(Upper, Lower, PlacesToShift))
    BY <1>1, <1>2, <1>3 DEF Executing, ShiftEffect, Shifted
  <1>5. completed.address \in Addresses
    BY <1>1 DEF Executing
  <1> QED
    BY <1>1, <1>4, <1>5, MachineFields DEF ShiftedBy, ShiftedTo, WorkedIs

(* A shift with rounding by more than one place leaves the nearest number,    *)
(* halves away from zero: for every size of the machine and every drum and    *)
(* program.                                                                  *)
THEOREM RoundingNearest == HSpec => RoundsToNearest
  <1> DEFINE Inv == IInv /\ Progress /\ Simulated
             A == LET n == Instructions!Places(completed.address)
                  IN  Completes({shift_and_round}) /\ 1 < n /\ n < 2 * WordSize =>
                         NearestAfter(n)
  <1>1. HInit => Inv
    BY InitInvariant, InitProgress, InitSimulated DEF HInit
  <1>2. Inv /\ [HNext]_hvars => Inv' /\ [A]_hvars
    <2> SUFFICES ASSUME Inv, [HNext]_hvars PROVE Inv' /\ [A]_hvars
      OBVIOUS
    <2>1. [ConsoleNext]_vars
      BY DEF HNext, ConsoleNext, hvars
    <2>2. IInv'
      BY <2>1, NextInvariant
    <2>3. Progress' /\ Simulated'
      BY <2>2, NextProgress, NextSimulated
    <2>4. ASSUME HNext, Completes({shift_and_round}), PlacesToShift > 1 PROVE A
      <3> DEFINE n == PlacesToShift
                 d == Instructions!Rounded(Upper, Lower, n)
                 half == 5 * Weight[n - 1]
      <3>1. /\ completed \in Instructions!Machines /\ completed.address \in Addresses
            /\ completed'.upper = WordOf(d.upper, completed.upper.sign)
            /\ completed'.lower = WordOf(d.lower, completed.lower.sign)
        <4>1. n # 1
          BY <2>4
        <4>2. RoundedOrDropped(Upper, Lower, n) = d
          BY <4>1, Zenon DEF RoundedOrDropped
        <4> QED  BY <2>2, <2>4, <4>2, ShiftRounded
      <3>2. /\ Upper \in 0 .. WordBase - 1 /\ Lower \in 0 .. WordBase - 1
            /\ completed.upper.sign \in Signs /\ completed.lower.sign \in Signs
            /\ n \in 1 .. Base
        BY <3>1, ShiftFacts
      <3>3. /\ d.upper \in 0 .. WordBase - 1 /\ d.lower \in 0 .. WordBase - 1
            /\ d.upper * WordBase + d.lower = (Upper * WordBase + Lower + half) \div Weight[n]
        BY <2>4, <3>2, RoundedDivides DEF Base
      <3>4. Mag(completed'.upper) = d.upper /\ Mag(completed'.lower) = d.lower
        BY <3>1, <3>2, <3>3, WordOfFields
      <3>5. Accumulated20(completed') = d.upper * WordBase + d.lower
        BY <3>4 DEF Accumulated20
      <3>6. Accumulated20(completed) = Upper * WordBase + Lower
        BY DEF Accumulated20, Upper, Lower
      <3> HIDE DEF d
      <3> QED  BY <3>3, <3>5, <3>6 DEF PlacesToShift, NearestAfter
    <2> QED  BY <2>2, <2>3, <2>4 DEF PlacesToShift
  <1> HIDE DEF Inv
  <1> QED  BY <1>1, <1>2, PTL DEF HSpec, RoundsToNearest

----------------------------------------------------------------------------
(* Multiplication.  After k shifts the upper Taken(k) digits of the           *)
(* multiplier have been shifted off, and the others stand above the product   *)
(* so far; upper_overflow counts the additions that are still missing.        *)
Factor == Mag(distributor)
Number == Mag(upper_accumulator) * WordBase + Mag(lower_accumulator)
Product == Upper * Factor + Lower * WordBase

Taken(k) == Upper \div Weight[WordSize - k]
Remaining(k) == Upper % Weight[WordSize - k]

Multiplicable == Upper % Base # 0 /\ Product < WordBase * WordBase

ProductSigned ==
    /\ upper_accumulator.sign = distributor.sign
    /\ lower_accumulator.sign = distributor.sign

PartialProduct(k, o) ==
    /\ k \in 0 .. WordSize
    /\ o \in 0 .. Taken(k)
    /\ k = 0 => o = 0
    /\ k = WordSize => o > 0
    /\ k > 0 => ProductSigned
    /\ Number + o * Factor
          = Remaining(k) * (Weight[k] * WordBase)
            + (Lower * Weight[k] + Factor * Taken(k))

Multiplying ==
    /\ op_it <= 2 => shift_count = 0 /\ upper_overflow = 0
    /\ op_it > 2 /\ Multiplicable =>
          /\ overflow = completed.overflow
          /\ op_it = 3 => PartialProduct(shift_count, upper_overflow)
          /\ op_it > 3 => Number = Product /\ ProductSigned

(* Division.  After k shifts the digits of the quotient so far stand below     *)
(* those of the dividend that have not reached the upper half; the upper half *)
(* holds what is left of the dividend.                                       *)
Dividend == Upper * WordBase + Lower
QuotientFits == Factor <= HighBase /\ Upper < Factor
QuotientTooLong == Factor <= HighBase /\ Upper >= Factor /\ HighDigit(Upper) = 0
QuotientSign ==
    IF distributor.sign = completed.lower.sign THEN "+" ELSE "-"

QuotientSoFar == Mag(lower_accumulator) % Weight[shift_count]
Rest == Mag(upper_accumulator)

PartialQuotient(k, q) ==
    /\ k \in 0 .. WordSize
    /\ upper_overflow = 0
    /\ Mag(lower_accumulator) = (Lower % Weight[WordSize - k]) * Weight[k] + q
    /\ Dividend \div Weight[WordSize - k] = q * Factor + Rest
    /\ lower_accumulator.sign = IF k = 0 THEN completed.lower.sign ELSE QuotientSign
    /\ shift_next => Rest < Factor /\ k < WordSize
    /\ ~shift_next => k > 0 /\ Rest + (q % Base) * Factor < Base * Factor

(* The first digit of the quotient would be more than 9.                     *)
DigitTooLarge ==
    /\ upper_overflow = 0
    /\ shift_next => Rest = Upper
    /\ ~shift_next =>
          Rest + (Mag(lower_accumulator) % Base) * Factor >= Base * Factor

Divided ==
    /\ Mag(lower_accumulator) = Dividend \div Factor
    /\ operation = divide => Rest = Dividend % Factor
    /\ lower_accumulator.sign = QuotientSign

Dividing ==
    /\ op_it <= 2 => shift_count = 0 /\ upper_overflow = 0 /\ shift_next
    /\ op_it > 2 /\ QuotientFits =>
          /\ overflow = completed.overflow
          /\ op_it = 3 => PartialQuotient(shift_count, QuotientSoFar)
          /\ op_it > 3 => Divided
    /\ op_it > 2 /\ QuotientTooLong =>
          /\ op_it = 3 => DigitTooLarge
          /\ op_it > 3 => overflow

Iterating ==
    pc = "data" => /\ operation = multiply => Multiplying
                   /\ operation \in DivideOps => Dividing

----------------------------------------------------------------------------
(* The accumulator as one number: what a shift to the left does to it, and    *)
(* where its digits are.                                                     *)
LEMMA ShiftedNumber ==
    ASSUME NEW u \in Word, NEW l \in Word
    PROVE  LET s == ShiftLeft(u, l)
           IN  /\ s.upper \in Word /\ s.lower \in Word
               /\ s.upper.sign = u.sign /\ s.lower.sign = l.sign
               /\ Mag(s.lower) = (Mag(l) * Base) % WordBase
               /\ Mag(s.upper) * WordBase + Mag(s.lower)
                     = Base * (Mag(u) * WordBase + Mag(l))
                          - HighDigit(Mag(u)) * (WordBase * WordBase)
  <1> DEFINE B == WordBase
             H == HighBase
             m == Mag(u)
             n == Mag(l)
             a == m \div H
             b == n \div H
             x == m % H
             y == n % H
             s == ShiftLeft(u, l)
  <1>1. /\ m \in 0 .. B - 1 /\ n \in 0 .. B - 1 /\ u.sign \in Signs /\ l.sign \in Signs
        /\ B \in Nat \ {0} /\ H \in Nat \ {0} /\ B = 10 * H
    BY WordFields, BaseFacts DEF Base
  <1>2. /\ s.upper = WordOf((m * 10 + b) % B, u.sign)
        /\ s.lower = WordOf((n * 10) % B, l.sign)
    BY Zenon DEF ShiftLeft, HighDigit, Base
  <1>3. s.upper \in Word /\ s.lower \in Word
    BY ShiftType
  <1> HIDE DEF B, H, m, n, s
  <1>4. /\ a \in Nat /\ x \in 0 .. H - 1 /\ m = H * a + x
        /\ b \in Nat /\ y \in 0 .. H - 1 /\ n = H * b + y
    <2>1. m \in Nat /\ n \in Nat
      BY <1>1
    <2> QED  BY <1>1, <2>1, DivMod, Zenon
  <1>5. b <= 9
    <2>1. n < 10 * H
      BY <1>1
    <2>2. b < 10
      BY <1>1, <2>1, QuotientBound
    <2> QED  BY <1>4, <2>2
  <1> HIDE DEF a, b, x, y
  <1> DEFINE p == 10 * x + b
             q == 10 * y
             v == m * 10 + b
             w == n * 10
  <1>6. /\ p \in 0 .. B - 1 /\ q \in 0 .. B - 1
        /\ v \in Nat /\ w \in Nat
    BY <1>1, <1>4, <1>5
  <1>7. v = a * B + p /\ w = b * B + q
    <2> DEFINE c == H * a
               d == H * b
    <2>1. a * B = 10 * c /\ b * B = 10 * d /\ c \in Nat /\ d \in Nat
      BY <1>1, <1>4
    <2>2. m = c + x /\ n = d + y
      BY <1>4
    <2> HIDE DEF c, d
    <2> QED  BY <1>1, <1>4, <2>1, <2>2
  <1> HIDE DEF p, q, v, w
  <1>8. v % B = p /\ w % B = q
    BY <1>1, <1>4, <1>6, <1>7, DivisionUnique
  <1>9. Mag(s.upper) = p /\ Mag(s.lower) = q /\ s.upper.sign = u.sign /\ s.lower.sign = l.sign
    BY <1>1, <1>2, <1>6, <1>8, WordOfFields DEF v, w, B
  <1>10. Mag(s.upper) * B + Mag(s.lower) = 10 * (m * B + n) - a * (B * B)
    <2>1. p = v - a * B /\ q = w - b * B
      BY <1>1, <1>4, <1>6, <1>7
    <2>2. (v - a * B) * B + (w - b * B) = 10 * (m * B + n) - a * (B * B)
      BY <1>1, <1>4 DEF v, w
    <2> QED  BY <1>9, <2>1, <2>2
  <1>11. HighDigit(Mag(u)) = a
    BY DEF HighDigit, a, m, H
  <1> QED
    BY <1>3, <1>8, <1>9, <1>10, <1>11 DEF B, m, n, s, w, Base

(* Digits above the lowest digits of the accumulator.                        *)
StandsAbove(u, l, A, r, P) ==
    /\ u \in 0 .. WordBase - 1 /\ l \in 0 .. WordBase - 1
    /\ A \in Nat \ {0} /\ r \in Nat /\ P \in Nat
    /\ P < A * WordBase
    /\ u * WordBase + l = r * (A * WordBase) + P

LEMMA UpperDigits ==
    ASSUME NEW u, NEW l, NEW A, NEW r, NEW P, StandsAbove(u, l, A, r, P)
    PROVE  /\ u \div A = r
           /\ \A b \in Nat \ {0} : HighBase = b * A => HighDigit(u) = r \div b
  <1> DEFINE B == WordBase
             z == P \div B
             y == P % B
             N == u * B + l
  <1> USE DEF StandsAbove
  <1>1. B \in Nat \ {0}
    BY BaseFacts
  <1>2. z \in Nat /\ y \in 0 .. B - 1 /\ P = B * z + y
    BY <1>1, DivMod
  <1>3. z < A
    BY <1>1, QuotientBound
  <1> HIDE DEF z, y, B
  <1>4. u = r * A + z
    <2> DEFINE t == r * A + z
    <2>1. N \in Nat /\ t \in Int /\ u \in Int /\ l \in 0 .. B - 1
      BY <1>1, <1>2 DEF B
    <2>2. N = t * B + y
      BY <1>1, <1>2 DEF B
    <2>3. N = u * B + l
      OBVIOUS
    <2> HIDE DEF N, t
    <2>4. N \div B = t
      BY <1>1, <1>2, <2>1, <2>2, DivisionUnique
    <2>5. N \div B = u
      BY <1>1, <2>1, <2>3, DivisionUnique, Zenon
    <2> QED  BY <2>4, <2>5 DEF t
  <1>5. z \in 0 .. A - 1
    BY <1>2, <1>3
  <1>6. u \div A = r
    <2>1. u \in Nat /\ r \in Int
      BY BaseFacts
    <2> QED  BY <1>4, <1>5, <2>1, DivisionUnique, Zenon
  <1>7. ASSUME NEW b \in Nat \ {0}, HighBase = b * A PROVE HighDigit(u) = r \div b
    BY <1>4, <1>5, <1>7, DivisionScaled DEF HighDigit
  <1> QED  BY <1>6, <1>7

----------------------------------------------------------------------------
(* The arithmetic of a multiplication M * F with L in the lower half.         *)
LEMMA ProductRoom ==
    ASSUME NEW M \in Nat, NEW F \in Nat, NEW L \in Nat,
           NEW C \in Nat \ {0}, NEW A \in Nat \ {0}, NEW B \in Nat \ {0}, B = C * A,
           M * F + L * B < B * B
    PROVE  L * A + F * (M \div C) < A * B
  <1> DEFINE h == M \div C
             g == M % C
             p == F * h
             P == L * A + p
  <1>1. h \in Nat /\ g \in Nat /\ M = C * h + g
    BY DivMod
  <1> HIDE DEF h, g
  <1>2. p \in Nat /\ P \in Nat /\ A * B \in Nat /\ C * p + g * F = M * F /\ g * F \in Nat
    BY <1>1
  <1>3. C * P = L * B + C * p
    <2> HIDE DEF p
    <2>1. C * (L * A + p) = L * (C * A) + C * p
      BY <1>2
    <2> QED  BY <2>1
  <1>4. C * P < C * (A * B)
    <2>1. C * (A * B) = B * B
      <3>1. C * (A * B) = (C * A) * B
        OBVIOUS
      <3> QED  BY <3>1
    <2>2. C * P <= M * F + L * B
      <3>1. C * p \in Nat /\ L * B \in Nat
        BY <1>2
      <3> HIDE DEF p, P
      <3> QED  BY <1>2, <1>3, <3>1
    <2>3. M * F + L * B \in Nat /\ C * P \in Nat /\ B * B \in Nat
      BY <1>2
    <2> HIDE DEF P
    <2> QED  BY <2>1, <2>2, <2>3
  <1> DEFINE t == A * B
  <1>5. P \in Nat /\ t \in Nat /\ C * P < C * t
    BY <1>2, <1>4
  <1> HIDE DEF P, t, p
  <1>6. P < t
    <2> SUFFICES ASSUME P >= t PROVE FALSE
      BY <1>5
    <2>1. C * P >= C * t
      BY <1>5
    <2>2. C * P \in Nat /\ C * t \in Nat
      BY <1>5
    <2> QED  BY <1>5, <2>1, <2>2
  <1> QED  BY <1>6 DEF P, t, p, h

(* The next digit of the multiplier.                                         *)
LEMMA NextDigit ==
    ASSUME NEW M \in Nat, NEW b \in Nat \ {0}, NEW C, C = b * 10
    PROVE  /\ (M % C) \div b \in 0 .. 9
           /\ (M % C) % b = M % b
           /\ M % C \in Nat
           /\ M % C = ((M % C) \div b) * b + (M % b)
           /\ M \div b = 10 * (M \div C) + ((M % C) \div b)
           /\ b = 1 => (M % C) \div b = M % 10
  <1> DEFINE t == 10
             q == M \div b
  <1>1. t \in Nat \ {0} /\ C = b * t /\ C \in Nat \ {0}
    OBVIOUS
  <1>2. q \in Nat
    BY DivMod
  <1> HIDE DEF t
  <1>3. /\ M \div (b * t) = q \div t
        /\ (M % (b * t)) % b = M % b
        /\ (M % (b * t)) \div b = q % t
    BY <1>1, DivisionNested
  <1>4. q \div t \in Nat /\ q % t \in 0 .. t - 1 /\ q = t * (q \div t) + (q % t)
    BY <1>1, <1>2, DivMod, Zenon
  <1>5. M % C \in 0 .. C - 1
    BY <1>1, DivMod, Zenon
  <1>6. M % C \in Nat
    BY <1>1, <1>5
  <1>7. M % C = b * ((M % C) \div b) + ((M % C) % b)
    BY <1>6, DivMod, Zenon
  <1>8. b = 1 => q = M
    BY DivisionByOne
  <1>9. (M % C) \div b = q % t /\ (M % C) % b = M % b /\ M \div C = q \div t
    BY <1>1, <1>3
  <1> DEFINE d == (M % C) \div b
             e == M % b
             h == M \div C
             g == M % C
             v == q % t
             w == q \div t
  <1>10. d = v /\ h = w /\ v \in 0 .. 9 /\ w \in Nat /\ q = 10 * w + v
    BY <1>4, <1>9 DEF t
  <1>11. e \in Nat
    BY DivMod
  <1>12. g = d * b + e
    <2>1. g = b * d + e
      BY <1>7, <1>9
    <2>2. d \in Nat
      BY <1>10
    <2> HIDE DEF d, e, g
    <2> QED  BY <1>11, <2>1, <2>2
  <1>13. b = 1 => d = M % 10
    BY <1>8, <1>9 DEF t
  <1> HIDE DEF d, e, h, g, v, w, q
  <1>14. d \in 0 .. 9 /\ q = 10 * h + d
    BY <1>10
  <1>15. (M % C) % b = M % b
    BY <1>9
  <1> QED  BY <1>6, <1>12, <1>13, <1>14, <1>15 DEF d, e, h, g, q

(* One digit of the multiplier is shifted off.                                *)
LEMMA ProductShift ==
    ASSUME NEW d \in Nat, NEW b \in Nat, NEW e \in Nat, NEW g, g = d * b + e,
           NEW h \in Nat, NEW f, f = 10 * h + d,
           NEW A \in Nat, NEW E, E = A * 10, NEW B \in Nat, B = 10 * (b * A),
           NEW F \in Nat, NEW L \in Nat,
           NEW N, N = g * (A * B) + (L * A + F * h)
    PROVE  (10 * N - d * (B * B)) + d * F = e * (E * B) + (L * E + F * f)
  <1> DEFINE T == A * B
             X == L * A
             Y == F * h
  <1>1. T \in Nat /\ B * B = 10 * (b * T) /\ E * B = 10 * T
    OBVIOUS
  <1>2. X \in Nat /\ Y \in Nat /\ L * E = 10 * X /\ F * f = 10 * Y + d * F
    OBVIOUS
  <1>3. N = g * T + (X + Y)
    OBVIOUS
  <1>4. g * T = d * (b * T) + e * T
    OBVIOUS
  <1> HIDE DEF T, X, Y
  <1> DEFINE p == d * (b * T)
             q == e * T
             r == d * F
  <1>5. p \in Nat /\ q \in Nat /\ r \in Nat
    BY <1>1
  <1>6. d * (10 * (b * T)) = 10 * p /\ e * (10 * T) = 10 * q
    BY <1>1
  <1>7. d * (B * B) = 10 * p /\ e * (E * B) = 10 * q
    BY <1>1, <1>6
  <1>8. N = (p + q) + (X + Y)
    BY <1>3, <1>4
  <1>9. F * f = 10 * Y + r
    BY <1>2
  <1> DEFINE v == d * (B * B)
             w == e * (E * B)
             x == L * E
             y == F * f
  <1>10. v = 10 * p /\ w = 10 * q /\ x = 10 * X /\ y = 10 * Y + r
    BY <1>2, <1>7, <1>9
  <1> HIDE DEF p, q, r, v, w, x, y
  <1>11. (10 * N - v) + r = w + (x + y)
    BY <1>2, <1>5, <1>8, <1>10
  <1> QED  BY <1>11 DEF r, v, w, x, y

----------------------------------------------------------------------------
(* The loop of a multiplication.                                             *)
LEMMA LoopFacts ==
    ASSUME IInv, completed \in Instructions!Machines
    PROVE  /\ Upper \in 0 .. WordBase - 1 /\ Lower \in 0 .. WordBase - 1
           /\ Upper \in Nat /\ Lower \in Nat
           /\ completed.upper.sign \in Signs /\ completed.lower.sign \in Signs
           /\ distributor \in Word /\ distributor.sign \in Signs
           /\ Factor \in 0 .. WordBase - 1 /\ Factor \in Nat
           /\ upper_accumulator \in Word /\ lower_accumulator \in Word
           /\ Mag(upper_accumulator) \in 0 .. WordBase - 1
           /\ Mag(lower_accumulator) \in 0 .. WordBase - 1
           /\ Number \in Nat
  <1>1. distributor \in Word /\ upper_accumulator \in Word /\ lower_accumulator \in Word
    BY DEF IInv, TypeOK
  <1>2. completed.upper \in Word /\ completed.lower \in Word
    BY MachineWords
  <1>3. /\ Upper \in 0 .. WordBase - 1 /\ Lower \in 0 .. WordBase - 1
        /\ completed.upper.sign \in Signs /\ completed.lower.sign \in Signs
        /\ distributor.sign \in Signs
        /\ Factor \in 0 .. WordBase - 1
        /\ Mag(upper_accumulator) \in 0 .. WordBase - 1
        /\ Mag(lower_accumulator) \in 0 .. WordBase - 1
    BY <1>1, <1>2, WordFields DEF Upper, Lower, Factor
  <1>4. WordBase \in Nat
    BY BaseFacts
  <1>5. /\ Upper \in Nat /\ Lower \in Nat /\ Factor \in Nat
        /\ Mag(upper_accumulator) \in Nat /\ Mag(lower_accumulator) \in Nat
    BY <1>3, <1>4
  <1>6. Number \in Nat
    BY <1>4, <1>5 DEF Number
  <1> QED  BY <1>1, <1>3, <1>5, <1>6

(* What is left of k digits of a half after k + 1 of them are shifted off.     *)
LEMMA PlaceFacts ==
    ASSUME NEW k \in 0 .. WordSize - 1
    PROVE  /\ Weight[k] \in Nat \ {0}
           /\ Weight[WordSize - (k + 1)] \in Nat \ {0}
           /\ HighBase = Weight[WordSize - (k + 1)] * Weight[k]
           /\ Weight[WordSize - k] = Weight[WordSize - (k + 1)] * 10
           /\ Weight[k + 1] = Weight[k] * 10
           /\ WordBase = 10 * (Weight[WordSize - (k + 1)] * Weight[k])
           /\ WordBase = Weight[WordSize - k] * Weight[k]
           /\ k + 1 = WordSize => Weight[WordSize - (k + 1)] = 1
  <1> DEFINE j == WordSize - (k + 1)
             a == Weight[k]
             b == Weight[j]
             c == Weight[WordSize - k]
             h == HighBase
  <1>1. WordSize \in Nat /\ k \in Nat /\ j \in Nat /\ k <= WordSize
        /\ WordSize - k = j + 1 /\ WordSize - k \in Nat
    BY Places
  <1>2. a \in Nat \ {0} /\ b \in Nat \ {0} /\ c \in Nat \ {0} /\ h \in Nat \ {0}
        /\ Weight[k + 1] = Base * a
    BY <1>1, Places
  <1>3. c = Base * b
    <2> HIDE DEF j
    <2>1. Weight[j + 1] = Base * b
      BY <1>1, Places
    <2> QED  BY <1>1, <2>1
  <1>4. WordBase = Base * h
    BY Places
  <1>5. a * c = WordBase
    BY <1>1, Places
  <1>6. k + 1 = WordSize => j = 0
    BY <1>1
  <1>7. k + 1 = WordSize => b = 1
    BY <1>6, Places
  <1> HIDE DEF a, b, c, h
  <1>8. h = b * a
    <2>1. 10 * h = 10 * (a * b)
      BY <1>2, <1>3, <1>4, <1>5 DEF Base
    <2>2. a * b \in Nat /\ a * b = b * a
      BY <1>2
    <2> DEFINE p == a * b
    <2>3. p \in Nat /\ 10 * h = 10 * p
      BY <2>1, <2>2
    <2> HIDE DEF p
    <2>4. h = p
      BY <1>2, <2>3
    <2> QED  BY <2>2, <2>4 DEF p
  <1>9. c = b * 10 /\ Base * a = a * 10 /\ WordBase = 10 * (b * a)
    BY <1>2, <1>3, <1>4, <1>8 DEF Base
  <1>10. WordBase = c * a
    BY <1>2, <1>5
  <1> QED  BY <1>2, <1>7, <1>8, <1>9, <1>10 DEF a, b, c, h, j

LEMMA SignedWord ==
    ASSUME NEW w \in Word, NEW s \in Signs
    PROVE  [w EXCEPT !.sign = s] \in Word /\ Mag([w EXCEPT !.sign = s]) = Mag(w)
           /\ [w EXCEPT !.sign = s].sign = s
  BY DEF Word, Mag

LEMMA MultiplierShiftKept ==
    ASSUME IInv, completed \in Instructions!Machines, completed' = completed,
           distributor' = distributor, Multiplicable, MultiplierShift,
           PartialProduct(shift_count, upper_overflow)
    PROVE  PartialProduct(shift_count, upper_overflow)'
  <1> DEFINE k == shift_count
             A == Weight[k]
             b == Weight[WordSize - (k + 1)]
             C == Weight[WordSize - k]
             E == Weight[k + 1]
             s == distributor.sign
             u == Signed(upper_accumulator, s)
             l == Signed(lower_accumulator, s)
             v == ShiftLeft(u, l)
             m == Mag(upper_accumulator)
             n == Mag(lower_accumulator)
             d == HighDigit(m)
             P == Lower * A + Factor * (Upper \div C)
  <1>1. /\ upper_overflow = 0 /\ upper_overflow' = HighDigit(Mag(u))
        /\ upper_accumulator' = v.upper /\ lower_accumulator' = v.lower
        /\ shift_count' = CountedShift
    BY DEF MultiplierShift
  <1>2. /\ k \in 0 .. WordSize - 1 /\ k \in Nat /\ WordSize \in Nat
        /\ (k > 0 => ProductSigned)
        /\ Number + 0 * Factor = (Upper % C) * (A * WordBase) + P
    <2>1. WordSize \in Nat
      BY Places
    <2>2. k \in 0 .. WordSize /\ k # WordSize
      BY <1>1 DEF PartialProduct
    <2>3. Number + 0 * Factor = (Upper % C) * (A * WordBase) + P
      BY <1>1 DEF PartialProduct, Taken, Remaining
    <2> QED  BY <2>1, <2>2, <2>3 DEF PartialProduct
  <1>3. /\ A \in Nat \ {0} /\ b \in Nat \ {0} /\ HighBase = b * A /\ C = b * 10
        /\ E = A * 10 /\ WordBase = 10 * (b * A) /\ WordBase = C * A
        /\ (k + 1 = WordSize => b = 1)
    BY <1>2, PlaceFacts
  <1>4. shift_count' = k + 1
    BY <1>1, <1>2 DEF CountedShift
  <1>5. /\ u \in Word /\ l \in Word /\ Mag(u) = m /\ Mag(l) = n
        /\ u.sign = s /\ l.sign = s
    BY <1>1, <1>2, LoopFacts, SignedWord DEF Signed, FirstPass, ProductSigned
  <1>6. /\ Upper \in Nat /\ Lower \in Nat /\ Factor \in Nat
        /\ m \in 0 .. WordBase - 1 /\ n \in 0 .. WordBase - 1 /\ Number \in Nat
    BY LoopFacts
  <1>7. WordBase \in Nat \ {0} /\ C \in Nat \ {0}
    BY <1>3, BaseFacts
  <1> HIDE DEF k, A, b, C, E, s, u, l
  <1>8. P \in Nat /\ P < A * WordBase
    <2>1. Upper \div C \in Nat
      BY <1>6, <1>7, DivMod
    <2>2. P \in Nat
      BY <1>3, <1>6, <2>1
    <2>3. Upper * Factor + Lower * WordBase < WordBase * WordBase
      BY DEF Multiplicable, Product
    <2>4. P < A * WordBase
      BY <1>3, <1>6, <1>7, <2>3, ProductRoom
    <2> QED  BY <2>2, <2>4
  <1>9. Number = (Upper % C) * (A * WordBase) + P
    <2> DEFINE x == (Upper % C) * (A * WordBase) + P
    <2>1. Number + 0 * Factor = x
      BY <1>2
    <2> HIDE DEF x
    <2>2. Number + 0 * Factor = Number
      BY <1>6
    <2> QED  BY <2>1, <2>2 DEF x
  <1> DEFINE g == Upper % C
             h == Upper \div C
             e == Upper % b
             f == Upper \div b
  <1>10. /\ g \div b \in 0 .. 9 /\ g \in Nat /\ g = (g \div b) * b + e
         /\ f = 10 * h + (g \div b)
         /\ (b = 1 => g \div b = Upper % 10)
    <2>1. \A M \in Nat : \A y \in Nat \ {0} : C = y * 10 =>
             /\ (M % C) \div y \in 0 .. 9
             /\ M % C \in Nat
             /\ M % C = ((M % C) \div y) * y + (M % y)
             /\ M \div y = 10 * (M \div C) + ((M % C) \div y)
             /\ y = 1 => (M % C) \div y = M % 10
      BY NextDigit
    <2> QED  BY <1>3, <1>6, <2>1, Zenon
  <1>11. d = g \div b
    <2>1. m * WordBase + n = g * (A * WordBase) + P
      BY <1>9 DEF Number
    <2>2. g \in Nat
      BY <1>10
    <2> HIDE DEF P, g, m, n
    <2>3. StandsAbove(m, n, A, g, P)
      BY <1>3, <1>6, <1>8, <2>1, <2>2 DEF StandsAbove
    <2>4. HighDigit(m) = g \div b
      BY <1>3, <2>3, UpperDigits
    <2> QED  BY <2>4 DEF d
  <1>12. h \in Nat /\ e \in Nat
    <2>1. h \in Nat /\ e \in 0 .. b - 1
      BY <1>3, <1>6, <1>7, DivMod, Zenon
    <2> QED  BY <2>1
  <1> HIDE DEF d, m, n
  <1>13. d \in Nat /\ d \in 0 .. 9 /\ g = d * b + e /\ f = 10 * h + d
    BY <1>10, <1>11
  <1>14. (10 * Number - d * (WordBase * WordBase)) + d * Factor
            = e * (E * WordBase) + (Lower * E + Factor * f)
    <2> DEFINE N == Number
               F == Factor
               L == Lower
    <2>1. N = g * (A * WordBase) + (L * A + F * h)
      BY <1>9
    <2> HIDE DEF g, h, e, f, N, F, L
    <2>2. F \in Nat /\ L \in Nat
      BY <1>6 DEF F, L
    <2> QED  BY <1>3, <1>7, <1>12, <1>13, <2>1, <2>2, ProductShift DEF N, F, L
  <1>15. Number' = 10 * Number - d * (WordBase * WordBase)
    <2>1. /\ Mag(v.upper) * WordBase + Mag(v.lower)
                = Base * (m * WordBase + n) - d * (WordBase * WordBase)
          /\ v.upper.sign = s /\ v.lower.sign = s
      BY <1>5, ShiftedNumber DEF d
    <2>2. Number' = Mag(v.upper) * WordBase + Mag(v.lower)
      BY <1>1 DEF Number
    <2> QED  BY <2>1, <2>2 DEF Number, m, n, Base
  <1>16. ProductSigned'
    <2>1. v.upper.sign = s /\ v.lower.sign = s
      BY <1>5, ShiftedNumber
    <2> QED  BY <1>1, <2>1 DEF ProductSigned, s
  <1>17. upper_overflow' = d
    BY <1>1, <1>5 DEF d
  <1>18. d \in 0 .. f
    <2> HIDE DEF f, h
    <2> QED  BY <1>12, <1>13
  <1>19. k + 1 = WordSize => d > 0
    <2> SUFFICES ASSUME k + 1 = WordSize PROVE d > 0
      OBVIOUS
    <2>1. d = Upper % 10
      BY <1>3, <1>10, <1>11
    <2>2. d # 0
      BY <2>1 DEF Multiplicable, Base
    <2> QED  BY <1>13, <2>2
  <1>20. /\ Upper' = Upper /\ Lower' = Lower /\ Factor' = Factor
    BY DEF Upper, Lower, Factor
  <1>21. /\ Taken(shift_count)' = f /\ Remaining(shift_count)' = e
         /\ Weight[shift_count'] = E
    BY <1>4, <1>20 DEF Taken, Remaining, b, E, k
  <1>22. Number' + upper_overflow' * Factor'
            = Remaining(shift_count)' * (Weight[shift_count'] * WordBase)
               + (Lower' * Weight[shift_count'] + Factor' * Taken(shift_count)')
    BY <1>14, <1>15, <1>17, <1>20, <1>21, Zenon
  <1>23. /\ shift_count' \in 0 .. WordSize
         /\ shift_count' # 0
         /\ shift_count' = WordSize => upper_overflow' > 0
    BY <1>2, <1>4, <1>17, <1>19
  <1>24. upper_overflow' \in 0 .. Taken(shift_count)'
    BY <1>17, <1>18, <1>21
  <1> QED  BY <1>16, <1>22, <1>23, <1>24 DEF PartialProduct

(* An addition below the digits of the multiplier carries nothing into them.  *)
LEMMA SumNumber ==
    ASSUME NEW u \in Word, NEW l \in Word, NEW w \in Word, l.sign = w.sign,
           (Mag(u) * WordBase + Mag(l)) + Mag(w) < WordBase * WordBase
    PROVE  LET r == add_to_accumulator(u, l, w, FALSE)
           IN  /\ r.upper \in Word /\ r.lower \in Word
               /\ r.upper.sign = u.sign /\ r.lower.sign = w.sign
               /\ Mag(r.upper) * WordBase + Mag(r.lower)
                     = (Mag(u) * WordBase + Mag(l)) + Mag(w)
  <1> DEFINE r == add_to_accumulator(u, l, w, FALSE)
             a == Halves(u, l)
             b == [upper |-> 0, lower |-> Mag(w)]
             p == PlusMagnitude(a, b)
             N == Mag(u) * WordBase + Mag(l)
             W == WordBase * WordBase
  <1>1. WordBase \in Nat \ {0}
    BY BaseFacts
  <1>2. /\ u.sign \in Signs /\ w.sign \in Signs
        /\ Mag(u) \in Nat /\ Mag(l) \in Nat /\ Mag(w) \in Nat
        /\ Mag(w) \in 0 .. WordBase - 1
    BY <1>1, WordFields
  <1>3. a \in Double /\ b \in Double
    <2>1. b \in Double
      BY <1>1, <1>2 DEF Double
    <2> QED  BY <2>1, HalvesType
  <1>4. /\ p.upper \in 0 .. WordBase - 1 /\ p.lower \in 0 .. WordBase - 1
        /\ p.carry \in {0, 1}
        /\ Value(p) + p.carry * W = Value(a) + Value(b)
    BY <1>3, PlusMagnitudeSum
  <1>5. Value(a) = N /\ Value(b) = Mag(w)
    <2>1. Value(a) = N
      BY DEF Value, Halves
    <2>2. Value(b) = 0 * WordBase + Mag(w)
      BY DEF Value
    <2> QED  BY <1>1, <1>2, <2>1, <2>2
  <1>6. r = [upper |-> WordOf(p.upper, u.sign), lower |-> WordOf(p.lower, l.sign),
             carry |-> p.carry]
    <2>1. SignedSum(a, l.sign, b, w.sign) = [mag |-> p, sign |-> l.sign]
      BY DEF SignedSum
    <2> HIDE DEF p
    <2> QED  BY <2>1 DEF add_to_accumulator
  <1>7. N \in Nat /\ W \in Nat /\ N + Mag(w) < W
    BY <1>1, <1>2
  <1> HIDE DEF p, N, W, r, a, b
  <1>8. Value(p) \in Nat /\ Value(p) = p.upper * WordBase + p.lower
    <2>1. p.upper \in Nat /\ p.lower \in Nat
      BY <1>1, <1>4
    <2> QED  BY <1>1, <2>1 DEF Value
  <1>9. p.carry = 0
    <2> SUFFICES ASSUME p.carry = 1 PROVE FALSE
      BY <1>4
    <2>1. Value(p) + 1 * W = N + Mag(w)
      BY <1>4, <1>5
    <2> QED  BY <1>2, <1>7, <1>8, <2>1
  <1>10. Value(p) = N + Mag(w)
    <2>1. Value(p) + 0 * W = N + Mag(w)
      BY <1>4, <1>5, <1>9
    <2> QED  BY <1>7, <1>8, <2>1
  <1>11. /\ r.upper \in Word /\ r.lower \in Word
         /\ Mag(r.upper) = p.upper /\ Mag(r.lower) = p.lower
         /\ r.upper.sign = u.sign /\ r.lower.sign = w.sign
    BY <1>2, <1>4, <1>6, WordOfFields, WordOfType
  <1> QED  BY <1>8, <1>10, <1>11 DEF N, r

LEMMA MultiplierAddKept ==
    ASSUME IInv, completed \in Instructions!Machines, completed' = completed,
           distributor' = distributor, Multiplicable, MultiplierAdd,
           PartialProduct(shift_count, upper_overflow)
    PROVE  /\ overflow' = overflow
           /\ op_it' = op_it => PartialProduct(shift_count, upper_overflow)'
           /\ op_it' # op_it => Number' = Product' /\ ProductSigned'
  <1> DEFINE k == shift_count
             o == upper_overflow
             F == Factor
             A == Weight[k]
             C == Weight[WordSize - k]
             h == Upper \div C
             g == Upper % C
             u == upper_accumulator
             l == lower_accumulator
             s == add_to_accumulator(u, l, distributor, FALSE)
             Q == Lower * A + F * h
             T == A * WordBase
  <1>1. /\ o > 0 /\ o' = o - 1 /\ k' = k
        /\ u' = s.upper /\ l' = s.lower
        /\ overflow' = (overflow \/ (/\ k + 1 <= WordSize
                                     /\ Digit(Mag(s.upper), k + 1) # Digit(Mag(u), k + 1)))
        /\ IF o > 1 \/ k < WordSize THEN Again ELSE Done
    BY DEF MultiplierAdd
  <1>2. /\ k \in 0 .. WordSize /\ k \in Nat /\ WordSize \in Nat
        /\ o \in 0 .. h
        /\ k > 0 /\ ProductSigned
        /\ Number + o * F = g * T + Q
    <2>1. k \in 0 .. WordSize /\ k # 0 /\ WordSize \in Nat
      BY <1>1, Places DEF PartialProduct
    <2>2. k \in Nat /\ k > 0
      BY <2>1
    <2>3. o \in 0 .. h /\ Number + o * F = g * T + Q
      BY DEF PartialProduct, Taken, Remaining
    <2> QED  BY <2>1, <2>2, <2>3 DEF PartialProduct
  <1>3. /\ A \in Nat \ {0} /\ C \in Nat \ {0} /\ WordBase = C * A
        /\ WordBase \in Nat \ {0}
        /\ k = WordSize => C = 1 /\ A = WordBase
    <2>1. WordSize - k \in Nat /\ k <= WordSize
      BY <1>2
    <2>2. A \in Nat \ {0} /\ C \in Nat \ {0} /\ A * C = WordBase
      BY <1>2, <2>1, Places
    <2>3. k = WordSize => WordSize - k = 0
      BY <1>2
    <2>4. k = WordSize => C = 1 /\ A = WordBase
      BY <2>3, Places
    <2>5. A * C = C * A
      BY <2>2
    <2> QED  BY <2>2, <2>4, <2>5, BaseFacts
  <1>4. /\ Upper \in Nat /\ Lower \in Nat /\ F \in Nat
        /\ u \in Word /\ l \in Word /\ distributor \in Word
        /\ Mag(u) \in 0 .. WordBase - 1 /\ Mag(l) \in 0 .. WordBase - 1
        /\ Number \in Nat
    BY LoopFacts
  <1>5. h \in Nat /\ g \in 0 .. C - 1 /\ g \in Nat
    <2>1. h \in Nat /\ g \in 0 .. C - 1
      BY <1>3, <1>4, DivMod, Zenon
    <2> QED  BY <1>3, <2>1
  <1>6. Q < T
    <2>1. Upper * F + Lower * WordBase < WordBase * WordBase
      BY DEF Multiplicable, Product
    <2> QED  BY <1>3, <1>4, <2>1, ProductRoom
  <1> HIDE DEF k, o, F, A, C, h, g, u, l, s
  <1>7. Q \in Nat /\ T \in Nat
    BY <1>3, <1>4, <1>5
  <1>8. /\ o \in Nat /\ o - 1 \in Nat /\ o * F \in Nat /\ (o - 1) * F \in Nat
        /\ o * F = (o - 1) * F + F
        /\ o * F <= F * h /\ F * h <= Q
    <2>1. o \in Nat /\ o - 1 \in Nat /\ o <= h
      BY <1>1, <1>2, <1>5
    <2>2. o * F \in Nat /\ (o - 1) * F \in Nat /\ o * F = (o - 1) * F + F
      BY <1>4, <2>1
    <2>3. o * F <= F * h
      <3>1. PICK j \in Nat : h = o + j
        BY <1>5, <2>1
      <3>2. F * (o + j) = o * F + F * j /\ F * j \in Nat
        BY <1>4, <2>1
      <3> HIDE DEF Q, T
      <3> QED  BY <2>2, <3>1, <3>2
    <2>4. F * h <= Q
      <3>1. Lower * A \in Nat /\ F * h \in Nat
        BY <1>3, <1>4, <1>5
      <3> QED  BY <3>1
    <2> QED  BY <2>1, <2>2, <2>3, <2>4
  <1> DEFINE P == Q - o * F
             S == Q - (o - 1) * F
  <1>9. P \in Nat /\ S \in Nat /\ P < T /\ S < T /\ S = P + F
    <2> DEFINE x == o * F
               y == (o - 1) * F
               z == F * h
    <2>1. x \in Nat /\ y \in Nat /\ x = y + F /\ x <= z /\ z <= Q
      BY <1>8
    <2>2. z \in Nat
      BY <1>4, <1>5
    <2> HIDE DEF x, y, z, Q, T
    <2>3. P = Q - x /\ S = Q - y
      BY DEF x, y
    <2> HIDE DEF P, S
    <2> QED  BY <1>4, <1>6, <1>7, <2>1, <2>2, <2>3
  <1>10. Number = g * T + P /\ Number + F = g * T + S
    <2> DEFINE x == o * F
               y == g * T
    <2>1. Number + x = y + Q /\ x \in Nat /\ y \in Nat
      BY <1>2, <1>5, <1>7, <1>8
    <2>2. P = Q - x
      OBVIOUS
    <2> HIDE DEF x, y, Q, P, S, T
    <2> QED  BY <1>4, <1>7, <1>9, <2>1, <2>2 DEF y
  <1>11. Number + F < WordBase * WordBase
    <2>1. g + 1 <= C
      BY <1>3, <1>5
    <2>2. PICK j \in Nat : C = (g + 1) + j
      BY <1>3, <1>5, <2>1
    <2>3. WordBase * WordBase = C * T
      BY <1>3
    <2> HIDE DEF Q, T, P, S
    <2>4. C * T = (g * T + T) + j * T /\ j * T \in Nat /\ g * T \in Nat
      BY <1>5, <1>7, <2>2
    <2> DEFINE x == g * T
               y == j * T
               z == C * T
    <2>5. Number + F = x + S /\ z = (x + T) + y /\ x \in Nat /\ y \in Nat
      BY <1>10, <2>4
    <2> HIDE DEF x, y, z
    <2>6. Number + F < z
      BY <1>7, <1>9, <2>5
    <2> QED  BY <2>3, <2>6 DEF z
  <1>12. /\ s.upper \in Word /\ s.lower \in Word
         /\ s.upper.sign = distributor.sign /\ s.lower.sign = distributor.sign
         /\ Mag(s.upper) * WordBase + Mag(s.lower) = Number + F
    <2>1. u.sign = distributor.sign /\ l.sign = distributor.sign
      BY <1>2 DEF ProductSigned, u, l
    <2>2. Number = Mag(u) * WordBase + Mag(l) /\ F = Mag(distributor)
      BY DEF Number, F, Factor, u, l
    <2>3. (Mag(u) * WordBase + Mag(l)) + Mag(distributor) < WordBase * WordBase
      BY <1>11, <2>2
    <2>4. /\ s.upper \in Word /\ s.lower \in Word
          /\ s.upper.sign = u.sign /\ s.lower.sign = distributor.sign
          /\ Mag(s.upper) * WordBase + Mag(s.lower)
                = (Mag(u) * WordBase + Mag(l)) + Mag(distributor)
      BY <1>4, <2>1, <2>3, SumNumber DEF s
    <2> QED  BY <2>1, <2>2, <2>4
  <1>13. Number' = Number + F /\ ProductSigned'
    BY <1>1, <1>12 DEF Number, ProductSigned, u, l
  <1>14. /\ Mag(u) \div A = g /\ Mag(s.upper) \div A = g
    <2>1. Mag(s.upper) \in 0 .. WordBase - 1 /\ Mag(s.lower) \in 0 .. WordBase - 1
      BY <1>12, WordFields
    <2>2. Mag(u) * WordBase + Mag(l) = g * T + P
      BY <1>10 DEF Number, u, l
    <2>3. Mag(s.upper) * WordBase + Mag(s.lower) = g * T + S
      BY <1>10, <1>12
    <2> HIDE DEF P, S
    <2>4. StandsAbove(Mag(u), Mag(l), A, g, P)
      BY <1>3, <1>4, <1>5, <1>9, <2>2 DEF StandsAbove
    <2>5. StandsAbove(Mag(s.upper), Mag(s.lower), A, g, S)
      BY <1>3, <1>5, <1>9, <2>1, <2>3 DEF StandsAbove
    <2> QED  BY <2>4, <2>5, UpperDigits
  <1>15. overflow' = overflow
    <2>1. (k + 1) - 1 = k
      BY <1>2
    <2>2. Digit(Mag(s.upper), k + 1) = Digit(Mag(u), k + 1)
      BY <1>14, <2>1 DEF Digit, A
    <2>3. overflow \in BOOLEAN
      BY DEF IInv, TypeOK
    <2> QED  BY <1>1, <2>2, <2>3, Zenon
  <1>16. Upper' = Upper /\ Lower' = Lower /\ F' = F
    BY DEF Upper, Lower, F, Factor
  <1>17. Number' + (o - 1) * F = g * T + Q
    <2> DEFINE y == (o - 1) * F
               x == g * T
    <2>1. Number + F = x + S /\ S = Q - y /\ y \in Nat /\ x \in Nat
      BY <1>5, <1>7, <1>8, <1>10
    <2> HIDE DEF y, x, S, Q, T
    <2> QED  BY <1>4, <1>7, <1>13, <2>1 DEF x, y
  <1>18. CASE op_it' = op_it
    <2>1. ~Done
      BY <1>18 DEF Done, IInv, TypeOK
    <2>2. k = WordSize => o > 1
      BY <1>1, <1>2, <2>1
    <2>3. /\ Taken(shift_count)' = h /\ Remaining(shift_count)' = g
          /\ Weight[shift_count'] = A
      BY <1>1, <1>16 DEF Taken, Remaining, h, g, A, C, k
    <2>4. /\ shift_count' \in 0 .. WordSize /\ shift_count' # 0
          /\ upper_overflow' \in 0 .. Taken(shift_count)'
          /\ shift_count' = WordSize => upper_overflow' > 0
      BY <1>1, <1>2, <1>5, <1>8, <2>2, <2>3 DEF k, o
    <2>5. Number' + upper_overflow' * Factor'
             = Remaining(shift_count)' * (Weight[shift_count'] * WordBase)
                + (Lower' * Weight[shift_count'] + Factor' * Taken(shift_count)')
      BY <1>1, <1>16, <1>17, <2>3, Zenon DEF o, F
    <2> QED  BY <1>13, <1>15, <1>18, <2>4, <2>5 DEF PartialProduct
  <1>19. CASE op_it' # op_it
    <2>1. ~Again
      BY <1>19 DEF Again
    <2>2. o = 1 /\ k = WordSize
      BY <1>1, <1>2, <1>8, <2>1
    <2>3. C = 1 /\ A = WordBase /\ h = Upper /\ g = 0
      BY <1>3, <1>4, <2>2, DivisionByOne DEF h, g
    <2>4. Number' + 0 * F = 0 * T + (Lower * WordBase + F * Upper)
      BY <1>17, <2>2, <2>3
    <2>5. Number' = Product
      <3> DEFINE x == Lower * WordBase
                 y == Upper * F
      <3>1. x \in Nat /\ y \in Nat /\ F * Upper = y /\ WordBase \in Nat
        BY <1>3, <1>4
      <3>2. Number' \in Nat
        BY <1>4, <1>13
      <3> HIDE DEF x, y, T
      <3>3. Number' + 0 * F = 0 * T + (x + y)
        BY <2>4, <3>1 DEF x
      <3>4. 0 * F = 0 /\ 0 * T = 0
        BY <1>4, <1>7
      <3>5. Number' = x + y
        BY <3>1, <3>2, <3>3, <3>4
      <3> QED  BY <3>1, <3>5 DEF Product, x, y, F
    <2>6. Product' = Product
      BY <1>16 DEF Product, F
    <2> QED  BY <1>13, <1>15, <1>19, <2>5, <2>6
  <1> QED  BY <1>18, <1>19

(* The steps around the loop, which multiplication and division share.        *)
LEMMA IterativeSteps ==
    ASSUME IInv, DataWordTime, Executing, completed' = completed,
           operation \in DivideOps \cup {multiply}
    PROVE  /\ op_it \in 1 .. 5
           /\ op_it = 1 => op_it' = 2 /\ UNCHANGED member_vars
           /\ op_it = 2 =>
                 /\ op_it' \in {2, 3} /\ UNCHANGED member_vars
                 /\ op_it' = 3 => /\ upper_accumulator' = completed.upper
                                  /\ lower_accumulator' = completed.lower
                                  /\ overflow' = completed.overflow
           /\ op_it = 3 =>
                 /\ op_it' \in {3, 4} /\ distributor' = distributor
                 /\ IF operation = multiply THEN MultiplierShift \/ MultiplierAdd
                    ELSE DividendShift \/ DivisorSubtract \/ QuotientDigitDone
           /\ op_it > 3 =>
                 op_it' > 3 /\ UNCHANGED <<distributor, accumulator_vars, overflow>>
  <1>1. /\ op_end = 5
        /\ op_it = 1 => Step("Enable_Distributor")
        /\ op_it = 2 => Step("Data_to_Distributor")
        /\ op_it = 3 => Step(IF operation = multiply THEN "Multiply" ELSE "Divide")
        /\ op_it = 4 => Step("Remove_Interlock_A")
    <2>1. CASE operation = multiply
      BY <2>1, ClassSteps, StepOfFour, DataWordTimeFacts
    <2>2. CASE operation \in DivideOps /\ operation # multiply
      BY <2>2, ClassSteps, StepOfFour, DataWordTimeFacts
    <2> QED  BY <2>1, <2>2
  <1>2. /\ op_it \in 1 .. 5 /\ IterativeEffect /\ OperationStep
        /\ op_it' \in {op_it, op_it + 1}
        /\ operation \notin StoreOps /\ operation # table_lookup
    BY DataWordTimeFacts, DurationClasses DEF Executing, LoadOps, StoreOps
  <1>3. CASE op_it = 1
    <2>1. Enable
      BY <1>1, <1>2, <1>3, StepTaken
    <2> QED  BY <1>2, <1>3, <2>1 DEF Enable, Done, step_vars
  <1>4. CASE op_it = 2
    <2>1. Data_to_Distributor
      BY <1>1, <1>2, <1>4, StepTaken
    <2>2. UNCHANGED member_vars
      BY <2>1 DEF Data_to_Distributor
    <2>3. \/ op_it' = op_it /\ Untouched'
          \/ op_it' = op_it + 1 /\ DataLoaded'
      BY <1>1, <1>2, <1>4, LoadsWord DEF IterativeEffect
    <2> QED  BY <1>2, <1>4, <2>2, <2>3 DEF DataLoaded, WorkedIs
  <1>5. CASE op_it = 3
    <2>1. IF operation = multiply THEN Multiply ELSE Divide
      BY <1>1, <1>2, <1>5, StepTaken
    <2> QED  BY <1>2, <1>5, <2>1 DEF Multiply, Divide
  <1>6. CASE op_it = 4
    BY <1>1, <1>2, <1>6, RemoveTouchesNothing DEF accumulator_vars
  <1>7. CASE op_it = 5
    <2>1. op_it' = op_it /\ UNCHANGED step_vars
      BY <1>1, <1>7, NothingToDo
    <2> QED  BY <1>2, <1>7, <2>1 DEF step_vars
  <1> QED  BY <1>2, <1>3, <1>4, <1>5, <1>6, <1>7

LEMMA TimesZero ==
    ASSUME NEW n \in Nat
    PROVE  0 * n = 0 /\ n * 0 = 0 /\ n * 1 = n
  OBVIOUS

LEMMA MultiplicationBegins ==
    ASSUME IInv, IInv', completed \in Instructions!Machines, completed' = completed,
           shift_count' = 0, upper_overflow' = 0,
           upper_accumulator' = completed.upper, lower_accumulator' = completed.lower
    PROVE  PartialProduct(shift_count, upper_overflow)'
  <1> PICK F : F = Factor'
    OBVIOUS
  <1>1. /\ Upper' = Upper /\ Lower' = Lower
        /\ Mag(upper_accumulator)' = Upper /\ Mag(lower_accumulator)' = Lower
    BY DEF Upper, Lower
  <1>2. /\ Upper \in 0 .. WordBase - 1 /\ Upper \in Nat /\ Lower \in Nat
    BY LoopFacts
  <1>3. F \in Nat
    <2>1. distributor' \in Word
      BY DEF IInv, TypeOK
    <2>2. Mag(distributor') \in 0 .. WordBase - 1
      BY <2>1, WordFields
    <2>3. WordBase \in Nat
      BY BaseFacts
    <2> QED  BY <2>2, <2>3 DEF Factor
  <1>4. /\ WordSize \in Nat \ {0} /\ Weight[0] = 1 /\ Weight[WordSize] = WordBase
        /\ WordBase \in Nat \ {0} /\ WordSize - 0 = WordSize
    BY Places
  <1>5. /\ Taken(shift_count)' = 0 /\ Remaining(shift_count)' = Upper
        /\ Weight[shift_count'] = 1
    BY <1>1, <1>2, <1>4, DivisionSmall DEF Taken, Remaining
  <1>6. Number' = Upper * WordBase + Lower
    BY <1>1 DEF Number
  <1>7. Number' + upper_overflow' * F
           = Remaining(shift_count)' * (Weight[shift_count'] * WordBase)
              + (Lower * Weight[shift_count'] + F * Taken(shift_count)')
    <2> DEFINE X == Upper * (1 * WordBase)
    <2>1. X = Upper * WordBase /\ X \in Nat
      BY <1>2, <1>4
    <2>2. Number' = X + Lower
      BY <1>6, <2>1
    <2>3. Number' + 0 * F = X + (Lower * 1 + F * 0)
      <3> HIDE DEF X
      <3>1. 0 * F = 0 /\ F * 0 = 0 /\ Lower * 1 = Lower
        BY <1>2, <1>3, TimesZero
      <3>2. Number' \in Nat
        BY <1>2, <2>1, <2>2
      <3> QED  BY <1>2, <2>1, <2>2, <3>1, <3>2
    <2> QED  BY <1>5, <2>3
  <1>8. 0 \in 0 .. WordSize /\ 0 \in 0 .. 0 /\ 0 # WordSize
    BY <1>4
  <1> QED  BY <1>1, <1>5, <1>7, <1>8 DEF PartialProduct

LEMMA MultiplyingKept ==
    ASSUME IInv, IInv', DataWordTime, Executing, completed' = completed,
           completed \in Instructions!Machines, operation = multiply, Multiplying
    PROVE  Multiplying'
  <1>1. /\ op_it \in 1 .. 5
        /\ op_it = 1 => op_it' = 2 /\ UNCHANGED member_vars
        /\ op_it = 2 =>
              /\ op_it' \in {2, 3} /\ UNCHANGED member_vars
              /\ op_it' = 3 => /\ upper_accumulator' = completed.upper
                               /\ lower_accumulator' = completed.lower
                               /\ overflow' = completed.overflow
        /\ op_it = 3 =>
              /\ op_it' \in {3, 4} /\ distributor' = distributor
              /\ MultiplierShift \/ MultiplierAdd
        /\ op_it > 3 =>
              op_it' > 3 /\ UNCHANGED <<distributor, accumulator_vars, overflow>>
    BY IterativeSteps
  <1>2. distributor' = distributor => /\ Multiplicable' <=> Multiplicable
                                      /\ Product' = Product
    BY DEF Multiplicable, Product, Factor, Upper, Lower
  <1>3. CASE op_it <= 2
    <2>1. /\ shift_count = 0 /\ upper_overflow = 0
          /\ op_it' \in 1 .. 3 /\ shift_count' = 0 /\ upper_overflow' = 0
      BY <1>1, <1>3 DEF Multiplying, member_vars
    <2>2. CASE op_it' = 3
      <3>1. PartialProduct(shift_count, upper_overflow)'
        BY <1>1, <1>3, <2>1, <2>2, MultiplicationBegins
      <3> QED  BY <1>1, <1>3, <2>1, <2>2, <3>1 DEF Multiplying
    <2> QED  BY <2>1, <2>2 DEF Multiplying
  <1>4. CASE op_it = 3
    <2> SUFFICES ASSUME Multiplicable'
                 PROVE  /\ overflow' = completed'.overflow
                        /\ op_it' = 3 => PartialProduct(shift_count, upper_overflow)'
                        /\ op_it' > 3 => Number' = Product' /\ ProductSigned'
      BY <1>1, <1>4 DEF Multiplying
    <2>1. /\ Multiplicable /\ PartialProduct(shift_count, upper_overflow)
          /\ overflow = completed.overflow
      BY <1>1, <1>2, <1>4 DEF Multiplying
    <2>2. CASE MultiplierShift
      <3>1. op_it' = op_it /\ overflow' = overflow
        BY <2>2 DEF MultiplierShift, Again
      <3> QED  BY <1>1, <1>4, <2>1, <2>2, <3>1, MultiplierShiftKept
    <2>3. CASE MultiplierAdd
      BY <1>1, <1>4, <2>1, <2>3, MultiplierAddKept
    <2> QED  BY <1>1, <1>4, <2>2, <2>3
  <1>5. CASE op_it > 3
    <2>1. Number' = Number /\ (ProductSigned' <=> ProductSigned)
      BY <1>1, <1>5 DEF Number, ProductSigned, accumulator_vars
    <2>2. op_it' \in 1 .. 5 /\ op_it' > 3 /\ op_it \in Nat
      BY <1>1, <1>5 DEF IInv, TypeOK
    <2>3. Multiplicable' => overflow = completed.overflow /\ Number = Product /\ ProductSigned
      BY <1>1, <1>2, <1>5, <2>2 DEF Multiplying
    <2>4. overflow' = overflow /\ Product' = Product
      BY <1>1, <1>2, <1>5
    <2> QED  BY <2>1, <2>2, <2>3, <2>4 DEF Multiplying
  <1> QED  BY <1>1, <1>3, <1>4, <1>5

----------------------------------------------------------------------------
(* The arithmetic of a division.                                             *)
LEMMA DividendPlaces ==
    ASSUME NEW U \in Nat, NEW L \in Nat, NEW B \in Nat, NEW C \in Nat \ {0}, NEW A \in Nat,
           B = C * A
    PROVE  (U * B + L) \div C = U * A + (L \div C)
  <1> DEFINE q == L \div C
             r == L % C
             N == U * B + L
             t == U * A + q
  <1>1. q \in Nat /\ r \in 0 .. C - 1 /\ L = C * q + r
    BY DivMod, Zenon
  <1> HIDE DEF q, r
  <1>2. N \in Nat /\ t \in Int /\ N = t * C + r
    <2>1. U * B = (U * A) * C /\ U * A \in Nat /\ U * B \in Nat
      OBVIOUS
    <2> DEFINE a == U * A
               x == U * B
               y == q * C
    <2>2. a \in Nat /\ x = a * C /\ x \in Nat
      BY <2>1
    <2>3. y \in Nat /\ L = y + r
      BY <1>1
    <2>4. N = x + L /\ t = a + q
      OBVIOUS
    <2> HIDE DEF a, x, N, t
    <2>5. t * C = a * C + y /\ t \in Int
      BY <1>1, <2>2, <2>4
    <2> HIDE DEF y
    <2>6. t * C = x + y
      BY <2>2, <2>5
    <2> DEFINE v == t * C
    <2> HIDE DEF v
    <2> QED  BY <1>1, <2>2, <2>3, <2>4, <2>5, <2>6 DEF v
  <1> HIDE DEF N, t
  <1>3. N \div C = t
    BY <1>1, <1>2, DivisionUnique, Zenon
  <1> QED  BY <1>3 DEF N, t, q

(* A digit of the dividend is shifted off above the digits that are left and   *)
(* those of the quotient.                                                    *)
ShiftsOff(d, b, e, A, q) ==
    LET B == 10 * (b * A)
        z == e * (10 * A) + 10 * q
        w == ((d * b + e) * A + q) * 10
    IN  /\ w = d * B + z /\ w \in Nat /\ w % B = z
        /\ z \in 0 .. B - 1
        /\ z % (10 * A) = 10 * q

LEMMA DigitShiftedOff ==
    ASSUME NEW d \in Nat, NEW b \in Nat \ {0}, NEW e \in 0 .. b - 1,
           NEW A \in Nat \ {0}, NEW q \in 0 .. A - 1
    PROVE  ShiftsOff(d, b, e, A, q)
  <1> DEFINE B == 10 * (b * A)
             E == 10 * A
             p == 10 * q
             z == e * E + p
             w == ((d * b + e) * A + q) * 10
  <1>1. b \in Nat /\ e \in Nat /\ A \in Nat /\ q \in Nat /\ e <= b - 1 /\ q <= A - 1
        /\ b > 0 /\ A > 0
    OBVIOUS
  <1>2. w = d * B + z /\ w \in Nat
    BY <1>1
  <1>3. E \in Nat /\ E > 0 /\ p \in 0 .. E - 1 /\ p \in Nat
    BY <1>1
  <1>4. B = b * E
    BY <1>1
  <1> HIDE DEF B, E, p, w
  <1>5. PICK j \in Nat : b = (e + 1) + j
    BY <1>1
  <1>6. /\ b * E = (e * E + E) + j * E
        /\ j * E \in Nat /\ e * E \in Nat
    BY <1>1, <1>3, <1>5
  <1> DEFINE f == e * E
             g == j * E
  <1>7. z = f + p /\ B = (f + E) + g /\ f \in Nat /\ g \in Nat
    BY <1>4, <1>6
  <1> HIDE DEF f, g, z
  <1>8. z \in 0 .. B - 1 /\ B \in Nat \ {0} /\ z \in Nat
    BY <1>3, <1>7
  <1>9. z % E = p
    <2>1. z = e * E + p
      BY <1>7 DEF f
    <2> QED  BY <1>1, <1>3, <1>8, <2>1, DivisionUnique
  <1>10. w % B = z
    BY <1>2, <1>8, DivisionUnique
  <1> QED  BY <1>2, <1>3, <1>8, <1>9, <1>10 DEF B, E, p, z, w, ShiftsOff

(* The digit comes into the upper half.                                      *)
LEMMA DigitShiftedIn ==
    ASSUME NEW r \in Nat, NEW d \in Nat, NEW B \in Nat \ {0}, NEW z \in 0 .. B - 1,
           NEW w \in Nat, w = d * B + z, NEW s \in Nat, s = r * B,
           NEW x \in Nat, x * B + z = 10 * s + w
    PROVE  x = 10 * r + d
  <1> DEFINE t == 10 * r + d
             M == x * B + z
  <1>1. B \in Nat /\ z \in Nat /\ t \in Nat /\ t \in Int /\ x \in Int
    OBVIOUS
  <1>3. M = t * B + z
    <2>1. t * B = 10 * (r * B) + d * B /\ d * B \in Nat
      BY <1>1
    <2>2. M = 10 * s + w
      OBVIOUS
    <2> DEFINE f == d * B
               c == t * B
    <2>3. c = 10 * s + f /\ w = f + z /\ f \in Nat
      BY <2>1
    <2> HIDE DEF f, c, M, t
    <2>4. M = c + z
      BY <1>1, <2>2, <2>3
    <2> QED  BY <2>4 DEF c
  <1>4. M \in Nat
    BY <1>1
  <1> HIDE DEF t
  <1>5. M \div B = x
    BY <1>1, <1>4, DivisionUnique, Zenon
  <1> HIDE DEF M
  <1>6. M \div B = t
    BY <1>1, <1>3, <1>4, DivisionUnique, Zenon
  <1> QED  BY <1>5, <1>6 DEF t

LEMMA UnitsDigit ==
    ASSUME NEW a \in Nat \ {0}, NEW q \in Nat, q < 10 * a, NEW f \in Nat
    PROVE  /\ q % 10 \in 0 .. 9
           /\ (f * 10 + q) % 10 = q % 10
           /\ q % 10 # 9 => q + 1 < 10 * a /\ (q + 1) % 10 = (q % 10) + 1
  <1> DEFINE h == q \div 10
             c == q % 10
  <1>1. h \in Nat /\ c \in 0 .. 9 /\ q = 10 * h + c
    <2> DEFINE t == 10
    <2>1. t \in Nat \ {0}
      OBVIOUS
    <2> HIDE DEF t
    <2>2. (q \div t) \in Nat /\ (q % t) \in 0 .. t - 1 /\ q = t * (q \div t) + (q % t)
      BY <2>1, DivMod, Zenon
    <2> QED  BY <2>2 DEF t
  <1> HIDE DEF h, c
  <1>2. (f * 10 + q) % 10 = c
    <2>1. f * 10 + q = (f + h) * 10 + c /\ f + h \in Int /\ f * 10 + q \in Nat
      BY <1>1
    <2> QED  BY <1>1, <2>1, DivisionUnique
  <1>3. ASSUME c # 9 PROVE q + 1 < 10 * a /\ (q + 1) % 10 = c + 1
    <2>1. q + 1 = h * 10 + (c + 1) /\ c + 1 \in 0 .. 9 /\ q + 1 \in Nat
      BY <1>1, <1>3
    <2>2. (q + 1) % 10 = c + 1
      BY <1>1, <2>1, DivisionUnique
    <2>3. q + 1 < 10 * a
      BY <1>1, <1>3
    <2> QED  BY <2>2, <2>3
  <1> QED  BY <1>1, <1>2, <1>3 DEF c

----------------------------------------------------------------------------
(* The loop of a division.                                                   *)
LEMMA DividendShiftKept ==
    ASSUME IInv, completed \in Instructions!Machines, completed' = completed,
           distributor' = distributor, QuotientFits, DividendShift,
           PartialQuotient(shift_count, QuotientSoFar)
    PROVE  PartialQuotient(shift_count, QuotientSoFar)'
  <1> DEFINE k == shift_count
             A == Weight[k]
             b == Weight[WordSize - (k + 1)]
             C == Weight[WordSize - k]
             E == Weight[k + 1]
             s == IF distributor.sign = lower_accumulator.sign THEN "+" ELSE "-"
             u == upper_accumulator
             l == Signed(lower_accumulator, s)
             v == ShiftLeft(u, l)
             r == Mag(upper_accumulator)
             n == Mag(lower_accumulator)
             q == n % A
             F == Factor
  <1>1. /\ shift_next /\ shift_next' = FALSE /\ upper_overflow' = HighDigit(r)
        /\ u' = v.upper /\ lower_accumulator' = v.lower
        /\ shift_count' = CountedShift
    BY DEF DividendShift
  <1>2. /\ k \in 0 .. WordSize - 1 /\ k \in Nat /\ WordSize \in Nat
        /\ upper_overflow = 0
        /\ n = (Lower % C) * A + q
        /\ Dividend \div C = q * F + r
        /\ lower_accumulator.sign = IF k = 0 THEN completed.lower.sign ELSE QuotientSign
        /\ r < F
    <2>1. WordSize \in Nat
      BY Places
    <2>2. k \in 0 .. WordSize /\ k < WordSize
      BY <1>1 DEF PartialQuotient
    <2> QED  BY <1>1, <2>1, <2>2 DEF PartialQuotient, QuotientSoFar, Rest
  <1>3. /\ A \in Nat \ {0} /\ b \in Nat \ {0} /\ HighBase = b * A /\ C = b * 10
        /\ E = A * 10 /\ WordBase = 10 * (b * A) /\ WordBase = C * A
    BY <1>2, PlaceFacts
  <1>4. shift_count' = k + 1
    BY <1>1, <1>2 DEF CountedShift
  <1>5. /\ l \in Word /\ Mag(l) = n /\ l.sign = QuotientSign /\ u \in Word
    <2>1. s \in Signs
      BY DEF Signs
    <2>2. lower_accumulator \in Word /\ u \in Word
      BY LoopFacts
    <2>3. CASE k = 0
      <3>1. s = QuotientSign
        BY <1>2, <2>3 DEF QuotientSign
      <3>2. l = [lower_accumulator EXCEPT !.sign = s]
        BY <1>2, <2>3 DEF Signed, FirstPass
      <3> HIDE DEF s
      <3> QED  BY <2>1, <2>2, <3>1, <3>2, SignedWord
    <2>4. CASE k # 0
      <3>1. l = lower_accumulator
        BY <2>4 DEF Signed, FirstPass
      <3> QED  BY <1>2, <2>2, <2>4, <3>1
    <2> QED  BY <2>3, <2>4
  <1>6. /\ Upper \in Nat /\ Lower \in Nat /\ F \in Nat
        /\ r \in 0 .. WordBase - 1 /\ n \in 0 .. WordBase - 1 /\ r \in Nat /\ n \in Nat
    <2>1. WordBase \in Nat
      BY BaseFacts
    <2> QED  BY <2>1, LoopFacts
  <1>7. /\ WordBase \in Nat \ {0} /\ WordBase \in Nat /\ C \in Nat \ {0}
        /\ HighBase \in Nat \ {0}
    BY <1>3, BaseFacts
  <1> HIDE DEF k, A, b, C, E, s, u, l
  <1>8. q \in 0 .. A - 1 /\ q \in Nat
    <2>1. q \in 0 .. A - 1
      BY <1>3, <1>6, DivMod, Zenon
    <2> QED  BY <1>3, <2>1
  <1> DEFINE g == Lower % C
             d == g \div b
             e == Lower % b
             z == e * (10 * A) + 10 * q
  <1>9. /\ d \in 0 .. 9 /\ g = d * b + e
        /\ Lower \div b = 10 * (Lower \div C) + d
    <2>1. \A M \in Nat : \A y \in Nat \ {0} : C = y * 10 =>
             /\ (M % C) \div y \in 0 .. 9
             /\ M % C \in Nat
             /\ M % C = ((M % C) \div y) * y + (M % y)
             /\ M \div y = 10 * (M \div C) + ((M % C) \div y)
             /\ y = 1 => (M % C) \div y = M % 10
      BY NextDigit
    <2> QED  BY <1>3, <1>6, <2>1, Zenon
  <1>10. e \in 0 .. b - 1 /\ Lower \div C \in Nat
    BY <1>3, <1>6, <1>7, DivMod, Zenon
  <1> HIDE DEF d, e, g, r, n, q, F
  <1>11. d \in Nat
    BY <1>9
  <1>12. /\ n * 10 = d * WordBase + z
         /\ (n * 10) % WordBase = z
         /\ z \in 0 .. WordBase - 1
         /\ z % E = 10 * q
         /\ n * 10 \in Nat
    <2>1. n * 10 = ((d * b + e) * A + q) * 10
      BY <1>2, <1>9 DEF g
    <2>2. ShiftsOff(d, b, e, A, q)
      BY <1>3, <1>8, <1>10, <1>11, DigitShiftedOff
    <2>3. E = 10 * A
      BY <1>3
    <2> QED  BY <1>3, <2>1, <2>2, <2>3, Zenon DEF ShiftsOff
  <1>13. HighDigit(r) = 0
    <2>1. r < HighBase
      BY <1>2, <1>6, <1>7 DEF QuotientFits, F
    <2> QED  BY <1>6, <1>7, <2>1, DivisionSmall DEF HighDigit
  <1> DEFINE x == Mag(v.upper)
  <1>14. /\ x \in Nat /\ Mag(v.lower) = z /\ v.lower.sign = QuotientSign
         /\ x * WordBase + z = 10 * (r * WordBase + n) - 0 * (WordBase * WordBase)
    <2>1. /\ v.upper \in Word /\ v.lower.sign = l.sign
          /\ Mag(v.lower) = (n * 10) % WordBase
          /\ x * WordBase + Mag(v.lower)
                = 10 * (r * WordBase + n) - 0 * (WordBase * WordBase)
      <3>1. Mag(u) = r /\ Mag(l) = n
        BY <1>5 DEF u, r
      <3> QED  BY <1>5, <1>13, <3>1, ShiftedNumber DEF Base
    <2>2. x \in 0 .. WordBase - 1
      BY <2>1, WordFields
    <2> QED  BY <1>5, <1>7, <1>12, <2>1, <2>2
  <1> HIDE DEF v, x, z
  <1>15. x = 10 * r + d
    <2> DEFINE w == n * 10
               t == r * WordBase
               y == WordBase * WordBase
               a == x * WordBase
               f == d * WordBase
    <2>1. t \in Nat /\ w \in Nat /\ y \in Nat /\ a \in Nat /\ w = f + z
      BY <1>6, <1>7, <1>12, <1>14
    <2>2. a + z = 10 * (t + n) - 0 * y
      BY <1>14
    <2>3. a + z = 10 * t + w
      <3> HIDE DEF t, y, a
      <3> QED  BY <1>6, <2>1, <2>2
    <2> HIDE DEF w
    <2> QED  BY <1>6, <1>7, <1>11, <1>12, <1>14, <2>1, <2>3, DigitShiftedIn
  <1>16. Dividend \div b = (10 * q) * F + x
    <2>0. \A c \in Nat \ {0} : \A a \in Nat : WordBase = c * a =>
             (Upper * WordBase + Lower) \div c = Upper * a + (Lower \div c)
      BY <1>6, <1>7, DividendPlaces
    <2>1. Dividend \div C = Upper * A + (Lower \div C)
      <3>1. A \in Nat
        BY <1>3
      <3> QED  BY <1>3, <1>7, <2>0, <3>1, Zenon DEF Dividend
    <2>2. Dividend \div b = Upper * (10 * A) + (Lower \div b)
      <3>1. WordBase = b * (10 * A) /\ 10 * A \in Nat
        BY <1>3
      <3> QED  BY <1>3, <2>0, <3>1, Zenon DEF Dividend
    <2> DEFINE p == Upper * A
               j == Lower \div C
               y == q * F
    <2>3. p \in Nat /\ y \in Nat /\ Upper * (10 * A) = 10 * p /\ (10 * q) * F = 10 * y
      BY <1>3, <1>6, <1>8
    <2>4. p + j = y + r
      BY <1>2, <2>1
    <2>5. Dividend \div b = 10 * p + (10 * j + d)
      BY <1>9, <2>2, <2>3
    <2>6. j \in Nat
      BY <1>10
    <2> DEFINE a == Dividend \div b
               f == (10 * q) * F
    <2>7. a = 10 * p + (10 * j + d) /\ f = 10 * y
      BY <2>3, <2>5
    <2> HIDE DEF p, j, y, a, f
    <2>8. a = f + x
      BY <1>6, <1>11, <1>15, <2>3, <2>4, <2>6, <2>7
    <2> QED  BY <2>8 DEF a, f
  <1>17. (10 * q) % 10 = 0
    <2>1. 10 * q = q * 10 + 0 /\ 10 * q \in Nat /\ q \in Int
      BY <1>8
    <2> QED  BY <2>1, DivisionUnique
  <1>18. x + 0 * F < 10 * F
    <2>1. x + 0 * F = x
      BY <1>6, <1>14
    <2>2. 10 * r + d < 10 * F
      BY <1>2, <1>6, <1>9
    <2> QED  BY <1>15, <2>1, <2>2
  <1>19. /\ Upper' = Upper /\ Lower' = Lower /\ Dividend' = Dividend /\ Factor' = F
         /\ QuotientSign' = QuotientSign
    BY DEF Upper, Lower, Dividend, F, Factor, QuotientSign
  <1>20. QuotientSoFar' = 10 * q
    BY <1>1, <1>4, <1>12, <1>14 DEF QuotientSoFar, E
  <1>21. /\ shift_count' \in 0 .. WordSize /\ shift_count' > 0
         /\ upper_overflow' = 0
    BY <1>1, <1>2, <1>4, <1>13
  <1>22. Mag(lower_accumulator)' = (Lower' % Weight[WordSize - shift_count'])
                                      * Weight[shift_count'] + QuotientSoFar'
    <2>1. 10 * A = E
      BY <1>3
    <2>2. Mag(lower_accumulator)' = e * E + 10 * q
      BY <1>1, <1>14, <2>1 DEF z
    <2> QED  BY <1>4, <1>19, <1>20, <2>2 DEF e, b, E
  <1>23. Dividend' \div Weight[WordSize - shift_count'] = QuotientSoFar' * Factor' + Rest'
    BY <1>1, <1>4, <1>16, <1>19, <1>20 DEF Rest, x, b, u
  <1>24. lower_accumulator'.sign = QuotientSign'
    BY <1>1, <1>14, <1>19
  <1>25. Rest' + (QuotientSoFar' % Base) * Factor' < Base * Factor'
    BY <1>1, <1>17, <1>18, <1>19, <1>20 DEF Rest, x, u, Base
  <1> QED  BY <1>1, <1>21, <1>22, <1>23, <1>24, <1>25 DEF PartialQuotient

(* Places other than the lowest count a multiple of the base.                *)
LEMMA TensPlace ==
    ASSUME NEW k \in Nat, k > 0
    PROVE  \E a \in Nat \ {0} : Weight[k] = 10 * a
  <1>1. k - 1 \in Nat /\ (k - 1) + 1 = k
    OBVIOUS
  <1>2. Weight[k - 1] \in Nat \ {0} /\ Weight[(k - 1) + 1] = Base * Weight[k - 1]
    BY <1>1, Places
  <1> QED  BY <1>1, <1>2 DEF Base

(* A digit that is not 9 counts one subtraction more.                        *)
LEMMA DigitCounts ==
    ASSUME NEW w \in Word, Mag(w) % Base # Base - 1
    PROVE  LET v == WordOf(Mag(w) + 1, w.sign)
           IN  /\ v \in Word /\ v.sign = w.sign
               /\ Mag(v) = Mag(w) + 1
               /\ Mag(v) % Base = (Mag(w) % Base) + 1
               /\ Mag(w) % Base \in 0 .. 9
  <1> DEFINE m == Mag(w)
  <1>1. m \in 0 .. WordBase - 1 /\ w.sign \in Signs
    BY WordFields
  <1>2. HighBase \in Nat \ {0} /\ WordBase = 10 * HighBase
    BY BaseFacts DEF Base
  <1>3. m \in Nat /\ m < 10 * HighBase
    BY <1>1, <1>2
  <1> HIDE DEF m
  <1>4. /\ m % 10 \in 0 .. 9
        /\ m % 10 # 9 => m + 1 < 10 * HighBase /\ (m + 1) % 10 = (m % 10) + 1
    BY <1>2, <1>3, UnitsDigit
  <1>5. m % 10 # 9
    BY DEF m, Base
  <1>6. m + 1 \in 0 .. WordBase - 1
    BY <1>2, <1>3, <1>4, <1>5
  <1>7. WordOf(m + 1, w.sign) \in Word
        /\ Mag(WordOf(m + 1, w.sign)) = m + 1 /\ WordOf(m + 1, w.sign).sign = w.sign
    BY <1>1, <1>6, WordOfFields, WordOfType
  <1> QED  BY <1>4, <1>5, <1>7 DEF m, Base

(* What a subtraction takes from the rest it adds to the quotient.           *)
LEMMA SubtractArithmetic ==
    ASSUME NEW r \in Nat, NEW F \in Nat, NEW q \in Nat, r >= F
    PROVE  /\ r - F \in Nat
           /\ q * F + r = (q + 1) * F + (r - F)
  <1> DEFINE p == q * F
             s == (q + 1) * F
  <1>1. p \in Nat /\ s = p + F
    OBVIOUS
  <1> HIDE DEF p, s
  <1>2. p + r = s + (r - F)
    BY <1>1
  <1> QED  BY <1>2 DEF p, s

(* Nine subtractions and a rest that does not fit.                           *)
LEMMA NineTimes ==
    ASSUME NEW r \in Nat, NEW F \in Nat, NEW c \in 0 .. 9
    PROVE  /\ c = 9 /\ r >= F => r + c * F >= 10 * F
           /\ r < F => r + c * F < 10 * F
  <1>1. PICK j \in 0 .. 9 : j + c = 9
    <2>1. 9 - c \in 0 .. 9 /\ (9 - c) + c = 9
      OBVIOUS
    <2> QED  BY <2>1
  <1> DEFINE p == c * F
             s == j * F
  <1>2. p \in Nat /\ s \in Nat /\ p + s = 9 * F
    <2>1. c \in Nat /\ j \in Nat
      OBVIOUS
    <2>2. p + s = (j + c) * F
      BY <2>1
    <2> QED  BY <1>1, <2>1, <2>2
  <1>3. c = 9 => p = 9 * F
    OBVIOUS
  <1> HIDE DEF p, s
  <1>4. /\ c = 9 /\ r >= F => r + p >= 10 * F
        /\ r < F => r + p < 10 * F
    BY <1>2, <1>3
  <1> QED  BY <1>4 DEF p

LEMMA SubtractionEffect ==
    ASSUME IInv, completed \in Instructions!Machines, DivisorSubtract
    PROVE  /\ Rest \in Nat /\ Factor \in Nat /\ Rest >= Factor
           /\ Rest' = Rest - Factor
           /\ Mag(lower_accumulator) % Base \in 0 .. 9
           /\ \/ /\ Mag(lower_accumulator) % Base = 9
                 /\ overflow' = TRUE /\ Done
              \/ /\ Mag(lower_accumulator) % Base # 9
                 /\ Mag(lower_accumulator') = Mag(lower_accumulator) + 1
                 /\ Mag(lower_accumulator') % Base
                       = (Mag(lower_accumulator) % Base) + 1
                 /\ lower_accumulator'.sign = lower_accumulator.sign
                 /\ op_it' = op_it
                 /\ UNCHANGED <<overflow, shift_count>>
           /\ ~shift_next /\ ~shift_next' /\ upper_overflow' = upper_overflow
  <1>1. /\ upper_accumulator \in Word /\ lower_accumulator \in Word
        /\ Rest \in 0 .. WordBase - 1 /\ Factor \in Nat /\ WordBase \in Nat
        /\ Mag(lower_accumulator) \in 0 .. WordBase - 1
    BY LoopFacts, BaseFacts DEF Rest
  <1>2. Rest \in Nat /\ Mag(lower_accumulator) \in Nat
    BY <1>1
  <1>3. Rest >= Factor
    BY DEF DivisorSubtract, DivisorFits, Rest, Factor
  <1>4. Rest' = Rest - Factor
    <2>1. upper_accumulator' = WordOf(Rest - Factor, upper_accumulator.sign)
      BY DEF DivisorSubtract, Rest, Factor
    <2>2. Rest - Factor \in 0 .. WordBase - 1
      BY <1>1, <1>3
    <2>3. upper_accumulator.sign \in Signs
      BY <1>1, WordFields
    <2>4. Mag(WordOf(Rest - Factor, upper_accumulator.sign)) = Rest - Factor
      BY <2>2, <2>3, WordOfFields
    <2> QED  BY <2>1, <2>4 DEF Rest
  <1>5. Mag(lower_accumulator) % Base \in 0 .. 9
    <2> DEFINE t == Base
    <2>1. t \in Nat \ {0}
      BY DEF Base
    <2> HIDE DEF t
    <2>2. (Mag(lower_accumulator) % t) \in 0 .. t - 1
      BY <1>2, <2>1, DivMod, Zenon
    <2> QED  BY <2>2 DEF t, Base
  <1>6. CASE QuotientDigitFull
    BY <1>1, <1>2, <1>3, <1>4, <1>5, <1>6 DEF DivisorSubtract, QuotientDigitFull, Base
  <1>7. CASE ~QuotientDigitFull
    <2>1. lower_accumulator' = WordOf(Mag(lower_accumulator) + 1, lower_accumulator.sign)
      BY <1>7 DEF DivisorSubtract
    <2>2. Mag(lower_accumulator) % Base # Base - 1
      BY <1>7 DEF QuotientDigitFull
    <2>3. /\ lower_accumulator'.sign = lower_accumulator.sign
          /\ Mag(lower_accumulator') = Mag(lower_accumulator) + 1
          /\ Mag(lower_accumulator') % Base = (Mag(lower_accumulator) % Base) + 1
      BY <1>1, <2>1, <2>2, DigitCounts
    <2>4. op_it' = op_it /\ UNCHANGED <<overflow, shift_count>>
      BY <1>7 DEF DivisorSubtract, Again
    <2>5. Mag(lower_accumulator) % Base # 9
      BY <2>2 DEF Base
    <2>6. ~shift_next /\ ~shift_next' /\ upper_overflow' = upper_overflow
      BY DEF DivisorSubtract
    <2> QED  BY <1>2, <1>1, <1>3, <1>4, <1>5, <2>3, <2>4, <2>5, <2>6
  <1> QED  BY <1>6, <1>7

LEMMA DivisorSubtractKept ==
    ASSUME IInv, completed \in Instructions!Machines, completed' = completed,
           distributor' = distributor, QuotientFits, DivisorSubtract,
           PartialQuotient(shift_count, QuotientSoFar)
    PROVE  /\ op_it' = op_it /\ overflow' = overflow
           /\ PartialQuotient(shift_count, QuotientSoFar)'
  <1> DEFINE k == shift_count
             A == Weight[k]
             C == Weight[WordSize - k]
             g == Lower % C
             n == Mag(lower_accumulator)
             q == QuotientSoFar
             r == Rest
             F == Factor
  <1>1. /\ k \in 0 .. WordSize /\ k \in Nat /\ WordSize \in Nat
        /\ n = g * A + q
        /\ Dividend \div C = q * F + r
        /\ lower_accumulator.sign = IF k = 0 THEN completed.lower.sign ELSE QuotientSign
        /\ k > 0 /\ r + (q % Base) * F < Base * F
        /\ upper_overflow = 0
    <2>1. WordSize \in Nat
      BY Places
    <2>2. k \in 0 .. WordSize
      BY DEF PartialQuotient
    <2> QED  BY <2>1, <2>2 DEF PartialQuotient, DivisorSubtract
  <1>2. /\ WordSize - k \in Nat
        /\ A \in Nat \ {0} /\ C \in Nat \ {0}
    <2>1. WordSize - k \in Nat
      BY <1>1
    <2> QED  BY <1>1, <2>1, Places
  <1>3. PICK a \in Nat \ {0} : A = 10 * a
    BY <1>1, TensPlace
  <1>4. /\ r \in Nat /\ F \in Nat /\ r >= F /\ r' = r - F
        /\ n % Base \in 0 .. 9
        /\ \/ n % Base = 9
           \/ /\ n % Base # 9
              /\ n' = n + 1
              /\ lower_accumulator'.sign = lower_accumulator.sign
              /\ op_it' = op_it
              /\ UNCHANGED <<overflow, shift_count>>
        /\ ~shift_next /\ ~shift_next' /\ upper_overflow' = upper_overflow
    BY SubtractionEffect
  <1>5. Lower \in Nat /\ n \in Nat
    <2>1. WordBase \in Nat
      BY BaseFacts
    <2> QED  BY <2>1, LoopFacts
  <1>6. q \in Nat /\ q < 10 * a
    <2>1. (n % A) \in 0 .. A - 1
      BY <1>2, <1>5, DivMod, Zenon
    <2>2. q = n % A
      BY DEF QuotientSoFar
    <2> QED  BY <1>2, <1>3, <2>1, <2>2
  <1>7. g \in Nat
    <2>1. g \in 0 .. C - 1
      BY <1>2, <1>5, DivMod, Zenon
    <2> QED  BY <1>2, <2>1
  <1> HIDE DEF k, A, C, g, n, q, r, F
  <1>8. /\ n % 10 = q % 10
        /\ q % 10 \in 0 .. 9
        /\ q % 10 # 9 => q + 1 < 10 * a /\ (q + 1) % 10 = (q % 10) + 1
    <2>1. /\ q % 10 \in 0 .. 9
          /\ q % 10 # 9 => q + 1 < 10 * a /\ (q + 1) % 10 = (q % 10) + 1
      BY <1>6, UnitsDigit
    <2>2. g * A = (g * a) * 10 /\ g * a \in Nat
      BY <1>3, <1>7
    <2>3. \A f \in Nat : (f * 10 + q) % 10 = q % 10
      BY <1>6, UnitsDigit
    <2>4. n % 10 = q % 10
      BY <1>1, <2>2, <2>3, Zenon
    <2> QED  BY <2>1, <2>4
  <1>9. q % 10 # 9
    <2> DEFINE c == q % 10
    <2>1. c \in 0 .. 9
      BY <1>8
    <2>2. r + c * F < 10 * F
      BY <1>1 DEF Base
    <2> HIDE DEF c
    <2>3. c = 9 => r + c * F >= 10 * F
      BY <1>4, <2>1, NineTimes
    <2> DEFINE x == r + c * F
               y == 10 * F
    <2>4. x \in Nat /\ y \in Nat /\ x < y /\ (c = 9 => x >= y)
      BY <1>4, <2>1, <2>2, <2>3
    <2> HIDE DEF x, y
    <2>5. c # 9
      BY <2>4
    <2> QED  BY <2>5 DEF c
  <1>10. /\ n' = n + 1 /\ lower_accumulator'.sign = lower_accumulator.sign
         /\ op_it' = op_it /\ overflow' = overflow /\ shift_count' = shift_count
    BY <1>4, <1>8, <1>9 DEF Base
  <1>11. n' = g * A + (q + 1)
    <2> DEFINE x == g * A
    <2>1. x \in Nat /\ n = x + q
      BY <1>1, <1>2, <1>7
    <2> HIDE DEF x
    <2>2. n' = x + (q + 1)
      BY <1>6, <1>10, <2>1
    <2> QED  BY <2>2 DEF x
  <1>12. n' % A = q + 1
    <2>1. q + 1 \in 0 .. A - 1
      BY <1>3, <1>6, <1>8, <1>9
    <2>2. n + 1 \in Nat /\ g \in Int /\ n + 1 = g * A + (q + 1)
      BY <1>5, <1>7, <1>10, <1>11
    <2>3. (n + 1) \div A = g /\ (n + 1) % A = q + 1
      <3> DEFINE m == n + 1
                 j == q + 1
      <3>1. j \in 0 .. A - 1 /\ m \in Nat /\ g \in Int /\ m = g * A + j
        BY <2>1, <2>2
      <3> HIDE DEF m, j
      <3> QED  BY <1>2, <3>1, DivisionUnique DEF m, j
    <2> QED  BY <1>10, <2>3
  <1>13. /\ Upper' = Upper /\ Lower' = Lower /\ Dividend' = Dividend /\ Factor' = F
         /\ QuotientSign' = QuotientSign
    BY DEF Upper, Lower, Dividend, F, Factor, QuotientSign
  <1>14. QuotientSoFar' = q + 1
    BY <1>10, <1>12 DEF QuotientSoFar, n, A, k
  <1>15. Dividend \div C = (q + 1) * F + (r - F)
    BY <1>1, <1>4, <1>6, SubtractArithmetic
  <1>16. (r - F) + ((q + 1) % 10) * F < 10 * F
    <2> DEFINE c == q % 10
               d == (q + 1) % 10
    <2>1. c \in 0 .. 9 /\ d = c + 1 /\ c \in Nat
      BY <1>8, <1>9
    <2>2. r + c * F < 10 * F
      BY <1>1 DEF Base
    <2> HIDE DEF c, d
    <2>3. c * F + r = (c + 1) * F + (r - F)
      BY <1>4, <2>1, SubtractArithmetic
    <2> DEFINE x == c * F
               y == (c + 1) * F
    <2>4. x \in Nat /\ y \in Nat
      BY <1>4, <2>1
    <2>5. x + r = y + (r - F) /\ r + x < 10 * F
      BY <2>2, <2>3
    <2> HIDE DEF x, y
    <2>6. (r - F) + y < 10 * F
      BY <1>4, <2>4, <2>5
    <2>7. (r - F) + d * F < 10 * F
      BY <2>1, <2>6 DEF y
    <2> QED  BY <2>7 DEF d
  <1>17. Mag(lower_accumulator)' = (Lower' % Weight[WordSize - shift_count'])
                                      * Weight[shift_count'] + QuotientSoFar'
    BY <1>10, <1>11, <1>13, <1>14 DEF n, g, A, C, k
  <1>18. Dividend' \div Weight[WordSize - shift_count'] = QuotientSoFar' * Factor' + Rest'
    BY <1>4, <1>10, <1>13, <1>14, <1>15 DEF r, C, k
  <1>19. Rest' + (QuotientSoFar' % Base) * Factor' < Base * Factor'
    BY <1>4, <1>13, <1>14, <1>16 DEF r, Base
  <1>20. lower_accumulator'.sign = QuotientSign'
    BY <1>1, <1>10, <1>13
  <1> QED
    BY <1>1, <1>4, <1>10, <1>17, <1>18, <1>19, <1>20 DEF PartialQuotient, k

LEMMA QuotientDigitDoneKept ==
    ASSUME IInv, completed \in Instructions!Machines, completed' = completed,
           distributor' = distributor, operation' = operation,
           QuotientFits, QuotientDigitDone,
           PartialQuotient(shift_count, QuotientSoFar)
    PROVE  /\ overflow' = overflow
           /\ op_it' = op_it => PartialQuotient(shift_count, QuotientSoFar)'
           /\ op_it' # op_it => Divided'
  <1> DEFINE k == shift_count
             n == Mag(lower_accumulator)
             q == QuotientSoFar
             r == Rest
             F == Factor
  <1>1. /\ ~shift_next /\ shift_next' /\ ~DivisorFits /\ overflow' = overflow
        /\ lower_accumulator' = lower_accumulator /\ k' = k
        /\ upper_overflow' = upper_overflow
        /\ IF k < WordSize THEN Again ELSE Done
        /\ \/ k >= WordSize /\ operation = divide_and_reset_upper
           \/ upper_accumulator' = upper_accumulator
    BY DEF QuotientDigitDone
  <1>2. /\ k \in 0 .. WordSize /\ k \in Nat /\ WordSize \in Nat
        /\ upper_overflow = 0
        /\ n = (Lower % Weight[WordSize - k]) * Weight[k] + q
        /\ Dividend \div Weight[WordSize - k] = q * F + r
        /\ lower_accumulator.sign = IF k = 0 THEN completed.lower.sign ELSE QuotientSign
        /\ k > 0
    <2>1. WordSize \in Nat
      BY Places
    <2>2. k \in 0 .. WordSize
      BY DEF PartialQuotient
    <2> QED  BY <1>1, <2>1, <2>2 DEF PartialQuotient
  <1>3. /\ Upper \in Nat /\ Lower \in Nat /\ F \in Nat /\ r \in Nat /\ n \in Nat
        /\ WordBase \in Nat
    <2>1. WordBase \in Nat
      BY BaseFacts
    <2> QED  BY <2>1, LoopFacts DEF Rest
  <1>4. r < F
    BY <1>1, <1>2, <1>3 DEF DivisorFits, Rest, Factor
  <1>5. /\ Upper' = Upper /\ Lower' = Lower /\ Dividend' = Dividend /\ Factor' = F
        /\ QuotientSign' = QuotientSign /\ QuotientSoFar' = q
        /\ Mag(lower_accumulator)' = n
    BY <1>1 DEF Upper, Lower, Dividend, Factor, QuotientSign, QuotientSoFar
  <1>6. CASE k < WordSize
    <2>1. op_it' = op_it /\ Rest' = r
      <3>1. upper_accumulator' = upper_accumulator
        BY <1>1, <1>2, <1>6
      <3> QED  BY <1>1, <1>6, <3>1 DEF Again, Rest
    <2>2. PartialQuotient(shift_count, QuotientSoFar)'
      BY <1>1, <1>2, <1>4, <1>5, <1>6, <2>1 DEF PartialQuotient
    <2> QED  BY <1>1, <2>1, <2>2
  <1>7. CASE ~(k < WordSize)
    <2>1. k = WordSize /\ WordSize - k = 0 /\ Done
      BY <1>1, <1>2, <1>7
    <2>2. Weight[WordSize - k] = 1
      BY <2>1, Places
    <2>3. Dividend \in Nat /\ Lower % 1 = 0 /\ Dividend \div 1 = Dividend
      <3>1. Dividend \in Nat
        BY <1>3 DEF Dividend
      <3> HIDE DEF Dividend
      <3> QED  BY <1>3, <3>1, DivisionByOne
    <2>4. q \in Nat
      <3>1. Weight[k] \in Nat \ {0}
        BY <1>2, Places
      <3>2. (n % Weight[k]) \in 0 .. Weight[k] - 1
        BY <1>3, <3>1, DivMod, Zenon
      <3>3. q = n % Weight[k]
        BY DEF QuotientSoFar
      <3> QED  BY <3>1, <3>2, <3>3
    <2> HIDE DEF k, n, q, r, F
    <2>5. n = q
      <3>1. n = 0 * Weight[k] + q
        BY <1>2, <2>2, <2>3
      <3>2. Weight[k] \in Nat
        BY <1>2, Places
      <3> QED  BY <1>3, <2>4, <3>1, <3>2
    <2>6. Dividend = q * F + r
      BY <1>2, <2>2, <2>3
    <2>7. Dividend \div F = q /\ Dividend % F = r
      <3>1. F \in Nat \ {0} /\ q \in Int /\ r \in 0 .. F - 1
        BY <1>3, <1>4, <2>4
      <3> QED  BY <2>3, <2>6, <3>1, DivisionUnique
    <2>8. operation' = divide => Rest' = r
      <3>1. operation = divide => operation # divide_and_reset_upper
        BY DEF divide, divide_and_reset_upper
      <3>2. operation = divide => upper_accumulator' = upper_accumulator
        BY <1>1, <3>1
      <3> QED  BY <3>2 DEF Rest, r
    <2>9. Divided'
      BY <1>1, <1>2, <1>5, <2>5, <2>7, <2>8 DEF Divided, n
    <2>10. op_it' # op_it
      BY <2>1 DEF Done, IInv, TypeOK
    <2> QED  BY <1>1, <2>9, <2>10
  <1> QED  BY <1>6, <1>7

(* A quotient that is too long makes the first digit of it too large.         *)
LEMMA DigitTooLargeShift ==
    ASSUME IInv, completed \in Instructions!Machines, completed' = completed,
           distributor' = distributor, QuotientTooLong, DividendShift, DigitTooLarge
    PROVE  DigitTooLarge'
  <1> DEFINE s == IF distributor.sign = lower_accumulator.sign THEN "+" ELSE "-"
             u == upper_accumulator
             l == Signed(lower_accumulator, s)
             v == ShiftLeft(u, l)
             r == Mag(upper_accumulator)
             n == Mag(lower_accumulator)
             F == Factor
             x == Mag(v.upper)
             y == Mag(v.lower)
  <1>1. /\ shift_next /\ shift_next' = FALSE /\ upper_overflow' = HighDigit(r)
        /\ u' = v.upper /\ lower_accumulator' = v.lower
    BY DEF DividendShift
  <1>2. r = Upper /\ r >= F /\ HighDigit(r) = 0
    BY <1>1 DEF DigitTooLarge, Rest, QuotientTooLong
  <1>3. l \in Word /\ Mag(l) = n /\ u \in Word
    <2>1. s \in Signs
      BY DEF Signs
    <2>2. lower_accumulator \in Word /\ u \in Word
      BY LoopFacts
    <2> HIDE DEF s
    <2> QED  BY <2>1, <2>2, SignedWord DEF Signed
  <1>4. /\ F \in Nat /\ n \in Nat /\ n < WordBase /\ r \in Nat
        /\ WordBase \in Nat \ {0} /\ HighBase \in Nat \ {0} /\ WordBase = 10 * HighBase
    <2>1. WordBase \in Nat \ {0} /\ HighBase \in Nat \ {0} /\ WordBase = 10 * HighBase
      BY BaseFacts DEF Base
    <2>2. /\ F \in Nat /\ n \in 0 .. WordBase - 1 /\ r \in 0 .. WordBase - 1
      BY LoopFacts
    <2> QED  BY <2>1, <2>2
  <1> HIDE DEF s, u, l, r, n, F
  <1>5. /\ x \in 0 .. WordBase - 1 /\ y \in 0 .. WordBase - 1
        /\ y = (n * 10) % WordBase
        /\ x * WordBase + y = 10 * (r * WordBase + n) - 0 * (WordBase * WordBase)
    <2>1. Mag(u) = r
      BY DEF u, r
    <2>2. /\ v.upper \in Word /\ v.lower \in Word
          /\ y = (n * 10) % WordBase
          /\ x * WordBase + y = 10 * (r * WordBase + n) - 0 * (WordBase * WordBase)
      BY <1>2, <1>3, <2>1, ShiftedNumber DEF Base
    <2> HIDE DEF v
    <2> QED  BY <2>2, WordFields
  <1> DEFINE w == n * 10
             d == w \div WordBase
  <1>6. w \in Nat /\ d \in Nat /\ w = d * WordBase + y
    <2>1. w \in Nat
      BY <1>4
    <2> HIDE DEF w
    <2>2. d \in Nat /\ w = WordBase * d + (w % WordBase)
      BY <1>4, <2>1, DivMod, Zenon
    <2>3. y = w % WordBase
      BY <1>5 DEF w
    <2>4. WordBase * d = d * WordBase
      BY <1>4, <2>2
    <2> QED  BY <2>1, <2>2, <2>3, <2>4
  <1> HIDE DEF d
  <1>7. x = 10 * r + d
    <2> DEFINE t == r * WordBase
               p == WordBase * WordBase
               a == x * WordBase
    <2>1. t \in Nat /\ p \in Nat /\ a \in Nat /\ y \in Nat /\ x \in Nat
      BY <1>4, <1>5
    <2>2. a + y = 10 * (t + n) - 0 * p
      BY <1>5
    <2>3. w = 10 * n
      BY <1>4
    <2> HIDE DEF a, w
    <2>4. a + y = 10 * t + w
      <3> HIDE DEF t, p
      <3> QED  BY <1>4, <2>1, <2>2, <2>3
    <2>5. x * WordBase + y = 10 * t + w
      BY <2>4 DEF a
    <2> HIDE DEF x, y
    <2> QED  BY <1>4, <1>5, <1>6, <2>1, <2>5, DigitShiftedIn
  <1>8. y % 10 = 0
    <2> DEFINE j == d * HighBase
    <2>1. j \in Nat /\ d * WordBase = 10 * j
      BY <1>4, <1>6
    <2>2. n * 10 = 10 * j + y
      BY <1>6, <2>1
    <2> HIDE DEF j, x, y, w
    <2>3. y \in Nat
      BY <1>4, <1>5
    <2>4. y = (n - j) * 10 + 0 /\ n - j \in Int
      BY <1>4, <2>1, <2>2, <2>3
    <2> QED  BY <2>3, <2>4, DivisionUnique
  <1> HIDE DEF v, x, y
  <1>9. Rest' = x /\ Mag(lower_accumulator') = y /\ ~shift_next' /\ upper_overflow' = 0
    BY <1>1, <1>2 DEF Rest, x, y, u
  <1>10. x + 0 * F >= 10 * F
    <2>1. x + 0 * F = x
      BY <1>4, <1>6, <1>7
    <2>2. 10 * r + d >= 10 * F
      BY <1>2, <1>4, <1>6
    <2> QED  BY <1>7, <2>1, <2>2
  <1>11. Factor' = F
    BY DEF Factor, F
  <1>12. Rest' + (Mag(lower_accumulator') % Base) * Factor' >= Base * Factor'
    BY <1>8, <1>9, <1>10, <1>11 DEF Base
  <1> QED  BY <1>9, <1>12 DEF DigitTooLarge

LEMMA DivisionBegins ==
    ASSUME IInv, IInv', completed \in Instructions!Machines, completed' = completed,
           shift_count' = 0, upper_overflow' = 0, shift_next',
           upper_accumulator' = completed.upper, lower_accumulator' = completed.lower
    PROVE  /\ QuotientFits' => PartialQuotient(shift_count, QuotientSoFar)'
           /\ QuotientTooLong' => DigitTooLarge'
  <1>1. /\ Upper' = Upper /\ Lower' = Lower /\ Dividend' = Dividend
        /\ Rest' = Upper /\ Mag(lower_accumulator') = Lower
        /\ lower_accumulator'.sign = completed'.lower.sign
    BY DEF Upper, Lower, Dividend, Rest
  <1>2. /\ Upper \in Nat /\ Lower \in 0 .. WordBase - 1 /\ Lower \in Nat
        /\ WordBase \in Nat \ {0}
    BY LoopFacts, BaseFacts
  <1>3. /\ WordSize \in Nat \ {0} /\ Weight[0] = 1 /\ Weight[WordSize] = WordBase
        /\ WordSize - 0 = WordSize
    BY Places
  <1>4. Lower % 1 = 0
    BY <1>2, DivisionByOne
  <1>5. Lower % WordBase = Lower
    BY <1>2, DivisionSmall
  <1>6. Dividend \div WordBase = Upper
    <2>1. Dividend \in Nat /\ Dividend = Upper * WordBase + Lower /\ Upper \in Int
      BY <1>2 DEF Dividend
    <2> QED  BY <1>2, <2>1, DivisionUnique
  <1>7. distributor' \in Word /\ Factor' \in Nat
    <2>1. distributor' \in Word
      BY DEF IInv, TypeOK
    <2>2. Mag(distributor') \in 0 .. WordBase - 1
      BY <2>1, WordFields
    <2> QED  BY <1>2, <2>1, <2>2 DEF Factor
  <1>8. QuotientSoFar' = 0
    BY <1>1, <1>3, <1>4 DEF QuotientSoFar
  <1>9. ASSUME QuotientFits' PROVE PartialQuotient(shift_count, QuotientSoFar)'
    <2>1. Rest' < Factor'
      BY <1>1, <1>9 DEF QuotientFits
    <2>2. Mag(lower_accumulator') = (Lower' % Weight[WordSize - shift_count'])
                                       * Weight[shift_count'] + QuotientSoFar'
      <3>1. Lower = Lower * 1 + 0
        BY <1>2
      <3>2. Weight[WordSize - shift_count'] = WordBase /\ Weight[shift_count'] = 1
        BY <1>3
      <3>3. Lower' % Weight[WordSize - shift_count'] = Lower
        BY <1>1, <1>5, <3>2
      <3> QED  BY <1>1, <1>8, <3>1, <3>2, <3>3
    <2>3. Dividend' \div Weight[WordSize - shift_count']
             = QuotientSoFar' * Factor' + Rest'
      <3>1. Weight[WordSize - shift_count'] = WordBase
        BY <1>3
      <3>2. \A F \in Nat : Upper = 0 * F + Upper
        BY <1>2
      <3>3. Upper = 0 * Factor' + Upper
        BY <1>7, <3>2
      <3> QED  BY <1>1, <1>6, <1>8, <3>1, <3>3
    <2>4. 0 \in 0 .. WordSize /\ 0 < WordSize
      BY <1>3
    <2> QED  BY <1>1, <2>1, <2>2, <2>3, <2>4 DEF PartialQuotient
  <1>10. ASSUME QuotientTooLong' PROVE DigitTooLarge'
    BY <1>1, <1>10 DEF DigitTooLarge
  <1> QED  BY <1>9, <1>10

LEMMA DigitTooLargeSubtract ==
    ASSUME IInv, completed \in Instructions!Machines, distributor' = distributor,
           DivisorSubtract, DigitTooLarge
    PROVE  /\ op_it' = op_it => DigitTooLarge'
           /\ op_it' # op_it => overflow'
  <1> DEFINE r == Rest
             F == Factor
             c == Mag(lower_accumulator) % Base
  <1>1. /\ r \in Nat /\ F \in Nat /\ r >= F /\ Rest' = r - F
        /\ c \in 0 .. 9
        /\ \/ overflow' = TRUE /\ Done
           \/ /\ Mag(lower_accumulator') % Base = c + 1
              /\ op_it' = op_it
        /\ ~shift_next /\ ~shift_next' /\ upper_overflow' = upper_overflow
    BY SubtractionEffect
  <1>2. upper_overflow = 0 /\ r + c * F >= Base * F
    BY <1>1 DEF DigitTooLarge
  <1>3. Factor' = F
    BY DEF Factor
  <1> HIDE DEF r, F, c
  <1>4. CASE overflow' = TRUE /\ Done
    BY <1>4 DEF Done, IInv, TypeOK
  <1>5. CASE Mag(lower_accumulator') % Base = c + 1 /\ op_it' = op_it
    <2>1. c \in Nat
      BY <1>1
    <2>2. c * F + r = (c + 1) * F + (r - F)
      BY <1>1, <2>1, SubtractArithmetic
    <2> DEFINE x == c * F
               y == (c + 1) * F
               z == Base * F
    <2>3. x \in Nat /\ y \in Nat /\ z \in Nat
      BY <1>1, <2>1 DEF Base
    <2>4. x + r = y + (r - F) /\ r + x >= z
      BY <1>2, <2>2
    <2> HIDE DEF x, y, z
    <2>5. (r - F) + y >= z
      BY <1>1, <2>3, <2>4
    <2>6. Rest' + (Mag(lower_accumulator') % Base) * Factor' >= Base * Factor'
      BY <1>1, <1>3, <1>5, <2>5 DEF y, z
    <2> QED  BY <1>1, <1>2, <1>5, <2>6 DEF DigitTooLarge
  <1> QED  BY <1>1, <1>4, <1>5

LEMMA DigitTooLargeNotDone ==
    ASSUME IInv, completed \in Instructions!Machines, DigitTooLarge
    PROVE  ~QuotientDigitDone
  <1> SUFFICES ASSUME QuotientDigitDone PROVE FALSE
    OBVIOUS
  <1> DEFINE r == Rest
             F == Factor
             n == Mag(lower_accumulator)
             c == n % Base
  <1>1. upper_overflow = 0 /\ r + c * F >= Base * F
    BY DEF DigitTooLarge, QuotientDigitDone
  <1>2. r \in Nat /\ F \in Nat /\ n \in Nat
    <2>1. WordBase \in Nat
      BY BaseFacts
    <2> QED  BY <2>1, LoopFacts DEF Rest
  <1>3. r < F
    BY <1>1, <1>2 DEF QuotientDigitDone, DivisorFits, Rest, Factor
  <1>4. c \in 0 .. 9
    <2> DEFINE t == Base
    <2>1. t \in Nat \ {0}
      BY DEF Base
    <2> HIDE DEF t, n
    <2>2. (n % t) \in 0 .. t - 1
      BY <1>2, <2>1, DivMod, Zenon
    <2> QED  BY <2>2 DEF t, Base
  <1> HIDE DEF r, F, c
  <1>5. r + c * F < 10 * F
    BY <1>2, <1>3, <1>4, NineTimes
  <1> DEFINE x == r + c * F
             y == 10 * F
  <1>6. x \in Nat /\ y \in Nat /\ x < y /\ x >= y
    BY <1>1, <1>2, <1>4, <1>5 DEF Base
  <1> HIDE DEF x, y
  <1> QED  BY <1>6

LEMMA DividingKept ==
    ASSUME IInv, IInv', DataWordTime, Executing, completed' = completed,
           completed \in Instructions!Machines, operation \in DivideOps, Dividing
    PROVE  Dividing'
  <1>1. /\ op_it \in 1 .. 5
        /\ op_it = 1 => op_it' = 2 /\ UNCHANGED member_vars
        /\ op_it = 2 =>
              /\ op_it' \in {2, 3} /\ UNCHANGED member_vars
              /\ op_it' = 3 => /\ upper_accumulator' = completed.upper
                               /\ lower_accumulator' = completed.lower
                               /\ overflow' = completed.overflow
        /\ op_it = 3 =>
              /\ op_it' \in {3, 4} /\ distributor' = distributor
              /\ DividendShift \/ DivisorSubtract \/ QuotientDigitDone
        /\ op_it > 3 =>
              op_it' > 3 /\ UNCHANGED <<distributor, accumulator_vars, overflow>>
        /\ operation' = operation
    <2>1. operation # multiply
      BY DEF DivideOps, divide, divide_and_reset_upper, multiply
    <2>2. operation' = operation
      BY DataWordTimeFacts
    <2> QED  BY <2>1, <2>2, IterativeSteps
  <1>2. distributor' = distributor => /\ QuotientFits' <=> QuotientFits
                                      /\ QuotientTooLong' <=> QuotientTooLong
    BY DEF QuotientFits, QuotientTooLong, Factor, Upper
  <1>3. CASE op_it <= 2
    <2>1. /\ op_it' \in 1 .. 3
          /\ shift_count' = 0 /\ upper_overflow' = 0 /\ shift_next'
      <3>1. op_it' \in 1 .. 3 /\ UNCHANGED member_vars
        BY <1>1, <1>3
      <3>2. shift_count = 0 /\ upper_overflow = 0 /\ shift_next
        BY <1>3 DEF Dividing
      <3> QED  BY <3>1, <3>2, Zenon DEF member_vars
    <2>2. CASE op_it' = 3
      <3>1. /\ QuotientFits' => PartialQuotient(shift_count, QuotientSoFar)'
            /\ QuotientTooLong' => DigitTooLarge'
        BY <1>1, <1>3, <2>1, <2>2, DivisionBegins
      <3>2. op_it = 2
        BY <1>1, <1>3, <2>2
      <3> QED  BY <1>1, <2>1, <2>2, <3>1, <3>2 DEF Dividing
    <2> QED  BY <2>1, <2>2 DEF Dividing
  <1>4. CASE op_it = 3
    <2>1. ASSUME QuotientFits'
          PROVE  /\ overflow' = completed'.overflow
                 /\ op_it' = 3 => PartialQuotient(shift_count, QuotientSoFar)'
                 /\ op_it' > 3 => Divided'
      <3>1. /\ QuotientFits /\ PartialQuotient(shift_count, QuotientSoFar)
            /\ overflow = completed.overflow
        BY <1>1, <1>2, <1>4, <2>1 DEF Dividing
      <3>2. CASE DividendShift
        <4>1. op_it' = op_it /\ overflow' = overflow
          BY <3>2 DEF DividendShift, Again
        <4> QED  BY <1>1, <1>4, <3>1, <3>2, <4>1, DividendShiftKept
      <3>3. CASE DivisorSubtract
        BY <1>1, <1>4, <3>1, <3>3, DivisorSubtractKept
      <3>4. CASE QuotientDigitDone
        BY <1>1, <1>4, <3>1, <3>4, QuotientDigitDoneKept
      <3> QED  BY <1>1, <1>4, <3>2, <3>3, <3>4
    <2>2. ASSUME QuotientTooLong'
          PROVE  /\ op_it' = 3 => DigitTooLarge'
                 /\ op_it' > 3 => overflow'
      <3>1. QuotientTooLong /\ DigitTooLarge
        BY <1>1, <1>2, <1>4, <2>2 DEF Dividing
      <3>2. CASE DividendShift
        <4>1. op_it' = op_it
          BY <3>2 DEF DividendShift, Again
        <4> QED  BY <1>1, <1>4, <3>1, <3>2, <4>1, DigitTooLargeShift
      <3>3. CASE DivisorSubtract
        BY <1>1, <1>4, <3>1, <3>3, DigitTooLargeSubtract
      <3>4. ~QuotientDigitDone
        BY <3>1, DigitTooLargeNotDone
      <3> QED  BY <1>1, <1>4, <3>2, <3>3, <3>4
    <2>3. op_it' \in {3, 4}
      BY <1>1, <1>4
    <2> QED  BY <2>1, <2>2, <2>3 DEF Dividing
  <1>5. CASE op_it > 3
    <2>1. Divided' <=> Divided
      BY <1>1, <1>5 DEF Divided, Dividend, Upper, Lower, Factor, Rest, QuotientSign,
                        accumulator_vars
    <2>2. op_it' \in 1 .. 5 /\ op_it' > 3 /\ op_it \in Nat
      BY <1>1, <1>5 DEF IInv, TypeOK
    <2>3. /\ QuotientFits' => overflow = completed.overflow /\ Divided
          /\ QuotientTooLong' => overflow
      BY <1>1, <1>2, <1>5, <2>2 DEF Dividing
    <2>4. overflow' = overflow
      BY <1>1, <1>5
    <2> QED  BY <2>1, <2>2, <2>3, <2>4 DEF Dividing
  <1> QED  BY <1>1, <1>3, <1>4, <1>5

----------------------------------------------------------------------------
(* Every step of the machine keeps what the loops have reached.               *)
LEMMA InitIterating == HInit => Iterating
  BY DEF HInit, Init, Iterating

LEMMA IterationBegins ==
    ASSUME BeginData
    PROVE  Iterating'
  <1>1. /\ operation' = operation_register /\ op_it' = 1
        /\ upper_overflow' = 0 /\ shift_next'
        /\ shift_count' = IF operation_register \in ShiftOps THEN InitialShiftCount ELSE 0
    BY DEF BeginData
  <1>2. operation' = multiply \/ operation' \in DivideOps => shift_count' = 0
    BY <1>1 DEF ShiftOps, DivideOps, multiply, divide, divide_and_reset_upper,
                shift_right, shift_and_round, shift_left, shift_left_and_count
  <1> QED  BY <1>1, <1>2 DEF Iterating, Multiplying, Dividing

LEMMA NextIterating ==
    ASSUME IInv, IInv', Simulated, Iterating, [HNext]_hvars
    PROVE  Iterating'
  <1>1. CASE HNext
    <2>1. /\ Next /\ TypeOK'
          /\ completed' = IF InHalfCycle' THEN completed ELSE Machine'
      BY <1>1 DEF HNext, IInv
    <2> SUFFICES ASSUME pc' = "data" PROVE Iterating'
      BY DEF Iterating
    <2>2. ~ManualStart /\ ~ManualAbort
      BY DEF Simulated, ManualStart, ManualAbort
    <2>3. ~(Run \/ EndInstruction \/ EndData \/ InstructionWordTime)
      BY DEF Run, EndInstruction, EndData, InstructionWordTime
    <2>4. ~(InstructionAbort \/ DecodeAbort \/ DataAbort)
      BY DEF InstructionAbort, DecodeAbort, DataAbort, Abort
    <2>5. CASE BeginData
      BY <2>5, IterationBegins
    <2>6. CASE DataWordTime
      <3>1. pc = "data" /\ operation' = operation
        BY <2>6 DEF DataWordTime
      <3>2. completed' = completed
        BY <2>1 DEF InHalfCycle
      <3>3. Executing /\ completed \in Instructions!Machines
        BY <3>1 DEF Simulated
      <3>4. operation = multiply => Multiplying'
        BY <2>6, <3>1, <3>2, <3>3, MultiplyingKept DEF Iterating
      <3>5. operation \in DivideOps => Dividing'
        BY <2>6, <3>1, <3>2, <3>3, DividingKept DEF Iterating
      <3> QED  BY <3>1, <3>4, <3>5 DEF Iterating
    <2> QED  BY <2>1, <2>2, <2>3, <2>4, <2>5, <2>6 DEF Next, ProgramStart, RunStep
  <1>2. CASE UNCHANGED hvars
    <2>1. UNCHANGED <<completed, distributor, upper_accumulator, lower_accumulator,
                      overflow, operation, op_it, pc, shift_count, upper_overflow,
                      shift_next>>
      BY <1>2 DEF hvars, vars, machine_vars, register_vars, flag_vars, local_vars,
                  member_vars
    <2>2. Multiplying' <=> Multiplying
      BY <2>1 DEF Multiplying, Multiplicable, PartialProduct, ProductSigned, Product,
                  Number, Taken, Remaining, Factor, Upper, Lower
    <2>3. Dividing' <=> Dividing
      BY <2>1 DEF Dividing, QuotientFits, QuotientTooLong, PartialQuotient, DigitTooLarge,
                  Divided, Dividend, QuotientSign, QuotientSoFar, Rest, Factor, Upper, Lower
    <2> QED  BY <2>1, <2>2, <2>3 DEF Iterating
  <1> QED  BY <1>1, <1>2

(* The numbers of the machine that a data half-cycle completes.                *)
LEMMA IterationEnds ==
    ASSUME IInv, IInv', Simulated, Iterating, HNext,
           Completes(DivideOps \cup {multiply})
    PROVE  /\ completed.operation = operation
           /\ op_it > 3 /\ op_it # 3 /\ op_it > 2
           /\ operation = multiply => Multiplying
           /\ operation \in DivideOps => Dividing
           /\ Accumulated20(completed') = Number
           /\ Mag(completed'.distributor) = Factor
           /\ Mag(completed'.upper) = Rest
           /\ completed'.distributor.sign = distributor.sign
           /\ completed'.upper.sign = upper_accumulator.sign
           /\ completed'.lower = lower_accumulator
           /\ completed'.overflow = overflow
           /\ Mag(completed.upper) = Upper /\ Mag(completed.lower) = Lower
  <1>1. /\ pc = "data" /\ completed' = Machine
        /\ completed.operation = operation /\ operation \in DivideOps \cup {multiply}
        /\ op_it = op_end /\ op_it \in 1 .. 5
    BY CompletedAtEnd
  <1>2. op_end = 5
    <2>1. CASE operation = multiply
      BY <1>1, <2>1, ClassSteps, StepOfFour
    <2>2. CASE operation \in DivideOps
      BY <1>1, <2>2, ClassSteps, StepOfFour
    <2> QED  BY <1>1, <2>1, <2>2
  <1>3. /\ completed'.distributor = distributor /\ completed'.upper = upper_accumulator
        /\ completed'.lower = lower_accumulator /\ completed'.overflow = overflow
    BY <1>1 DEF Machine
  <1>4. /\ operation = multiply => Multiplying
        /\ operation \in DivideOps => Dividing
    BY <1>1 DEF Iterating
  <1>5. Accumulated20(completed') = Number
    BY <1>3 DEF Accumulated20, Number
  <1>6. /\ Mag(completed'.distributor) = Factor /\ Mag(completed'.upper) = Rest
        /\ Mag(completed.upper) = Upper /\ Mag(completed.lower) = Lower
    BY <1>3 DEF Factor, Rest, Upper, Lower
  <1> QED  BY <1>1, <1>2, <1>3, <1>4, <1>5, <1>6

(* A multiplication leaves the product, with the lower half added to the      *)
(* upper half of it, under the sign of the multiplicand, and no overflow of   *)
(* its own, when the multiplier does not end in 0 and the result fits: for    *)
(* every size of the machine and every drum and program.                     *)
THEOREM ProductsExact == HSpec => ProductExact
  <1> DEFINE Inv == IInv /\ Progress /\ Simulated /\ Iterating
             A == LET result == Mag(completed.upper) * Multiplicand
                                   + Mag(completed.lower) * WordBase
                  IN  /\ Completes({multiply})
                      /\ Mag(completed.upper) % Base # 0
                      /\ result < WordBase * WordBase
                      => /\ Accumulated20(completed') = result
                         /\ completed'.lower.sign = completed'.distributor.sign
                         /\ completed'.upper.sign = completed'.distributor.sign
                         /\ completed'.overflow = completed.overflow
  <1>1. HInit => Inv
    BY InitInvariant, InitProgress, InitSimulated, InitIterating DEF HInit
  <1>2. Inv /\ [HNext]_hvars => Inv' /\ [A]_hvars
    <2> SUFFICES ASSUME Inv, [HNext]_hvars PROVE Inv' /\ [A]_hvars
      OBVIOUS
    <2>1. [ConsoleNext]_vars
      BY DEF HNext, ConsoleNext, hvars
    <2>2. IInv'
      BY <2>1, NextInvariant
    <2>3. Progress' /\ Simulated' /\ Iterating'
      BY <2>2, NextProgress, NextSimulated, NextIterating
    <2>4. ASSUME HNext, Completes({multiply}) PROVE A
      <3> SUFFICES ASSUME Mag(completed.upper) % Base # 0,
                          Mag(completed.upper) * Multiplicand
                             + Mag(completed.lower) * WordBase < WordBase * WordBase
                   PROVE  /\ Accumulated20(completed')
                                = Mag(completed.upper) * Multiplicand
                                     + Mag(completed.lower) * WordBase
                          /\ completed'.lower.sign = completed'.distributor.sign
                          /\ completed'.upper.sign = completed'.distributor.sign
                          /\ completed'.overflow = completed.overflow
        OBVIOUS
      <3>1. operation = multiply /\ Completes(DivideOps \cup {multiply})
        BY <2>2, <2>4, CompletedAtEnd DEF Completes
      <3>2. /\ op_it > 3 /\ op_it > 2 /\ Multiplying
            /\ Accumulated20(completed') = Number
            /\ Multiplicand = Factor
            /\ completed'.distributor.sign = distributor.sign
            /\ completed'.upper.sign = upper_accumulator.sign
            /\ completed'.lower = lower_accumulator
            /\ completed'.overflow = overflow
            /\ Mag(completed.upper) = Upper /\ Mag(completed.lower) = Lower
        BY <2>2, <2>4, <3>1, IterationEnds DEF Multiplicand
      <3>3. Upper * Factor + Lower * WordBase = Product
        BY DEF Product
      <3>4. Multiplicable
        BY <3>2, <3>3 DEF Multiplicable
      <3>5. Number = Product /\ ProductSigned /\ overflow = completed.overflow
        BY <3>2, <3>4 DEF Multiplying
      <3> QED  BY <3>2, <3>3, <3>5 DEF ProductSigned
    <2> QED  BY <2>2, <2>3, <2>4 DEF Completes
  <1> HIDE DEF Inv
  <1> QED  BY <1>1, <1>2, PTL DEF HSpec, ProductExact

(* A division by at most 10^9 leaves quotient and remainder if the quotient   *)
(* fits, and sets overflow if it does not and the dividend has a 0 in front: *)
(* for every size of the machine and every drum and program.                 *)
THEOREM QuotientsExact == HSpec => QuotientExact
  <1> DEFINE Inv == IInv /\ Progress /\ Simulated /\ Iterating
             A == Completes(DivideOps) /\ Divisor <= HighBase =>
                    /\ Mag(completed.upper) < Divisor => QuotientAndRemainder
                    /\ /\ Mag(completed.upper) >= Divisor
                       /\ HighDigit(Mag(completed.upper)) = 0
                       => completed'.overflow
  <1>1. HInit => Inv
    BY InitInvariant, InitProgress, InitSimulated, InitIterating DEF HInit
  <1>2. Inv /\ [HNext]_hvars => Inv' /\ [A]_hvars
    <2> SUFFICES ASSUME Inv, [HNext]_hvars PROVE Inv' /\ [A]_hvars
      OBVIOUS
    <2>1. [ConsoleNext]_vars
      BY DEF HNext, ConsoleNext, hvars
    <2>2. IInv'
      BY <2>1, NextInvariant
    <2>3. Progress' /\ Simulated' /\ Iterating'
      BY <2>2, NextProgress, NextSimulated, NextIterating
    <2>4. ASSUME HNext, Completes(DivideOps), Divisor <= HighBase PROVE A
      <3>1. operation \in DivideOps /\ Completes(DivideOps \cup {multiply})
        BY <2>2, <2>4, CompletedAtEnd DEF Completes
      <3>2. /\ op_it > 3 /\ op_it > 2 /\ Dividing /\ completed.operation = operation
            /\ Divisor = Factor /\ Mag(completed'.upper) = Rest
            /\ completed'.distributor.sign = distributor.sign
            /\ completed'.lower = lower_accumulator
            /\ completed'.overflow = overflow
            /\ Mag(completed.upper) = Upper
        BY <2>2, <2>4, <3>1, IterationEnds DEF Divisor
      <3>3. ASSUME Mag(completed.upper) < Divisor PROVE QuotientAndRemainder
        <4>1. QuotientFits
          BY <2>4, <3>2, <3>3 DEF QuotientFits
        <4>2. Divided /\ overflow = completed.overflow
          BY <3>2, <4>1 DEF Dividing
        <4>3. Accumulated20(completed) = Dividend
          BY DEF Accumulated20, Dividend, Upper, Lower
        <4> QED  BY <3>2, <4>2, <4>3 DEF Divided, QuotientAndRemainder, QuotientSign
      <3>4. ASSUME Mag(completed.upper) >= Divisor, HighDigit(Mag(completed.upper)) = 0
            PROVE  completed'.overflow
        <4>1. QuotientTooLong
          BY <2>4, <3>2, <3>4 DEF QuotientTooLong
        <4> QED  BY <3>2, <4>1 DEF Dividing
      <3> QED  BY <3>3, <3>4
    <2> QED  BY <2>2, <2>3, <2>4 DEF Completes
  <1> HIDE DEF Inv
  <1> QED  BY <1>1, <1>2, PTL DEF HSpec, QuotientExact

----------------------------------------------------------------------------
(* Table lookup.  The address register counts the words passed since the     *)
(* start of the first band, one with every turn of the drum.                 *)
Ahead == address_register - completed.address
FirstBand == band_of_address(completed.address)

PassedBy(n) == \A k \in 0 .. n - 1 : ~Matches(k)

Found(n) ==
    /\ n \in 0 .. (NBands - FirstBand) * BandSize - 1
    /\ Matches(n)
    /\ PassedBy(n)

Comparing == ~(drum_index > 0 /\ lookup_band = -1)

Finding ==
    /\ op_it = 1 => lookup_band = -1 /\ Ahead = 0
    /\ op_it = 2 =>
          /\ PassedBy(Ahead)
          /\ ~Comparing => Ahead = 0
          /\ Comparing => /\ LookupBand >= FirstBand
                          /\ Ahead = BandSize * (LookupBand - FirstBand) + drum_index
    /\ op_it \in {3, 4} => Found(Ahead)
    /\ op_it = 5 =>
          \E n : /\ Found(n)
                 /\ lower_accumulator.da = (completed.address + n) % AddressBase

LookupFinding == pc = "data" /\ operation = table_lookup => Finding

LEMMA PassedPlace ==
    ASSUME NEW m \in Nat, NEW j \in 0 .. BandSize - 1
    PROVE  /\ BandSize * m + j \in Nat
           /\ (BandSize * m + j) \div BandSize = m
           /\ (BandSize * m + j) % BandSize = j
  <1> DEFINE s == BandSize
             n == s * m + j
  <1>1. s \in Nat \ {0} /\ m \in Int /\ n \in Nat /\ n = m * s + j
    BY SizesAssumption
  <1> HIDE DEF s
  <1>2. j \in 0 .. s - 1
    BY DEF s
  <1>3. n \div s = m /\ n % s = j
    <2> HIDE DEF n
    <2> QED  BY <1>1, <1>2, DivisionUnique
  <1> QED  BY <1>1, <1>3 DEF s

LEMMA BandAhead ==
    ASSUME NEW a \in Addresses, NEW m \in Nat
    PROVE  band_of_address(a + BandSize * m) = band_of_address(a) + m
  <1> DEFINE s == BandSize
             q == a \div s
             r == a % s
             n == a + s * m
  <1>1. s \in Nat \ {0} /\ s \in Nat /\ a \in Nat
    BY SizesAssumption DEF Addresses
  <1> HIDE DEF s
  <1>2. q \in Nat /\ r \in 0 .. s - 1 /\ a = s * q + r
    BY <1>1, DivMod, Zenon
  <1> HIDE DEF q, r
  <1>3. n \in Nat /\ q + m \in Int /\ n = (q + m) * s + r
    <2> DEFINE x == s * q
               y == s * m
    <2>1. x \in Nat /\ y \in Nat /\ (q + m) * s = x + y /\ q + m \in Int
      BY <1>1, <1>2
    <2>2. a = x + r /\ n = a + y
      BY <1>2
    <2> DEFINE z == (q + m) * s
    <2>3. z = x + y
      BY <2>1
    <2> HIDE DEF x, y, z, n
    <2> QED  BY <1>1, <1>2, <2>1, <2>2, <2>3 DEF z
  <1>4. n \div s = q + m
    <2> HIDE DEF n
    <2> QED  BY <1>1, <1>2, <1>3, DivisionUnique, Zenon
  <1> QED  BY <1>4 DEF band_of_address, s, q

(* What a word time compares is the next word after those that were passed.   *)
LEMMA WordCompared ==
    ASSUME IInv, completed.address \in Addresses, Untouched,
           LookupBand \in Nat, LookupBand < NBands, LookupBand >= FirstBand,
           Ahead = BandSize * (LookupBand - FirstBand) + drum_index
    PROVE  /\ Ahead \in 0 .. (NBands - FirstBand) * BandSize - 1
           /\ Ahead \in Nat
           /\ LookupPasses <=> ~Matches(Ahead)
  <1> DEFINE s == BandSize
             f == FirstBand
             m == LookupBand - f
             n == s * m + drum_index
  <1>1. /\ drum_index \in 0 .. s - 1 /\ drum_index \in Nat
        /\ s \in Nat \ {0} /\ s \in Nat /\ NBands \in Nat
    BY SizesAssumption DEF IInv, TypeOK, DrumTypeOK, Indices
  <1>2. f \in Nat
    BY BandOfAddress DEF FirstBand
  <1>3. m \in Nat /\ f + m = LookupBand /\ m + 1 <= NBands - f /\ NBands - f \in Nat
    <2> HIDE DEF f
    <2> QED  BY <1>1, <1>2 DEF f
  <1>4. n \in Nat /\ n \div s = m /\ n % s = drum_index
    <2> HIDE DEF m
    <2> QED  BY <1>1, <1>3, PassedPlace
  <1>5. Ahead = n
    BY DEF f
  <1>6. n \in 0 .. (NBands - f) * s - 1
    <2> DEFINE t == NBands - f
    <2>1. t \in Nat /\ m + 1 <= t
      BY <1>3
    <2> HIDE DEF t, m, f, s
    <2>2. PICK k \in Nat : t = (m + 1) + k
      <3>1. t - (m + 1) \in Nat /\ t = (m + 1) + (t - (m + 1))
        BY <1>3, <2>1
      <3> QED  BY <3>1
    <2>3. t * s = (s * m + s) + k * s /\ k * s \in Nat /\ s * m \in Nat
      BY <1>1, <1>3, <2>2
    <2> DEFINE x == s * m
               y == k * s
               z == t * s
    <2>4. z = (x + s) + y /\ x \in Nat /\ y \in Nat
      BY <2>3
    <2>5. n = x + drum_index
      OBVIOUS
    <2> HIDE DEF x, y, z, n
    <2>6. n \in 0 .. z - 1
      BY <1>1, <2>4, <2>5
    <2> QED  BY <2>6 DEF z, t
  <1>7. LookupPasses <=> ~Matches(n)
    <2>1. Entry(n) = DrumRead(LookupBand)
      <3>1. completed.storage = drum_storage
        BY DEF Untouched, WorkedIs
      <3>2. Entry(n) = completed.storage[f + (n \div s)][n % s]
        BY DEF Entry, FirstBand
      <3> HIDE DEF n, m, f, s
      <3> QED  BY <1>3, <1>4, <3>1, <3>2 DEF DrumRead
    <2>2. completed.distributor = distributor
      BY DEF Untouched, WorkedIs
    <2>3. Matches(n) <=> drum_index < s - 2 /\ ~Less(DrumRead(LookupBand), distributor)
      <3> HIDE DEF n
      <3> QED  BY <1>4, <2>1, <2>2 DEF Matches, s
    <2>4. drum_index < s - 2 <=> ~(s - drum_index <= 2)
      BY <1>1
    <2> HIDE DEF n
    <2> QED  BY <2>3, <2>4 DEF LookupPasses, s
  <1> HIDE DEF n
  <1> QED  BY <1>4, <1>5, <1>6, <1>7 DEF f, s

LEMMA LookUpFindingKept ==
    ASSUME IInv, IInv', DataWordTime, Counted, completed' = completed,
           completed.address \in Addresses, Untouched,
           operation = table_lookup, Look_Up_Address, LookingUp,
           address_register' = SteppedAddress,
           op_it = 2, op_it' \in {2, 3}, Finding
    PROVE  /\ op_it' = 2 =>
                /\ PassedBy(Ahead)'
                /\ ~Comparing' => Ahead' = 0
                /\ Comparing' =>
                      /\ LookupBand' >= FirstBand'
                      /\ Ahead' = BandSize * (LookupBand' - FirstBand') + drum_index'
           /\ op_it' = 3 => Found(Ahead)'
  <1> DEFINE s == BandSize
             f == FirstBand
             a == completed.address
             b == LookupBand
  <1>1. /\ drum_index \in 0 .. s - 1 /\ drum_index \in Nat /\ s \in Nat \ {0} /\ s \in Nat
        /\ drum_index' = IF drum_index = s - 1 THEN 0 ELSE drum_index + 1
        /\ a \in Nat /\ address_register \in Nat /\ address_register' \in Int
        /\ lookup_band \in Int
    <2>1. TypeOK /\ DrumStep /\ address_register \in Addresses
      BY DataWordTimeFacts
    <2>2. address_register' \in Addresses
      BY <2>1, SteppedAddressType
    <2>3. drum_index' = IF drum_index = s - 1 THEN 0 ELSE drum_index + 1
      BY <2>1, DrumTurns
    <2> QED
      BY <2>1, <2>2, <2>3, SizesAssumption DEF TypeOK, DrumTypeOK, Indices, Addresses
  <1>2. f \in Nat /\ FirstBand' = f /\ completed.address' = a
    BY BandOfAddress DEF FirstBand
  <1>3. \A n : (Matches(n)' <=> Matches(n)) /\ (PassedBy(n)' <=> PassedBy(n))
               /\ (Found(n)' <=> Found(n))
    BY DEF Matches, Entry, PassedBy, Found, FirstBand
  <1>4. CASE ~Comparing
    <2>1. /\ drum_index > 0 /\ lookup_band = -1 /\ word_times <= drum_index
      BY <1>4 DEF Comparing, LookingUp
    <2>2. /\ lookup_band' = -1 /\ op_it' = op_it /\ SteppedAddress = address_register
      BY <2>1, LookUpWaits
    <2>3. Ahead = 0 /\ address_register' = address_register /\ address_register = a
      <3>1. Ahead = 0 /\ address_register' = address_register
        BY <1>4, <2>2 DEF Finding
      <3> QED  BY <1>1, <3>1 DEF Ahead
    <2>4. Ahead' = 0
      BY <2>3 DEF Ahead
    <2>5. PassedBy(Ahead)'
      BY <1>3, <2>4 DEF PassedBy
    <2>6. ASSUME Comparing'
          PROVE  /\ LookupBand' >= FirstBand'
                 /\ Ahead' = BandSize * (LookupBand' - FirstBand') + drum_index'
      <3>1. drum_index' = 0
        BY <1>1, <2>2, <2>6 DEF Comparing
      <3>2. LookupBand' = f
        BY <2>3, <3>1 DEF LookupBand, FirstBand
      <3>3. f >= f /\ f - f = 0 /\ s * 0 + 0 = 0
        BY <1>1, <1>2
      <3> HIDE DEF f, s
      <3>4. s * (LookupBand' - FirstBand') + drum_index' = 0
        BY <1>2, <3>1, <3>2, <3>3
      <3> QED  BY <1>2, <2>4, <3>2, <3>3, <3>4 DEF s
    <2> QED  BY <2>2, <2>4, <2>5, <2>6
  <1>5. CASE Comparing
    <2>1. /\ b \in Nat /\ b < NBands
          /\ BandSize * b <= address_register - drum_index
          /\ address_register - drum_index < BandSize * b + BandSize
          /\ word_times <= BandSize * b + BandSize + drum_index
      BY <1>5, LookUpPlace DEF Comparing
    <2>2. b >= f /\ Ahead = s * (b - f) + drum_index /\ PassedBy(Ahead)
      BY <1>5 DEF Finding
    <2>3. /\ Ahead \in 0 .. (NBands - f) * s - 1 /\ Ahead \in Nat
          /\ LookupPasses <=> ~Matches(Ahead)
      BY <2>1, <2>2, WordCompared
    <2>4. lookup_band' = b /\ (op_it' = op_it => SteppedAddress = address_register + 1)
      <3> HIDE DEF b
      <3>1. b = LookupBand
        BY DEF b
      <3> QED  BY <2>1, <3>1, LookUpCompares
    <2>5. /\ op_it' = op_it => LookupPasses
          /\ op_it' # op_it => ~LookupPasses
      <3>1. op_it \in Nat /\ ~(LookupBand < 0)
        BY <2>1
      <3> QED  BY <3>1 DEF Look_Up_Address, Again, Done
    <2>6. CASE op_it' = 3
      <3>1. SteppedAddress = address_register
        BY <2>5, <2>6 DEF SteppedAddress
      <3>2. Ahead' = Ahead
        BY <3>1 DEF Ahead
      <3>3. Found(Ahead)
        BY <2>2, <2>3, <2>5, <2>6 DEF Found
      <3>4. Found(Ahead)'
        BY <1>3, <3>2, <3>3 DEF Found, PassedBy, Matches, Entry, FirstBand
      <3> QED  BY <2>6, <3>4
    <2>7. CASE op_it' = 2
      <3>1. address_register' = address_register + 1
        BY <2>4, <2>7
      <3>2. Ahead' = Ahead + 1
        BY <1>1, <2>3, <3>1 DEF Ahead
      <3>3. PassedBy(Ahead)'
        <4>1. ~Matches(Ahead)
          BY <2>3, <2>5, <2>7
        <4>2. \A k \in 0 .. Ahead : ~Matches(k)
          <5> SUFFICES ASSUME NEW k \in 0 .. Ahead PROVE ~Matches(k)
            OBVIOUS
          <5>1. k \in 0 .. Ahead - 1 \/ k = Ahead
            BY <2>3
          <5> QED  BY <2>2, <4>1, <5>1 DEF PassedBy
        <4>3. (Ahead + 1) - 1 = Ahead
          BY <2>3
        <4>4. \A k \in 0 .. Ahead' - 1 : ~Matches(k)'
          BY <1>3, <3>2, <4>2, <4>3
        <4> QED  BY <4>4 DEF PassedBy
      <3>4. Comparing'
        BY <1>1, <2>1, <2>4 DEF Comparing
      <3> DEFINE m == b - f
      <3>5. m \in Nat /\ b = f + m /\ Ahead = s * m + drum_index
        BY <1>2, <2>1, <2>2
      <3> HIDE DEF b, f
      <3>6. CASE drum_index # s - 1
        <4>1. drum_index' = drum_index + 1
          BY <1>1, <3>6
        <4>2. LookupBand' = b
          <5>1. drum_index' # 0
            BY <1>1, <4>1
          <5> QED  BY <2>4, <5>1 DEF LookupBand
        <4>3. Ahead' = s * m + drum_index'
          <5> DEFINE x == s * m
          <5>1. x \in Nat /\ Ahead = x + drum_index
            BY <1>1, <3>5
          <5> HIDE DEF x, m
          <5>2. Ahead' = x + drum_index'
            BY <1>1, <3>2, <4>1, <5>1
          <5> QED  BY <5>2 DEF x
        <4> QED  BY <1>2, <2>2, <2>7, <3>3, <3>4, <4>2, <4>3
      <3>7. CASE drum_index = s - 1
        <4>1. drum_index' = 0
          BY <1>1, <3>7
        <4>2. s * (m + 1) = s * m + s /\ s * m \in Nat
          BY <1>1, <3>5
        <4>3. Ahead' = s * (m + 1)
          <5> DEFINE x == s * m
          <5>1. x \in Nat /\ Ahead = x + drum_index /\ s * (m + 1) = x + s
            BY <3>5, <4>2
          <5> DEFINE y == s * (m + 1)
          <5> HIDE DEF x, m, y
          <5>2. y = x + s
            BY <5>1 DEF y
          <5>3. Ahead' = y
            BY <1>1, <3>2, <3>7, <5>1, <5>2
          <5> QED  BY <5>3 DEF y
        <4>4. address_register' = a + s * (m + 1)
          <5> DEFINE y == s * (m + 1)
          <5>1. y \in Nat /\ Ahead' = address_register' - a /\ Ahead' = y
            BY <1>1, <1>2, <3>5, <4>2, <4>3 DEF Ahead
          <5> HIDE DEF y
          <5>2. address_register' = a + y
            BY <1>1, <5>1
          <5> QED  BY <5>2 DEF y
        <4>5. LookupBand' = f + (m + 1)
          <5>1. band_of_address(a + s * (m + 1)) = f + (m + 1)
            <6>1. m + 1 \in Nat
              BY <3>5
            <6> HIDE DEF m
            <6> QED  BY <6>1, BandAhead DEF f, FirstBand
          <5>2. LookupBand' = band_of_address(address_register')
            BY <4>1 DEF LookupBand, band_of_address
          <5> QED  BY <4>4, <5>1, <5>2
        <4>6. LookupBand' - f = m + 1 /\ LookupBand' >= f
          <5> HIDE DEF m
          <5> QED  BY <1>2, <3>5, <4>5
        <4>7. Ahead' = s * (LookupBand' - f) + 0
          <5> DEFINE y == s * (m + 1)
          <5>1. y = y + 0
            BY <1>1, <3>5, <4>2
          <5> QED  BY <4>3, <4>6, <5>1
        <4> QED  BY <1>2, <2>7, <3>3, <3>4, <4>1, <4>6, <4>7
      <3> QED  BY <3>6, <3>7
    <2> QED  BY <2>6, <2>7
  <1> QED  BY <1>4, <1>5

LEMMA FindingKept ==
    ASSUME IInv, IInv', DataWordTime, Counted, Executing, completed' = completed,
           completed \in Instructions!Machines, operation = table_lookup,
           SearchComesLast, LookUpProgress, Finding
    PROVE  Finding'
  <1> DEFINE a == completed.address
             f == FirstBand
  <1>1. /\ op_end = 5
        /\ op_it = 1 => Step("Enable_Position_Set")
        /\ op_it = 2 => Step("Look_Up_Address")
        /\ op_it = 3 => Step("Address_to_Program_Register")
        /\ op_it = 4 => Step("Insert_Address_in_Lower")
    <2>1. op_seq = <<"Enable_Position_Set", "Look_Up_Address",
                     "Address_to_Program_Register", "Insert_Address_in_Lower">>
      BY ClassSteps
    <2> QED  BY <2>1, DataWordTimeFacts, StepOfFour
  <1>2. /\ op_it \in 1 .. 5
        /\ op_it' \in {op_it, op_it + 1}
        /\ op_it = op_end => op_it' = op_end
        /\ OperationStep /\ address_register \in Addresses
    BY <1>1, DataWordTimeFacts
  <1>3. op_it' # op_end => address_register' = SteppedAddress
    <2>1. operation \notin ArithmeticOps
      BY DurationClasses
    <2> QED  BY <2>1, SearchAdvances
  <1>4. /\ a \in Addresses /\ a \in Nat /\ f \in Nat
        /\ address_register \in Nat /\ AddressBase \in Nat \ {0}
    <2>1. a \in Addresses
      BY DEF Executing
    <2>2. f \in Nat
      BY <2>1, BandOfAddress DEF FirstBand
    <2> QED  BY <1>2, <2>1, <2>2, SizesAssumption DEF Addresses
  <1>5. op_it <= 4 => Untouched
    BY DEF Executing, LookUpEffect
  <1>6. \A n : Found(n)' <=> Found(n)
    BY DEF Matches, Entry, PassedBy, Found, FirstBand
  <1>7. CASE op_it = 1
    <2>1. Enable /\ ~Step("Look_Up_Address")
      BY <1>1, <1>2, <1>7, StepTaken DEF Step
    <2>2. op_it' = 2 /\ lookup_band' = -1
      BY <1>7, <2>1 DEF LookUpProgress, Enable, Done, step_vars, member_vars
    <2>3. address_register' = address_register /\ Ahead = 0
      BY <1>1, <1>3, <1>7, <2>1, <2>2 DEF SteppedAddress, Finding
    <2>4. address_register = a
      BY <1>4, <2>3 DEF Ahead
    <2>5. Ahead' = 0
      BY <2>3 DEF Ahead
    <2>6. PassedBy(Ahead)'
      BY <2>5 DEF PassedBy
    <2>7. ASSUME Comparing'
          PROVE  /\ LookupBand' >= FirstBand'
                 /\ Ahead' = BandSize * (LookupBand' - FirstBand') + drum_index'
      <3>1. drum_index' = 0
        <4>1. drum_index' \in Nat
          BY SizesAssumption DEF IInv, TypeOK, DrumTypeOK, Indices
        <4> QED  BY <2>2, <2>7, <4>1 DEF Comparing
      <3>2. LookupBand' = f /\ FirstBand' = f
        BY <2>3, <2>4, <3>1 DEF LookupBand, FirstBand
      <3>3. f >= f /\ f - f = 0 /\ BandSize * 0 + 0 = 0
        BY <1>4, SizesAssumption
      <3> HIDE DEF f
      <3>4. BandSize * (LookupBand' - FirstBand') + drum_index' = 0
        BY <3>1, <3>2, <3>3
      <3> QED  BY <2>5, <3>2, <3>3, <3>4
    <2> QED  BY <2>2, <2>5, <2>6, <2>7 DEF Finding
  <1>8. CASE op_it = 2
    <2>1. Look_Up_Address /\ LookingUp
      BY <1>1, <1>2, <1>8, StepTaken DEF LookUpProgress
    <2>2. op_it' \in {2, 3} /\ address_register' = SteppedAddress
      BY <1>1, <1>2, <1>3, <1>8
    <2>3. /\ op_it' = 2 =>
               /\ PassedBy(Ahead)'
               /\ ~Comparing' => Ahead' = 0
               /\ Comparing' =>
                     /\ LookupBand' >= FirstBand'
                     /\ Ahead' = BandSize * (LookupBand' - FirstBand') + drum_index'
          /\ op_it' = 3 => Found(Ahead)'
      BY <1>4, <1>5, <1>8, <2>1, <2>2, LookUpFindingKept
    <2> QED  BY <2>2, <2>3 DEF Finding
  <1>9. CASE op_it = 3
    <2>1. Enable /\ ~Step("Look_Up_Address")
      BY <1>1, <1>2, <1>9, StepTaken DEF Step
    <2>2. op_it' = 4
      BY <1>9, <2>1 DEF Enable, Done
    <2>3. address_register' = address_register /\ Found(Ahead)
      BY <1>1, <1>3, <1>9, <2>1, <2>2 DEF SteppedAddress, Finding
    <2>4. Ahead' = Ahead
      BY <2>3 DEF Ahead
    <2>5. Found(Ahead)'
      BY <2>3, <2>4 DEF Matches, Entry, PassedBy, Found, FirstBand
    <2> QED  BY <2>2, <2>5 DEF Finding
  <1>10. CASE op_it = 4
    <2>1. Insert_Address_in_Lower /\ Found(Ahead)
      BY <1>1, <1>2, <1>10, StepTaken DEF Finding
    <2>2. op_it' = 5
      BY <1>10, <2>1 DEF Insert_Address_in_Lower, Done
    <2>3. lower_accumulator'.da = address_register
      <3>1. lower_accumulator \in Word
        BY DEF IInv, TypeOK
      <3> QED  BY <2>1, <3>1 DEF Insert_Address_in_Lower, Word
    <2>4. address_register = (completed'.address + Ahead) % AddressBase
      <3>1. a + Ahead = address_register
        BY <1>4 DEF Ahead
      <3>2. address_register % AddressBase = address_register
        BY <1>2, <1>4, DivisionSmall DEF Addresses
      <3> QED  BY <3>1, <3>2
    <2>5. \E n : Found(n)' /\ lower_accumulator'.da = (completed'.address + n) % AddressBase
      <3>1. Found(Ahead) /\ lower_accumulator'.da = (completed'.address + Ahead) % AddressBase
        BY <2>1, <2>3, <2>4
      <3> PICK n : n = Ahead
        OBVIOUS
      <3>2. Found(n)' /\ lower_accumulator'.da = (completed'.address + n) % AddressBase
        BY <1>6, <3>1
      <3> QED  BY <3>2
    <2> QED  BY <2>2, <2>5 DEF Finding
  <1>11. CASE op_it = 5
    <2>1. op_it' = 5 /\ lower_accumulator' = lower_accumulator
      BY <1>1, <1>2, <1>11, NothingToDo DEF step_vars, accumulator_vars
    <2>2. PICK n : /\ Found(n)
                   /\ lower_accumulator.da = (completed.address + n) % AddressBase
      BY <1>11 DEF Finding
    <2>3. Found(n)' /\ lower_accumulator'.da = (completed'.address + n) % AddressBase
      BY <1>6, <2>1, <2>2
    <2> QED  BY <2>1, <2>3 DEF Finding
  <1> QED  BY <1>2, <1>7, <1>8, <1>9, <1>10, <1>11

LEMMA InitFinding == HInit => LookupFinding
  BY DEF HInit, Init, LookupFinding

LEMMA FindingBegins ==
    ASSUME IInv, BeginData, completed = Machine, completed' = completed,
           completed \in Instructions!Machines
    PROVE  LookupFinding'
  <1>1. op_it' = 1 /\ lookup_band' = -1 /\ address_register' = address_register
    BY DEF BeginData
  <1>2. address_register # Blank /\ address_register \in Addresses \cup {Blank}
    BY DEF BeginData, IInv, OperationPending, TypeOK
  <1>3. completed.address = address_register /\ address_register \in Nat
    BY <1>2, MachineIs, SizesAssumption DEF Addresses
  <1>4. Ahead' = 0
    BY <1>1, <1>3 DEF Ahead
  <1> QED  BY <1>1, <1>4 DEF LookupFinding, Finding

LEMMA NextFinding ==
    ASSUME IInv, IInv', Progress, Simulated, LookupFinding, [HNext]_hvars
    PROVE  LookupFinding'
  <1>1. CASE HNext
    <2>1. /\ Next /\ TypeOK'
          /\ completed' = IF InHalfCycle' THEN completed ELSE Machine'
      BY <1>1 DEF HNext, IInv
    <2> SUFFICES ASSUME pc' = "data", operation' = table_lookup PROVE LookupFinding'
      BY DEF LookupFinding
    <2>2. ~ManualStart /\ ~ManualAbort
      BY DEF Simulated, ManualStart, ManualAbort
    <2>3. ~(Run \/ EndInstruction \/ EndData \/ InstructionWordTime)
      BY DEF Run, EndInstruction, EndData, InstructionWordTime
    <2>4. ~(InstructionAbort \/ DecodeAbort \/ DataAbort)
      BY DEF InstructionAbort, DecodeAbort, DataAbort, Abort
    <2>5. completed' = completed
      BY <2>1 DEF InHalfCycle
    <2>6. CASE BeginData
      <3>1. completed = Machine /\ completed \in Instructions!Machines
        BY <2>6 DEF Simulated, BeginData, InHalfCycle
      <3> QED  BY <2>5, <2>6, <3>1, FindingBegins
    <2>7. CASE DataWordTime
      <3>1. pc = "data" /\ operation = table_lookup
        BY <2>7 DEF DataWordTime
      <3>2. Executing /\ completed \in Instructions!Machines /\ Finding
        BY <3>1 DEF Simulated, LookupFinding
      <3>3. SearchComesLast /\ LookUpProgress
        BY <3>1 DEF Progress, DataProgress
      <3>4. Counted
        BY <1>1, <2>7, DataWordTimeFacts, WordTimeCounted DEF Progress, Counted
      <3>5. Finding'
        BY <2>5, <2>7, <3>1, <3>2, <3>3, <3>4, FindingKept
      <3> QED  BY <3>5 DEF LookupFinding
    <2> QED  BY <2>1, <2>2, <2>3, <2>4, <2>6, <2>7 DEF Next, ProgramStart, RunStep
  <1>2. CASE UNCHANGED hvars
    <2>1. UNCHANGED <<completed, lower_accumulator, operation, op_it, pc, lookup_band,
                      drum_index, address_register>>
      BY <1>2 DEF hvars, vars, machine_vars, drum_vars, register_vars, local_vars,
                  member_vars
    <2>2. /\ Ahead' = Ahead /\ FirstBand' = FirstBand /\ LookupBand' = LookupBand
          /\ Comparing' = Comparing
      BY <2>1 DEF Ahead, FirstBand, LookupBand, band_of_address, Comparing
    <2>3. \A n : (PassedBy(n)' <=> PassedBy(n)) /\ (Found(n)' <=> Found(n))
      BY <2>1 DEF Matches, Entry, PassedBy, Found, FirstBand
    <2>4. PassedBy(Ahead)' = PassedBy(Ahead) /\ Found(Ahead)' = Found(Ahead)
      BY <2>1, <2>2 DEF PassedBy, Found, Matches, Entry, FirstBand
    <2>5. Finding => Finding'
      BY <2>1, <2>2, <2>3, <2>4 DEF Finding
    <2> QED  BY <2>1, <2>5 DEF LookupFinding
  <1> QED  BY <1>1, <1>2

(* Table lookup finds the first entry that is not below the argument and adds *)
(* its place to the D-address: for every size of the machine, every drum and  *)
(* program, and wherever the drum stood when the search began.                *)
THEOREM LookupsFindFirst == HSpec => LookupFindsFirst
  <1> DEFINE Inv == IInv /\ Progress /\ Simulated /\ LookupFinding
             A == Completes({table_lookup}) =>
                    \E n \in 0 .. (NBands - band_of_address(completed.address))
                                      * BandSize - 1 :
                       /\ Matches(n)
                       /\ \A k \in 0 .. n - 1 : ~Matches(k)
                       /\ completed'.lower.da = (completed.address + n) % AddressBase
  <1>1. HInit => Inv
    BY InitInvariant, InitProgress, InitSimulated, InitFinding DEF HInit
  <1>2. Inv /\ [HNext]_hvars => Inv' /\ [A]_hvars
    <2> SUFFICES ASSUME Inv, [HNext]_hvars PROVE Inv' /\ [A]_hvars
      OBVIOUS
    <2>1. [ConsoleNext]_vars
      BY DEF HNext, ConsoleNext, hvars
    <2>2. IInv'
      BY <2>1, NextInvariant
    <2>3. Progress' /\ Simulated' /\ LookupFinding'
      BY <2>2, NextProgress, NextSimulated, NextFinding
    <2>4. ASSUME HNext, Completes({table_lookup}) PROVE A
      <3>1. /\ pc = "data" /\ completed' = Machine /\ operation = table_lookup
            /\ op_it = op_end /\ op_it \in 1 .. 5
        BY <2>2, <2>4, CompletedAtEnd
      <3>2. op_it = 5
        <4>1. op_seq = <<"Enable_Position_Set", "Look_Up_Address",
                         "Address_to_Program_Register", "Insert_Address_in_Lower">>
          BY <3>1, ClassSteps
        <4> QED  BY <3>1, <4>1, StepOfFour
      <3>3. completed'.lower = lower_accumulator
        BY <3>1 DEF Machine
      <3>4. PICK n : /\ Found(n)
                     /\ lower_accumulator.da = (completed.address + n) % AddressBase
        BY <3>1, <3>2 DEF LookupFinding, Finding
      <3> QED  BY <3>3, <3>4 DEF Found, PassedBy, FirstBand
    <2> QED  BY <2>2, <2>3, <2>4 DEF Completes
  <1> HIDE DEF Inv
  <1> QED  BY <1>1, <1>2, PTL DEF HSpec, LookupFindsFirst
=============================================================================
