-------------------------- MODULE ArithmeticResults --------------------------
(***************************************************************************)
(* What the digit-by-digit operations leave, as arithmetic: products,        *)
(* quotients, rounded shifts and looked-up addresses, with the conditions    *)
(* under which the code computes them.  Each is an action property of the    *)
(* step that completes the data half-cycle.                                  *)
(***************************************************************************)
EXTENDS HalfCycles

(* The accumulator as one number; the data word the operation has fetched.   *)
Accumulated20(m) == Mag(m.upper) * WordBase + Mag(m.lower)

Completes(ops) ==
    /\ completed.half_cycle = "data"
    /\ completed'.half_cycle = "instruction"
    /\ completed.operation \in ops

Multiplicand == Mag(completed'.distributor)
Divisor == Mag(completed'.distributor)

(* A multiplication leaves the product, with the lower half added to the      *)
(* upper half of it, under the sign of the multiplicand, and no overflow of   *)
(* its own, when the multiplier does not end in 0 and the result fits.        *)
ProductExact ==
    [][LET result == Mag(completed.upper) * Multiplicand
                     + Mag(completed.lower) * WordBase
       IN  /\ Completes({multiply})
           /\ Mag(completed.upper) % Base # 0
           /\ result < WordBase * WordBase
           => /\ Accumulated20(completed') = result
              /\ completed'.lower.sign = completed'.distributor.sign
              /\ completed'.upper.sign = completed'.distributor.sign
              /\ completed'.overflow = completed.overflow]_hvars

QuotientAndRemainder ==
    LET dividend == Accumulated20(completed)
    IN  /\ Mag(completed'.lower) = dividend \div Divisor
        /\ completed.operation = divide =>
              Mag(completed'.upper) = dividend % Divisor
        /\ completed'.lower.sign =
              IF completed'.distributor.sign = completed.lower.sign THEN "+" ELSE "-"
        /\ completed'.overflow = completed.overflow

(* A division by at most 10^9 leaves quotient and remainder if the quotient   *)
(* fits, and sets overflow if it does not and the dividend has a 0 in front:  *)
(* then no digit but 0 is shifted off the dividend.                          *)
QuotientExact ==
    [][Completes(DivideOps) /\ Divisor <= HighBase =>
          /\ Mag(completed.upper) < Divisor => QuotientAndRemainder
          /\ Mag(completed.upper) >= Divisor /\ HighDigit(Mag(completed.upper)) = 0 =>
                completed'.overflow]_hvars

(* "Subtract the distributor until the sign changes" (Divide): whenever the   *)
(* quotient fits, the division leaves it.                                    *)
QuotientAlwaysExact ==
    [][Completes(DivideOps) /\ Mag(completed.upper) < Divisor =>
          QuotientAndRemainder]_hvars

(* The accumulator is shifted by n places and holds the nearest number,       *)
(* halves away from zero.                                                    *)
NearestAfter(n) ==
    Accumulated20(completed') =
       (Accumulated20(completed) + 5 * Weight[n - 1]) \div Weight[n]

(* A shift with rounding by more than one place leaves the nearest number,    *)
(* with the carry of the 5 through both halves.                              *)
RoundsToNearest ==
    [][LET n == Instructions!Places(completed.address)
       IN  Completes({shift_and_round}) /\ 1 < n /\ n < 2 * WordSize =>
              NearestAfter(n)]_hvars

(* "Round by adding 5 to the last digit to be shifted off" (Shift): so does   *)
(* every shift with rounding, by one place, too.                             *)
RoundsEveryShift ==
    [][LET n == Instructions!Places(completed.address)
       IN  Completes({shift_and_round}) /\ n < 2 * WordSize => NearestAfter(n)]_hvars

(* The word n after the start of the band of the given address.              *)
Entry(n) ==
    completed.storage[band_of_address(completed.address) + (n \div BandSize)]
                     [n % BandSize]

Matches(n) ==
    n % BandSize < BandSize - 2 /\ ~Less(Entry(n), completed.distributor)

(* Table lookup adds to the D-address the number of words from the start of   *)
(* its band to the first entry that is not below the argument, wherever the   *)
(* drum stood when it began and however many bands it takes.                  *)
LookupFindsFirst ==
    [][Completes({table_lookup}) =>
          \E n \in 0 .. (NBands - band_of_address(completed.address)) * BandSize - 1 :
             /\ Matches(n)
             /\ \A k \in 0 .. n - 1 : ~Matches(k)
             /\ completed'.lower.da = (completed.address + n) % AddressBase]_hvars
=============================================================================
