---------------------------- MODULE Accumulator ----------------------------
(***************************************************************************)
(* The double-length accumulator: Computer::add_to_accumulator and          *)
(* Computer::shift_accumulator on the magnitudes of its upper and lower     *)
(* halves.  The accumulator counts as one number with the sign of its lower *)
(* half; the upper half keeps whatever sign it has.                         *)
(***************************************************************************)
EXTENDS Words

(* A magnitude of 2 * word_size digits is the pair of its halves.            *)
Double == [upper : 0 .. WordBase - 1, lower : 0 .. WordBase - 1]

AtLeast(a, b) ==
    a.upper > b.upper \/ (a.upper = b.upper /\ a.lower >= b.lower)

Carry(sum) == IF sum >= WordBase THEN 1 ELSE 0
Borrow(l, r) == IF l < r THEN 1 ELSE 0

(* Mutant of PlusMagnitude: the digit carried out stays in the upper half.   *)
PlusMagnitudeKeepingCarry(a, b) ==
    LET c == Carry(a.lower + b.lower)
    IN  [upper |-> a.upper + b.upper + c,
         lower |-> (a.lower + b.lower) - c * WordBase,
         carry |-> Carry(a.upper + b.upper + c)]

(* The two digit loops of add() in register.hpp.                             *)
PlusMagnitude(a, b) ==
    LET c == Carry(a.lower + b.lower)
        d == Carry(a.upper + b.upper + c)
    IN  [upper |-> (a.upper + b.upper + c) - d * WordBase,
         lower |-> (a.lower + b.lower) - c * WordBase,
         carry |-> d]

MinusMagnitude(a, b) ==
    LET c == Borrow(a.lower, b.lower)
    IN  [upper |-> (a.upper - b.upper) - c,
         lower |-> (a.lower - b.lower) + c * WordBase,
         carry |-> 0]

(* Like signs add and may carry; unlike signs subtract the smaller magnitude *)
(* from the larger, and zero is positive.                                    *)
SignedSum(a, sa, b, sb) ==
    LET pos == IF sb = "-" THEN a ELSE b
        neg == IF sb = "-" THEN b ELSE a
    IN  CASE sa = sb -> [mag |-> PlusMagnitude(a, b), sign |-> sa]
          [] sa # sb /\ AtLeast(pos, neg) -> [mag |-> MinusMagnitude(pos, neg), sign |-> "+"]
          [] OTHER -> [mag |-> MinusMagnitude(neg, pos), sign |-> "-"]

Halves(u, l) == [upper |-> Mag(u), lower |-> Mag(l)]

(* The accumulator after adding word w to its lower or its upper half.       *)
add_to_accumulator(u, l, w, to_upper) ==
    LET rhs == [upper |-> IF to_upper THEN Mag(w) ELSE 0,
                lower |-> IF to_upper THEN 0 ELSE Mag(w)]
        sum == SignedSum(Halves(u, l), l.sign, rhs, w.sign)
    IN  [upper |-> WordOf(sum.mag.upper, u.sign),
         lower |-> WordOf(sum.mag.lower, sum.sign),
         carry |-> sum.mag.carry]

(* Mutant of ShiftLeft: the halves are shifted one by one.                   *)
ShiftLeftHalves(u, l) ==
    [upper |-> WordOf((Mag(u) * Base) % WordBase, u.sign),
     lower |-> WordOf((Mag(l) * Base) % WordBase, l.sign)]

(* One place to the left; the digit shifted off is lost.                     *)
ShiftLeft(u, l) ==
    [upper |-> WordOf((Mag(u) * Base + HighDigit(Mag(l))) % WordBase, u.sign),
     lower |-> WordOf((Mag(l) * Base) % WordBase, l.sign)]

ShiftRight(u, l) ==
    [upper |-> WordOf(Mag(u) \div Base, u.sign),
     lower |-> WordOf((Mag(u) % Base) * HighBase + Mag(l) \div Base, l.sign)]
=============================================================================
