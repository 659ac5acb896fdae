-------------------------- MODULE DigitAccumulator --------------------------
(***************************************************************************)
(* The registers of the computer digit by digit, under any sequence of the   *)
(* calls the operations make: Computer::add_to_accumulator and               *)
(* shift_accumulator, which join the halves in a register of double length,  *)
(* the resets of the halves, and the counting of the address register.  The  *)
(* numbers they spell are those of Accumulator.                              *)
(***************************************************************************)
EXTENDS Accumulator, Cards

CONSTANTS
    Digits,         \* digits of the words to begin with, as sequences
    StartAddresses, \* digits of the address registers to begin with
    MaxCalls        \* bound: calls in a behaviour

ASSUME DigitsInRange ==
    /\ Digits \subseteq [1 .. WordSize -> 0 .. base - 1]
    /\ StartAddresses \subseteq Seq(0 .. base - 1)
    /\ MaxCalls \in Nat

VARIABLES upper, lower, distributor, address_register, carry, calls

dvars == <<upper, lower, distributor, address_register, carry, calls>>

DigitWords == {Signed_Register(d, s) : d \in Digits, s \in {PlusChar, MinusChar}}

DigitInit ==
    /\ upper \in DigitWords
    /\ lower \in DigitWords
    /\ distributor \in DigitWords
    /\ address_register \in {Register(d) : d \in StartAddresses}
    /\ carry = 0
    /\ calls = 0

Call == calls < MaxCalls /\ calls' = calls + 1

(* The accumulator of double length takes its sign from the lower half.      *)
Joined ==
    load(load(Blank_Register(2 * WordSize + 1), upper, 0, 0), lower, 0, WordSize)

(* Both halves take their digits; the upper one keeps its sign.              *)
Split(accum) ==
    /\ upper' = [load(upper, accum, 0, 0) EXCEPT ![WordSize + 1] = at(upper, 0)]
    /\ lower' = load(lower, accum, WordSize, 0)

(* What the operations make of the distributor before they add it.           *)
Operands ==
    {distributor, change_sign(distributor), abs(distributor),
     change_sign(abs(distributor))}

DigitAdd(reg, to_upper) ==
    LET rhs == load(Filled(2 * WordSize, 0, PlusChar), reg, 0, WordSize)
        sum == add(Joined, shift(rhs, IF to_upper THEN WordSize ELSE 0))
    IN  /\ Call
        /\ Split(sum.reg)
        /\ carry' = sum.carry
        /\ UNCHANGED <<distributor, address_register>>

DigitShift(n_places_left) ==
    /\ Call
    /\ Split(shift(Joined, n_places_left))
    /\ UNCHANGED <<distributor, address_register, carry>>

(* The reset operations: one half is filled, and the other zero with its sign. *)
DigitReset(reg, to_upper) ==
    LET zeros == Filled(WordSize, 0, sign(reg))
    IN  /\ Call
        /\ upper' = (IF to_upper THEN reg ELSE zeros)
        /\ lower' = (IF to_upper THEN zeros ELSE reg)
        /\ UNCHANGED <<distributor, address_register, carry>>

(* The look-up of the next address.                                          *)
CountAddress ==
    /\ Call
    /\ address_register' = increment(address_register)
    /\ UNCHANGED <<upper, lower, distributor, carry>>

DigitNext ==
    \/ \E reg \in Operands, to_upper \in BOOLEAN :
          DigitAdd(reg, to_upper) \/ DigitReset(reg, to_upper)
    \/ \E n \in {-1, 1} : DigitShift(n)
    \/ CountAddress

DigitSpec == DigitInit /\ [][DigitNext]_dvars

----------------------------------------------------------------------------
(* The validity lights of the console.                                        *)
distributor_validity_error == ~is_number(distributor)
accumulator_validity_error == ~is_number(upper) \/ ~is_number(lower)

(* Of all codes of 7 bits, is_number passes those of the digits.              *)
CodesAreDigits ==
    \A code \in 0 .. 127 : is_number(<<code>>) <=> dec(code) \in 0 .. base - 1

(* Every register has its length and spells a number, with a sign for its     *)
(* last digit, and no validity light comes on: is_number, which looks at      *)
(* bits, says no more and no less.                                           *)
RegistersSpellNumbers ==
    LET registers == {upper, lower, distributor}
        IsSigned(reg) == sign(reg) \in {PlusChar, MinusChar}
    IN  /\ \A reg \in registers : Len(reg) = WordSize + 1 /\ IsSigned(reg)
        /\ \A reg \in registers \cup {address_register} :
              \A i \in DOMAIN reg : reg[i] \in DigitCodes
        /\ ~distributor_validity_error /\ ~accumulator_validity_error
        /\ CodesAreDigits

(* The word of module Words that a register spells.                           *)
Number(reg) ==
    WordOf(value(SubSeq(reg, 1, WordSize)), IF sign(reg) = PlusChar THEN "+" ELSE "-")

Spells(sum) == Number(upper') = sum.upper /\ Number(lower') = sum.lower

(* The digit loops, the joining of the halves and the copying back compute    *)
(* what Accumulator says of numbers: sums with their carry, and shifts.       *)
DigitsComputeNumbers ==
    [][LET u == Number(upper)
           l == Number(lower)
       IN  /\ \A reg \in Operands, to_upper \in BOOLEAN : DigitAdd(reg, to_upper) =>
                 LET sum == add_to_accumulator(u, l, Number(reg), to_upper)
                 IN  Spells(sum) /\ carry' = sum.carry
           /\ DigitShift(1) => Spells(ShiftLeft(u, l))
           /\ DigitShift(-1) => Spells(ShiftRight(u, l))]_dvars

(* less orders signed registers by the digits below the first, and where     *)
(* these agree takes minus for less than plus.                               *)
LessOrdersLowDigits ==
    \A l, r \in {upper, lower, distributor} :
       less(l, r) <=> Less(Number(l), Number(r))

(* operator++ counts, and goes from the highest number to 0.                 *)
AddressCountsUp ==
    [][CountAddress =>
          value(address_register') =
             (value(address_register) + 1) % Weight[Len(address_register)]]_dvars

(* Punched and read again, the words of a card are what they were.            *)
CardKeepsWords ==
    LET buffer == [i \in 1 .. card_words |->
                      CASE i % 3 = 0 -> upper [] i % 3 = 1 -> lower [] OTHER -> distributor]
        back == card_to_buffer(buffer_to_card(buffer, WordSize), WordSize)
    IN  SubSeq(back, 1, card_words) = buffer
=============================================================================
