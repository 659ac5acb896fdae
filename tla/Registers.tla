------------------------------ MODULE Registers ------------------------------
(***************************************************************************)
(* register.hpp and register.cpp digit by digit.  A register is a sequence   *)
(* of bi-quinary codes in display order; a signed register has its sign in   *)
(* a last, additional digit.  A code or a character is its ASCII number.     *)
(***************************************************************************)
EXTENDS Integers, Sequences

base == 10
bi_quinary_code == <<33, 34, 36, 40, 48, 65, 66, 68, 72, 80>>   \* ! " $ ( 0 A B D H P

BlankChar == 95     \* '_'
MinusChar == 45     \* '-'
PlusChar == 43      \* '+'
QueryChar == 63     \* '?'

DigitCodes == {bi_quinary_code[n] : n \in 1 .. base}

(* Beyond 9 the code would read past the end of its table.                   *)
bin(number) ==
    CASE number = BlankChar -> 0
      [] number = MinusChar -> bi_quinary_code[9]
      [] number = PlusChar -> bi_quinary_code[10]
      [] number \in 0 .. base - 1 -> bi_quinary_code[number + 1]

Decoded ==
    [code \in DigitCodes |-> CHOOSE n \in 0 .. base - 1 : bi_quinary_code[n + 1] = code]

dec(code) ==
    CASE code = 0 -> BlankChar
      [] code \in DigitCodes -> Decoded[code]
      [] OTHER -> QueryChar

----------------------------------------------------------------------------
(* Registers of any length.                                                  *)
Blank_Register(n) == [i \in 1 .. n |-> 0]
Register(digits) == [i \in DOMAIN digits |-> bin(digits[i])]

(* Copying stops when either register runs out of digits.                    *)
load(reg, in, in_offset, reg_offset) ==
    LET room == Len(reg) - reg_offset
        length == IF Len(in) - in_offset < room THEN Len(in) - in_offset ELSE room
    IN  SubSeq(reg, 1, reg_offset)
           \o SubSeq(in, in_offset + 1, in_offset + length)
           \o SubSeq(reg, reg_offset + length + 1, Len(reg))

fill(reg, digit) == [i \in DOMAIN reg |-> bin(digit)]
clear(reg) == [i \in DOMAIN reg |-> 0]

is_blank(reg) == \A i \in DOMAIN reg : reg[i] = 0

Bit(code, i) == (code \div 2^i) % 2

(* Exactly one of the bits 0 to 4, and one of the bits 5 and 6.               *)
is_number(reg) ==
    LET one_bit_set(code, bits) == \E b \in bits : \A c \in bits :
            Bit(code, c) = 1 <=> c = b
    IN  \A i \in DOMAIN reg :
           one_bit_set(reg[i], 0 .. 4) /\ one_bit_set(reg[i], 5 .. 6)

value(reg) ==
    LET total[i \in 0 .. Len(reg)] ==
            IF i = 0 THEN 0 ELSE base * total[i - 1] + dec(reg[i])
    IN  total[Len(reg)]

(* Digits counted from the right: from 0 in a register, and from 0 for the    *)
(* sign in a signed register, where the units are 1.                         *)
at(reg, n) == reg[Len(reg) - n]

(* Mutant of increment: digits above a digit that is not 9 go on counting.   *)
incrementAll(reg) ==
    [i \in DOMAIN reg |-> bin((dec(reg[i]) + 1) % base)]

(* The carries of a loop over n digits from the right: digit i makes          *)
(* step[i][c] of a carry c.                                                  *)
Carries(n, first, step) ==
    LET carry[i \in 0 .. n] == IF i = 0 THEN first ELSE step[i][carry[i - 1]]
    IN  carry

(* operator++: counts up the digits above a run of 9s, and the run itself.    *)
increment(reg) ==
    LET counted(i, c) == IF c = 1 THEN (dec(at(reg, i - 1)) + 1) \div base ELSE 0
        carry == Carries(Len(reg), 1,
                    [i \in 1 .. Len(reg) |-> [c \in 0 .. 1 |-> counted(i, c)]])
    IN  [i \in DOMAIN reg |->
            IF carry[Len(reg) - i] = 1 THEN bin((dec(reg[i]) + 1) % base) ELSE reg[i]]

----------------------------------------------------------------------------
(* Signed registers.                                                         *)
Signed_Register(digits, s) == Append(Register(digits), bin(s))

(* Mutant of Filled: the sign is filled like the digits.                      *)
FilledSignless(n, digit, s) == fill(Blank_Register(n + 1), digit)

Filled(n, digit, s) == Append(fill(Blank_Register(n), digit), bin(s))

WithSign(reg, s) == [reg EXCEPT ![Len(reg)] = bin(s)]

sign(reg) ==
    LET n == dec(at(reg, 0))
    IN  CASE n = 9 -> PlusChar [] n = 8 -> MinusChar
          [] n = 0 -> BlankChar [] OTHER -> QueryChar

Places(n, code) == SubSeq([i \in 1 .. n |-> code], 1, n)

(* Digits move, zeros follow them, and the sign stays.                        *)
shift(reg, left) ==
    LET n == Len(reg) - 1
        digits == IF left >= 0
                  THEN SubSeq(reg, left + 1, n) \o Places(left, bin(0))
                  ELSE Places(-left, bin(0)) \o SubSeq(reg, 1, n + left)
    IN  Append(digits, at(reg, 0))

abs(reg) == WithSign(reg, PlusChar)

change_sign(reg) ==
    WithSign(reg, IF sign(reg) = PlusChar THEN MinusChar ELSE PlusChar)

(* The two loops of add: digits and carry of a sum, and of a difference.      *)
plus(l, r) ==
    LET n == Len(l) - 1
        digit(i) == dec(at(l, i)) + dec(at(r, i))
        carry == Carries(n, 0, [i \in 1 .. n |-> [c \in 0 .. 1 |-> (c + digit(i)) \div base]])
    IN  [digits |-> [k \in 1 .. n |-> (carry[n - k] + digit((n + 1) - k)) % base],
         carry |-> carry[n]]

sub(l, r) ==
    LET n == Len(l) - 1
        digit(i) == dec(at(l, i)) - dec(at(r, i))
        borrowed(i, c) == IF digit(i) < c THEN 1 ELSE 0
        carry == Carries(n, 0, [i \in 1 .. n |-> [c \in 0 .. 1 |-> borrowed(i, c)]])
    IN  [digits |-> [k \in 1 .. n |->
            (digit((n + 1) - k) - carry[n - k]) + base * carry[(n + 1) - k]],
         carry |-> carry[n]]

Sum(s, sgn) == [reg |-> Signed_Register(s.digits, sgn), carry |-> s.carry]

(* Mutant of add: a negative difference is left as its complement.           *)
addComplement(lhs, rhs) ==
    LET left == IF sign(rhs) = MinusChar THEN lhs ELSE rhs
        right == IF sign(rhs) = MinusChar THEN rhs ELSE lhs
    IN  IF sign(lhs) = sign(rhs) THEN Sum(plus(lhs, rhs), sign(lhs))
        ELSE Sum(sub(left, abs(right)), sign(left))

(* Digits with unlike signs are subtracted from the positive number, or, if    *)
(* that leaves a carry, the other way round.                                 *)
add(lhs, rhs) ==
    LET left == IF sign(rhs) = MinusChar THEN lhs ELSE rhs
        right == IF sign(rhs) = MinusChar THEN rhs ELSE lhs
        difference == sub(left, abs(right))
    IN  CASE sign(lhs) = sign(rhs) -> Sum(plus(lhs, rhs), sign(lhs))
          [] sign(lhs) # sign(rhs) /\ difference.carry = 0 ->
                Sum(difference, sign(left))
          [] OTHER -> Sum(sub(abs(right), left), sign(right))

(* Mutant of less: the sign is not compared.                                 *)
lessUnsigned(lhs, rhs) ==
    \E i \in 2 .. Len(lhs) - 1 :
       lhs[i] < rhs[i] /\ \A j \in 2 .. i - 1 : lhs[j] = rhs[j]

(* The codes are compared from the second digit on, the sign last.            *)
less(lhs, rhs) ==
    \E i \in 2 .. Len(lhs) :
       lhs[i] < rhs[i] /\ \A j \in 2 .. i - 1 : lhs[j] = rhs[j]
=============================================================================
