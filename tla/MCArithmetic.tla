---------------------------- MODULE MCArithmetic ----------------------------
(***************************************************************************)
(* Words of 4 digits and addresses of one: a drum of 2 bands of 3 words at  *)
(* 0..5 and the 800x addresses at 6..9.  One operation, then a stop.        *)
(***************************************************************************)
EXTENDS ArithmeticResults

Instruction(op, da) == [op |-> op, da |-> da, ia |-> 1, sign |-> "+"]

DataDrum(data) ==
    LET word(a) == CASE a = 1 -> Instruction(stop, 0)
                     [] a = 3 -> data
                     [] OTHER -> WordOf(80, "+")
    IN  [b \in 0 .. NBands - 1 |-> [i \in 0 .. BandSize - 1 |-> word(b * BandSize + i)]]

MCDrums ==
    {DataDrum(WordOf(m, s)) : m \in {9, 125, 999}, s \in {"+", "-"}}
        \cup {DataDrum(WordOf(m, "+")) : m \in {0, 1000, 3807, 9997}}
MCWords == {WordOf(8, "-"), WordOf(125, "+"), WordOf(3807, "+"), WordOf(9995, "-")}
MCEntries ==
    {Instruction(op, 3) : op \in DivideOps \cup {multiply}}
        \cup {Instruction(table_lookup, da) : da \in {0, 2, 3, 4}}
        \cup {Instruction(shift_and_round, da) : da \in {1, 2, 7}}
MCAddressEntries == {3}

(* Shifts with rounding, with one sign in both halves.                        *)
RoundWords == {WordOf(m, "+") : m \in {8, 125, 3807, 9995}}
RoundDrums == {DataDrum(WordOf(125, "+"))}
RoundEntries == {Instruction(shift_and_round, da) : da \in {1, 2, 7}}

(* Divisions whose quotient fits, by a divisor with a digit in front.         *)
DivideDrums == {DataDrum(WordOf(9997, "+"))}
DivideEntries == {Instruction(divide, 3)}
=============================================================================
