------------------------------- MODULE Words -------------------------------
(***************************************************************************)
(* Words, addresses and operation codes of the IBM 650, as computer.hpp     *)
(* and register.hpp lay them out.                                           *)
(*                                                                          *)
(* A word is ten digits and a sign.  The control unit only ever looks at    *)
(* three groups of its digits: the operation code (2 digits, offset 0 in    *)
(* Register::load), the data address (4 digits, offset 2) and the           *)
(* instruction address (4 digits, offset 6).  A word is therefore the       *)
(* record of these groups; Mag is the number that the ten digits spell.     *)
(* The digit-by-digit algorithms of register.hpp are modelled elsewhere.    *)
(***************************************************************************)
EXTENDS Integers

CONSTANTS
    AddressBase,          \* number of addresses an address register can hold
    WordSize,             \* word_size: decimal digits in a word
    BandSize,             \* band_size: words in a band of the drum
    NBands,               \* n_bands
    StorageEntryAddress,  \* address of the first of the four 800x addresses
    Blank                 \* contents of a register whose bits are all unset

Base == 10                                  \* base of register.hpp
OpBase == Base * Base                       \* the operation code has 2 digits
WordBase == OpBase * AddressBase * AddressBase
HighBase == Base * AddressBase * AddressBase    \* weight of the highest digit

(* What a digit counts n places to the left of the units digit.              *)
Weight[n \in Nat] == IF n = 0 THEN 1 ELSE Base * Weight[n - 1]

(* The sizes of the real machine are 10000, 10, 50, 40 and 8000.  What the   *)
(* code relies on: the drum lies below the 800x addresses, and these are     *)
(* the tops of four consecutive words.                                       *)
ASSUME SizesAssumption ==
    /\ AddressBase \in Nat \ {0}
    /\ WordSize \in Nat \ {0}
    /\ BandSize \in Nat \ {0}
    /\ NBands \in Nat \ {0}
    /\ StorageEntryAddress \in Nat
    /\ StorageEntryAddress + 3 < AddressBase
    /\ NBands * BandSize <= StorageEntryAddress

(* Only the operations that look at single digits need this one.             *)
ASSUME DigitsAssumption == WordBase = Weight[WordSize]

----------------------------------------------------------------------------
Addresses == 0 .. AddressBase - 1
OpCodes == 0 .. OpBase - 1
Signs == {"+", "-"}

UWord == [op : OpCodes, da : Addresses, ia : Addresses]
Word == [op : OpCodes, da : Addresses, ia : Addresses, sign : Signs]

(* Register::clear leaves a register blank, which no number is.              *)
ASSUME BlankAssumption == Blank \notin Addresses \cup OpCodes

Mag(w) == (w.op * AddressBase + w.da) * AddressBase + w.ia

WordOf(m, s) ==
    [op |-> (m \div AddressBase) \div AddressBase,
     da |-> (m \div AddressBase) % AddressBase,
     ia |-> m % AddressBase,
     sign |-> s]

Zero(s) == [op |-> 0, da |-> 0, ia |-> 0, sign |-> s]

(* Register::load of a word into the unsigned program register.              *)
Unsigned(w) == [op |-> w.op, da |-> w.da, ia |-> w.ia]

Abs(w) == [w EXCEPT !.sign = "+"]
ChangeSign(w) == [w EXCEPT !.sign = IF w.sign = "+" THEN "-" ELSE "+"]

(* operator[]: the digit in position pos, 1 for the units digit.             *)
Digit(m, pos) == (m \div Weight[pos - 1]) % Base
HighDigit(m) == m \div HighBase

(* less() of register.hpp starts one past the first digit of a word and ends *)
(* after its sign: the most significant digit is not compared, the sign is.  *)
Less(l, r) ==
    LET low(w) == Mag(w) % HighBase
    IN  \/ low(l) < low(r)
        \/ low(l) = low(r) /\ l.sign = "-" /\ r.sign = "+"

----------------------------------------------------------------------------
distributor_address == StorageEntryAddress + 1
lower_accumulator_address == StorageEntryAddress + 2
upper_accumulator_address == StorageEntryAddress + 3
SpecialAddresses == StorageEntryAddress .. upper_accumulator_address

band_of_address(addr) == addr \div BandSize
index_of_address(addr) == addr % BandSize

OnDrum(addr) == band_of_address(addr) < NBands
=============================================================================
