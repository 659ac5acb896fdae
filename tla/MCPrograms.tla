----------------------------- MODULE MCPrograms -----------------------------
(***************************************************************************)
(* Small programs for the model checker.  Addresses have two digits: a drum *)
(* of 3 bands of 4 words at 00..11 and the 800x addresses at 80..83.  There  *)
(* is no word at the addresses in between and above.                         *)
(***************************************************************************)
EXTENDS ControlUnit

Instruction(op, da, ia) == [op |-> op, da |-> da, ia |-> ia, sign |-> "+"]

(* The program goes on at address 1 after the storage-entry switches, then   *)
(* at 6, and stops at 2.  The data are at 3 and 5.                           *)
MCDrum(first, second, data) ==
    LET word(a) == CASE a = 1 -> first
                     [] a = 6 -> second
                     [] a = 2 -> Instruction(stop, 0, 2)
                     [] a \in {3, 5} -> data
                     [] OTHER -> Zero("+")
    IN  [b \in 0 .. NBands - 1 |-> [i \in 0 .. BandSize - 1 |-> word(b * BandSize + i)]]

AddDrum ==
    MCDrum(Instruction(add_to_upper, 5, 6), Instruction(92, 0, 2),
           WordOf(999999, "-"))

StoreDrum ==
    MCDrum(Instruction(store_lower_in_memory, 3, 6),
           Instruction(load_distributor, 3, 90), WordOf(98, "+"))

BranchDrum ==
    MCDrum(Instruction(reset_and_subtract_into_lower, 5, 6),
           Instruction(branch_on_minus, 2, 4), WordOf(80090, "+"))

MCDrums == {AddDrum, StoreDrum, BranchDrum}
MCWords == {WordOf(500001, "-"), WordOf(30, "+")}
MCEntries ==
    {Instruction(op, da, 1) :
        op \in ValidOperations \cup {99}, da \in {5, 20, 80, 81, 82, 83}}
MCAddressEntries == {3}

(* The multiplication that never ends: the multiplier and the sum to add the  *)
(* product to are 0.                                                         *)
LiveDrums == {AddDrum}
LiveWords == {WordOf(30, "+"), Zero("-")}
MultiplyEntries == {Instruction(multiply, 5, 1)}
=============================================================================
