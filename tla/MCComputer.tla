----------------------------- MODULE MCComputer -----------------------------
EXTENDS Display, MCPrograms

(* Keys between half-cycles.  The drum is 2 bands of 2 words.  The program   *)
(* resets the accumulator from the word at 3, which the console and the      *)
(* storage-entry instruction write, and comes back to the storage entry.     *)
(* The branch on a digit leads to a load from an address with no word, or to  *)
(* an instruction that is at no address.                                     *)
ConsoleWord(addr) ==
    CASE addr = 0 -> Instruction(reset_and_add_into_lower, 4, 80)
      [] addr = 1 -> Instruction(reset_and_add_into_lower, 3, 80)
      [] addr = 3 -> WordOf(999998, "-")
      [] OTHER -> Zero("+")

ConsoleDrums ==
    {[b \in 0 .. NBands - 1 |->
        [i \in 0 .. BandSize - 1 |-> ConsoleWord(b * BandSize + i)]]}
ConsoleWords == {WordOf(999998, "+")}
ConsoleEntries ==
    {Instruction(store_lower_in_memory, 3, 1), Instruction(91, 0, 4)}
ConsoleAddresses == {3, 82}
=============================================================================
