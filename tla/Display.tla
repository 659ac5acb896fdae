------------------------------ MODULE Display ------------------------------
(***************************************************************************)
(* What the operator sees of the computer: the register that the display    *)
(* switch selects, and the lights that depend on more than one member.  The *)
(* validity lights are those of module DigitAccumulator.                     *)
(***************************************************************************)
EXTENDS Computer

CONSTANT LastDrumAddress        \* 1999, a number of its own in computer.cpp

(* The number was chosen for the drum: BandSize and NBands are drum.hpp's.    *)
ASSUME LightAssumption == LastDrumAddress = NBands * BandSize - 1

(* The storage positions of the switch show the distributor.                  *)
display ==
    CASE display_mode = "lower_accumulator" -> lower_accumulator
      [] display_mode = "upper_accumulator" -> upper_accumulator
      [] display_mode = "program_register" -> program_register
      [] OTHER -> distributor

(* Mutant of Unassigned: the first address beyond the drum counts as on it.  *)
UnassignedLate(addr) ==
    /\ addr > LastDrumAddress + 1
    /\ addr < StorageEntryAddress \/ addr > upper_accumulator_address

Unassigned(addr) ==
    /\ addr > LastDrumAddress
    /\ addr < StorageEntryAddress \/ addr > upper_accumulator_address

(* Computer::storage_selection_error.  A blank address is no error.           *)
storage_selection_light ==
    address_register # Blank /\ (Unassigned(address_register) \/ storage_selection_error)

----------------------------------------------------------------------------
(* What the address switches select.                                         *)
SelectedWord ==
    IF OnDrum(address_entry) THEN DrumWord(address_entry) ELSE get_storage(address_entry)

(* Reading in and reading out from the console leave on the display the word  *)
(* that is now stored at the address on the switches: the drum has turned to  *)
(* it, in its own band, before the word is taken (the manual branch of        *)
(* program_start, display).                                                  *)
ManualStartDisplays ==
    [][ManualStart /\ display_mode \in {"read_in_storage", "read_out_storage"} =>
          display' = SelectedWord']_vars

(* The light and the asserts of the drum agree on which addresses there are:  *)
(* a half-cycle that cannot read the instruction or the data it is sent for   *)
(* has the storage-selection light on, unless the address register is blank  *)
(* (storage_selection_error, Drum::read).                                    *)
FailedReadIsLit ==
    [][InstructionAbort \/ (DataAbort /\ Step("Data_to_Distributor")) =>
          storage_selection_light \/ address_register = Blank]_vars
=============================================================================
