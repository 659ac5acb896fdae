------------------------------ MODULE Computer ------------------------------
(***************************************************************************)
(* The operator at the console: the switches and the keys of class Computer *)
(* around the run loop of ControlUnit.  Every key is a call that returns    *)
(* before the next one is made, so keys are pressed between runs only; with *)
(* the half-cycle switch on "half" that includes the point between fetching *)
(* an instruction and executing it.                                         *)
(***************************************************************************)
EXTENDS ControlUnit

registers_unchanged == UNCHANGED <<register_vars, half_cycle, run_time, flag_vars>>

machine_unchanged ==
    UNCHANGED <<drum_vars, restart, pc, local_vars>> /\ registers_unchanged

----------------------------------------------------------------------------
(* Switches.                                                                 *)
set_storage_entry ==
    /\ storage_entry' \in StorageEntries
    /\ UNCHANGED <<address_entry, control_mode, cycle_mode, display_mode,
                   overflow_mode>>

set_address ==
    /\ address_entry' \in AddressEntries
    /\ UNCHANGED <<storage_entry, control_mode, cycle_mode, display_mode,
                   overflow_mode>>

set_control_mode ==
    /\ control_mode' \in ControlPositions
    /\ UNCHANGED <<storage_entry, address_entry, cycle_mode, display_mode,
                   overflow_mode>>

set_half_cycle_mode ==
    /\ cycle_mode' \in CyclePositions
    /\ UNCHANGED <<storage_entry, address_entry, control_mode, display_mode,
                   overflow_mode>>

set_display_mode ==
    /\ display_mode' \in DisplayPositions
    /\ UNCHANGED <<storage_entry, address_entry, control_mode, cycle_mode,
                   overflow_mode>>

set_overflow_mode ==
    /\ overflow_mode' \in OverflowPositions
    /\ UNCHANGED <<storage_entry, address_entry, control_mode, cycle_mode,
                   display_mode>>

Switch ==
    /\ pc = "idle"
    /\ \/ set_storage_entry
       \/ set_address
       \/ set_control_mode
       \/ set_half_cycle_mode
       \/ set_display_mode
       \/ set_overflow_mode
    /\ machine_unchanged

----------------------------------------------------------------------------
(* Keys.                                                                     *)
transfer ==
    /\ pc = "idle"
    /\ control_mode = "manual"
    /\ address_register' = address_entry
    /\ UNCHANGED <<drum_vars, switch_vars, distributor, accumulator_vars,
                   program_register, operation_register, half_cycle, run_time,
                   restart, flag_vars, pc, local_vars>>

(* The address register after a program or a computer reset.                 *)
ResetAddress == IF control_mode = "manual" THEN Blank ELSE StorageEntryAddress

(* Mutant of ProgramResetRegisters: a waiting operation is not cleared.      *)
ProgramResetKeepingOperation ==
    /\ program_register' = Unsigned(Zero("+"))
    /\ operation_register' = operation_register
    /\ address_register' = ResetAddress
    /\ half_cycle' = "instruction"
    /\ run_time' = 0
    /\ storage_selection_error' = FALSE

ProgramResetRegisters ==
    /\ program_register' = Unsigned(Zero("+"))
    /\ operation_register' = Blank
    /\ address_register' = ResetAddress
    /\ half_cycle' = "instruction"
    /\ run_time' = 0
    /\ storage_selection_error' = FALSE

AccumulatorResetRegisters ==
    /\ distributor' = Zero("+")
    /\ upper_accumulator' = Zero("+")
    /\ lower_accumulator' = Zero("+")
    /\ overflow' = FALSE
    /\ storage_selection_error' = FALSE

program_reset ==
    /\ pc = "idle"
    /\ ProgramResetRegisters
    /\ UNCHANGED <<drum_vars, switch_vars, distributor, accumulator_vars,
                   restart, overflow, error_stop, pc, local_vars>>

accumulator_reset ==
    /\ pc = "idle"
    /\ AccumulatorResetRegisters
    /\ UNCHANGED <<drum_vars, switch_vars, program_register, operation_register,
                   address_register, half_cycle, run_time, restart, error_stop,
                   pc, local_vars>>

computer_reset ==
    /\ pc = "idle"
    /\ ProgramResetRegisters
    /\ AccumulatorResetRegisters
    /\ UNCHANGED <<drum_vars, switch_vars, restart, error_stop, pc, local_vars>>

error_reset ==
    /\ pc = "idle"
    /\ storage_selection_error' = FALSE
    /\ UNCHANGED <<drum_vars, switch_vars, register_vars, half_cycle, run_time,
                   restart, overflow, error_stop, pc, local_vars>>

Key == transfer \/ program_reset \/ accumulator_reset \/ computer_reset \/ error_reset

ConsoleNext == Switch \/ Key \/ Next

ConsoleSpec == Init /\ [][ConsoleNext]_vars

(* A program that has been started takes its steps; nothing makes the        *)
(* operator press a key.                                                     *)
FairConsoleSpec == ConsoleSpec /\ WF_vars(RunStep)

----------------------------------------------------------------------------
(* "Reset registers and errors to prepare to run a program" is what the      *)
(* header says of program_reset: no error is left that stops the program.    *)
ProgramResetClearsErrors == [][program_reset => ~error_stop']_vars
=============================================================================
