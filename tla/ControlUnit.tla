---------------------------- MODULE ControlUnit ----------------------------
(***************************************************************************)
(* The run loop of Computer::program_start: instruction half-cycles fetch   *)
(* an instruction, data half-cycles execute it.  In a data half-cycle the   *)
(* operation steps and the search for the next instruction run in parallel  *)
(* once the restart signal is given.  Every iteration of either loop takes  *)
(* one word time, in which the drum turns by one word.                      *)
(*                                                                          *)
(* A step of this module is one iteration of a loop, or the code before or  *)
(* after a loop.  A failed assert() ends the process: pc becomes "aborted". *)
(***************************************************************************)
EXTENDS Accumulator, Operations, Drum

CONSTANTS
    RunTimeModulus,     \* run times an int can count (2^32 of them)
    InitialDrums,       \* contents the drum may be loaded with
    InitialWords,       \* words earlier programs may leave in the registers
    StorageEntries,     \* words set on the storage-entry switches
    AddressEntries,     \* addresses set on the address switches
    ControlPositions, CyclePositions, DisplayPositions, OverflowPositions
                        \* positions the switches are turned to

(* The parity of the run time is all the program reads of it.                 *)
ASSUME RunTimeAssumption ==
    /\ RunTimeModulus \in Nat \ {0}
    /\ RunTimeModulus % 2 = 0

ControlModes == {"address_stop", "run", "manual"}
CycleModes == {"half", "run"}
DisplayModes == {"lower_accumulator", "upper_accumulator", "distributor",
                 "program_register", "read_out_storage", "read_in_storage"}
OverflowModes == {"stop", "sense"}

ASSUME InputsAssumption ==
    /\ InitialDrums \subseteq [0 .. NBands - 1 -> [0 .. BandSize - 1 -> Word]]
    /\ InitialWords \subseteq Word
    /\ StorageEntries \subseteq Word
    /\ AddressEntries \subseteq Addresses
    /\ ControlPositions \subseteq ControlModes
    /\ CyclePositions \subseteq CycleModes
    /\ DisplayPositions \subseteq DisplayModes
    /\ OverflowPositions \subseteq OverflowModes

VARIABLES
    \* Console switches
    storage_entry, address_entry, control_mode, cycle_mode, display_mode,
    overflow_mode,
    \* Registers
    distributor, upper_accumulator, lower_accumulator, program_register,
    operation_register, address_register,
    \* Sequencing and error flags
    half_cycle, run_time, restart, overflow, storage_selection_error,
    error_stop,
    \* Locals of program_start
    pc,                 \* where it is: see Pcs
    operation,          \* the operation being executed
    op_it, inst_it,     \* positions in op_seq and inst_seq
    restarted,
    \* Members of the operation steps
    shift_count,        \* m_shift_count of Multiply, Divide and Shift
    upper_overflow,     \* m_upper_overflow of Multiply and Divide
    shift_next,         \* m_shift of Divide
    lookup_band         \* m_band of Look_Up_Address

switch_vars == <<storage_entry, address_entry, control_mode, cycle_mode,
                 display_mode, overflow_mode>>
accumulator_vars == <<upper_accumulator, lower_accumulator>>
register_vars == <<distributor, upper_accumulator, lower_accumulator,
                   program_register, operation_register, address_register>>
flag_vars == <<overflow, storage_selection_error, error_stop>>
member_vars == <<shift_count, upper_overflow, shift_next, lookup_band>>
local_vars == <<operation, op_it, inst_it, restarted, member_vars>>

(* The computer between two calls of program_start.                          *)
machine_vars == <<drum_vars, switch_vars, register_vars, half_cycle, run_time,
                  restart, flag_vars>>

(* What an operation step may change, besides its position.                  *)
step_vars == <<drum_storage, distributor, accumulator_vars, overflow,
               storage_selection_error, restart, member_vars>>

vars == <<machine_vars, pc, local_vars>>

(* idle: no call of program_start is active.  instruction, data: in one of   *)
(* the two loops.  decode: before the data loop.                             *)
Pcs == {"idle", "instruction", "decode", "data", "aborted"}

HalfCycles == {"data", "instruction"}

TypeOK ==
    /\ DrumTypeOK
    /\ storage_entry \in Word
    /\ address_entry \in Addresses
    /\ control_mode \in ControlModes
    /\ cycle_mode \in CycleModes
    /\ display_mode \in DisplayModes
    /\ overflow_mode \in OverflowModes
    /\ distributor \in Word
    /\ upper_accumulator \in Word
    /\ lower_accumulator \in Word
    /\ program_register \in UWord
    /\ operation_register \in OpCodes \cup {Blank}
    /\ address_register \in Addresses \cup {Blank}
    /\ half_cycle \in HalfCycles
    /\ run_time \in 0 .. RunTimeModulus - 1
    /\ restart \in BOOLEAN
    /\ overflow \in BOOLEAN
    /\ storage_selection_error \in BOOLEAN
    /\ error_stop \in BOOLEAN
    /\ pc \in Pcs
    /\ operation \in OpCodes
    /\ op_it \in 1 .. 5
    /\ inst_it \in 1 .. 3
    /\ restarted \in BOOLEAN
    /\ shift_count \in Nat
    /\ upper_overflow \in Nat
    /\ shift_next \in BOOLEAN
    /\ lookup_band \in Int

----------------------------------------------------------------------------
(* Computer::get_storage.  It asserts that the address is not blank, and     *)
(* reads the drum, which asserts its band, for all but the 800x addresses.   *)
Readable(addr) ==
    addr # Blank /\ (addr \in SpecialAddresses \/ OnDrum(addr))

get_storage(addr) ==
    CASE addr = StorageEntryAddress -> storage_entry
      [] addr = distributor_address -> distributor
      [] addr = lower_accumulator_address -> lower_accumulator
      [] addr = upper_accumulator_address -> upper_accumulator
      [] OTHER -> DrumRead(band_of_address(addr))

UnderHead(addr) == index_of_address(addr) = drum_index

WordTime ==     \* ++m_run_time; m_drum.step()
    /\ run_time' = (run_time + 1) % RunTimeModulus
    /\ DrumStep

Abort ==        \* a failed assertion
    /\ pc' = "aborted"
    /\ UNCHANGED <<machine_vars, local_vars>>

----------------------------------------------------------------------------
(* The instruction half-cycle.                                               *)

(* Mutant of InstructionAtHead: an instruction is read from wherever the     *)
(* drum stands.                                                              *)
InstructionAnywhere == TRUE

(* A blank register has the value of its '_' digits, which is above 8000.    *)
InstructionAtHead ==
    address_register # Blank =>
       address_register >= StorageEntryAddress \/ UnderHead(address_register)

Instruction_to_Program_Register ==
    /\ inst_it = 1
    /\ IF InstructionAtHead
       THEN /\ program_register' = Unsigned(get_storage(address_register))
            /\ inst_it' = 2
       ELSE UNCHANGED <<program_register, inst_it>>
    /\ UNCHANGED <<operation_register, address_register, half_cycle>>

Op_and_Address_to_Registers ==
    /\ inst_it = 2
    /\ operation_register' = program_register.op
    /\ address_register' = program_register.da
    /\ half_cycle' = "data"
    /\ inst_it' = 3
    /\ UNCHANGED program_register

InstructionAborts ==
    /\ inst_it = 1
    /\ InstructionAtHead
    /\ ~Readable(address_register)

InstructionWordTime ==
    /\ pc = "instruction"
    /\ ~InstructionAborts
    /\ Instruction_to_Program_Register \/ Op_and_Address_to_Registers
    /\ WordTime
    /\ UNCHANGED <<drum_storage, switch_vars, distributor, accumulator_vars,
                   restart, flag_vars, pc, operation, op_it, restarted,
                   member_vars>>

InstructionAbort ==
    /\ pc = "instruction"
    /\ InstructionAborts
    /\ Abort

EndInstruction ==
    /\ pc = "instruction"
    /\ inst_it = 3
    /\ pc' = IF cycle_mode = "half" THEN "idle" ELSE "decode"
    /\ inst_it' = 1
    /\ UNCHANGED <<machine_vars, operation, op_it, restarted, member_vars>>

----------------------------------------------------------------------------
(* The data half-cycle: the operation steps.                                 *)

op_seq == operation_steps(operation)
op_end == Len(op_seq) + 1
Step(name) == op_it < op_end /\ op_seq[op_it] = name

Done == op_it' = op_it + 1
Again == UNCHANGED op_it

(* Enable_Distributor, Enable_Position_Set, Address_to_Program_Register.      *)
Enable ==
    /\ \/ Step("Enable_Distributor")
       \/ Step("Enable_Position_Set")
       \/ Step("Address_to_Program_Register")
    /\ Done
    /\ UNCHANGED step_vars

(* The store operations put the word to store in the distributor at once.    *)
StoredWord ==
    CASE operation = store_lower_in_memory -> lower_accumulator
      [] operation = store_upper_in_memory -> upper_accumulator
      [] operation = store_lower_data_address ->
            [distributor EXCEPT !.da = lower_accumulator.da]
      [] OTHER -> [distributor EXCEPT !.ia = lower_accumulator.ia]

Data_to_Distributor ==
    /\ Step("Data_to_Distributor")
    /\ \/ /\ operation \in StoreOps
          /\ distributor' = StoredWord
          /\ Done
       \/ /\ operation \notin StoreOps
          /\ UnderHead(address_register)
          /\ distributor' = get_storage(address_register)
          /\ Done
       \/ /\ operation \notin StoreOps
          /\ ~UnderHead(address_register)
          /\ Again
          /\ UNCHANGED distributor
    /\ UNCHANGED <<drum_storage, accumulator_vars, overflow,
                   storage_selection_error, restart, member_vars>>

Store_Distributor ==
    /\ Step("Store_Distributor")
    /\ \/ /\ ~OnDrum(address_register)
          /\ storage_selection_error' = TRUE
          /\ Done
          /\ UNCHANGED drum_storage
       \/ /\ OnDrum(address_register)
          /\ UnderHead(address_register)
          /\ drum_storage' =
                 DrumWritten(band_of_address(address_register), distributor)
          /\ Done
          /\ UNCHANGED storage_selection_error
       \/ /\ OnDrum(address_register)
          /\ ~UnderHead(address_register)
          /\ Again
          /\ UNCHANGED <<drum_storage, storage_selection_error>>
    /\ UNCHANGED <<distributor, accumulator_vars, overflow, restart, member_vars>>

(* The word an add, subtract or reset operation takes to the accumulator.    *)
Operand ==
    LET w == IF operation \in AbsoluteOps THEN Abs(distributor) ELSE distributor
    IN  IF operation \in SubtractOps THEN ChangeSign(w) ELSE w

Accumulated ==
    CASE operation \in AddOps ->
            add_to_accumulator(upper_accumulator, lower_accumulator, Operand,
                               operation \in UpperOps)
      [] operation \in ResetAddOps \cap UpperOps ->
            [upper |-> Operand, lower |-> Zero(Operand.sign), carry |-> 0]
      [] OTHER ->
            [upper |-> Zero(Operand.sign), lower |-> Operand, carry |-> 0]

(* It takes two word times, the first of them even, to fill the accumulator. *)
(* The restart signal goes out at the first.                                 *)
Distributor_to_Accumulator ==
    /\ Step("Distributor_to_Accumulator")
    /\ \/ /\ ~restart
          /\ run_time % 2 # 0
          /\ Again
          /\ UNCHANGED <<accumulator_vars, overflow, restart>>
       \/ /\ run_time % 2 = 0
          /\ restart' = TRUE
          /\ Again
          /\ UNCHANGED <<accumulator_vars, overflow>>
       \/ /\ restart
          /\ run_time % 2 # 0
          /\ upper_accumulator' = Accumulated.upper
          /\ lower_accumulator' = Accumulated.lower
          /\ overflow' = (Accumulated.carry > 0)
          /\ Done
          /\ UNCHANGED restart
    /\ UNCHANGED <<drum_storage, distributor, storage_selection_error,
                   member_vars>>

(* Mutant of Remove_Interlock_A: it only takes its word time.                *)
LeaveInterlock ==
    /\ Step("Remove_Interlock_A")
    /\ Done
    /\ UNCHANGED step_vars

Remove_Interlock_A ==
    /\ Step("Remove_Interlock_A")
    /\ restart' = FALSE
    /\ Done
    /\ UNCHANGED <<drum_storage, distributor, accumulator_vars, overflow,
                   storage_selection_error, member_vars>>

(* Multiply: the digits of the multiplier leave the upper half at the top    *)
(* and count additions of the distributor.  Whether shift_count has reached  *)
(* WordSize is all the code asks of it then, so it stays there.  Positions   *)
(* beyond WordSize lie outside the register, where nothing changes.          *)
FirstPass == shift_count = 0 /\ upper_overflow = 0

Signed(w, s) == IF FirstPass THEN [w EXCEPT !.sign = s] ELSE w

CountedShift == IF shift_count < WordSize THEN shift_count + 1 ELSE WordSize

MultiplierShift ==
    LET u == Signed(upper_accumulator, distributor.sign)
        l == Signed(lower_accumulator, distributor.sign)
        shifted == ShiftLeft(u, l)
    IN  /\ upper_overflow = 0
        /\ upper_overflow' = HighDigit(Mag(u))
        /\ upper_accumulator' = shifted.upper
        /\ lower_accumulator' = shifted.lower
        /\ shift_count' = CountedShift
        /\ Again
        /\ UNCHANGED overflow

MultiplierAdd ==
    LET sum == add_to_accumulator(upper_accumulator, lower_accumulator,
                                  distributor, FALSE)
        pos == shift_count + 1
        spilled == /\ pos <= WordSize
                   /\ Digit(Mag(sum.upper), pos) # Digit(Mag(upper_accumulator), pos)
    IN  /\ upper_overflow > 0
        /\ upper_overflow' = upper_overflow - 1
        /\ upper_accumulator' = sum.upper
        /\ lower_accumulator' = sum.lower
        /\ overflow' = (overflow \/ spilled)
        /\ IF upper_overflow > 1 \/ shift_count < WordSize THEN Again ELSE Done
        /\ UNCHANGED shift_count

Multiply ==
    /\ Step("Multiply")
    /\ MultiplierShift \/ MultiplierAdd
    /\ UNCHANGED <<drum_storage, distributor, storage_selection_error, restart,
                   shift_next, lookup_band>>

(* Divide: the partial dividend is the upper half below the digit shifted    *)
(* off.  That digit enters the difference as a number, not as a code, and    *)
(* makes it negative whenever it is not 0.                                   *)
DividendShift ==
    LET l == Signed(lower_accumulator,
                    IF distributor.sign = lower_accumulator.sign THEN "+" ELSE "-")
        shifted == ShiftLeft(upper_accumulator, l)
    IN  /\ shift_next
        /\ upper_overflow' = HighDigit(Mag(upper_accumulator))
        /\ upper_accumulator' = shifted.upper
        /\ lower_accumulator' = shifted.lower
        /\ shift_count' = CountedShift
        /\ shift_next' = FALSE
        /\ Again
        /\ UNCHANGED overflow

(* Mutant of DivisorFits: equal numbers leave no difference.                 *)
DivisorBelow ==
    upper_overflow = 0 /\ Mag(upper_accumulator) > Mag(distributor)

DivisorFits ==
    upper_overflow = 0 /\ Mag(upper_accumulator) >= Mag(distributor)

QuotientDigitFull == Mag(lower_accumulator) % Base = Base - 1

DivisorSubtract ==
    /\ ~shift_next
    /\ DivisorFits
    /\ upper_accumulator' = WordOf(Mag(upper_accumulator) - Mag(distributor),
                                   upper_accumulator.sign)
    /\ \/ /\ QuotientDigitFull
          /\ overflow' = TRUE
          /\ shift_count' = 0
          /\ Done
          /\ UNCHANGED lower_accumulator
       \/ /\ ~QuotientDigitFull
          /\ lower_accumulator' = WordOf(Mag(lower_accumulator) + 1,
                                         lower_accumulator.sign)
          /\ Again
          /\ UNCHANGED <<overflow, shift_count>>
    /\ UNCHANGED <<upper_overflow, shift_next>>

QuotientDigitDone ==
    /\ ~shift_next
    /\ ~DivisorFits
    /\ shift_next' = TRUE
    /\ IF shift_count < WordSize THEN Again ELSE Done
    /\ upper_accumulator' =
           IF shift_count >= WordSize /\ operation = divide_and_reset_upper
           THEN Zero(lower_accumulator.sign)
           ELSE upper_accumulator
    /\ UNCHANGED <<lower_accumulator, overflow, shift_count, upper_overflow>>

Divide ==
    /\ Step("Divide")
    /\ DividendShift \/ DivisorSubtract \/ QuotientDigitDone
    /\ UNCHANGED <<drum_storage, distributor, storage_selection_error, restart,
                   lookup_band>>

(* Shifts count up to 10 from the complement of the units digit of the       *)
(* address.  Shift and count stops early, at a digit in the high position.   *)
Enable_Shift_Control ==
    /\ Step("Enable_Shift_Control")
    /\ IF run_time % 2 = 0 THEN Done ELSE Again
    /\ UNCHANGED step_vars

(* Mutant of InitialShiftCount: the ten's complement of 0 is taken to be 10. *)
InitialShiftCountOfTen ==
    IF operation_register = shift_left_and_count /\ HighDigit(Mag(upper_accumulator)) > 0
    THEN 0
    ELSE Base - (address_register % Base)

InitialShiftCount ==
    IF operation_register = shift_left_and_count /\ HighDigit(Mag(upper_accumulator)) > 0
    THEN 0
    ELSE (Base - (address_register % Base)) % Base

CountStops ==
    /\ operation = shift_left_and_count
    /\ HighDigit(Mag(upper_accumulator)) > 0 \/ shift_count = Base

InsertShiftCount ==
    LET m == Mag(lower_accumulator)
    IN  /\ CountStops
        /\ lower_accumulator' = WordOf((m - (m % OpBase)) + shift_count,
                                       lower_accumulator.sign)
        /\ overflow' = (HighDigit(Mag(upper_accumulator)) = 0)
        /\ Done
        /\ UNCHANGED <<upper_accumulator, shift_count>>

(* Mutant of Rounds: 5 is added to the digit after the last one shifted off.  *)
RoundsLate == operation = shift_and_round /\ shift_count + 1 = Base

(* 5 is added before the last place: never in a shift of one place, which     *)
(* starts at 9.                                                              *)
Rounds == operation = shift_and_round /\ shift_count + 1 = 9

ShiftOnePlace ==
    LET shifted == IF operation \in {shift_right, shift_and_round}
                   THEN ShiftRight(upper_accumulator, lower_accumulator)
                   ELSE ShiftLeft(upper_accumulator, lower_accumulator)
        five == WordOf(5, lower_accumulator.sign)
        result == IF Rounds
                  THEN add_to_accumulator(shifted.upper, shifted.lower, five, FALSE)
                  ELSE shifted
    IN  /\ ~CountStops
        /\ shift_count' = shift_count + 1
        /\ upper_accumulator' = result.upper
        /\ lower_accumulator' = result.lower
        /\ IF operation # shift_left_and_count /\ shift_count + 1 = Base
           THEN Done ELSE Again
        /\ UNCHANGED overflow

Shift ==
    /\ Step("Shift")
    /\ InsertShiftCount \/ ShiftOnePlace
    /\ UNCHANGED <<drum_storage, distributor, storage_selection_error, restart,
                   upper_overflow, shift_next, lookup_band>>

(* Table lookup: wait for the start of a band, then compare word by word,    *)
(* but never with the last two words of a band.                              *)
LookupBand ==
    IF drum_index = 0 THEN band_of_address(address_register) ELSE lookup_band

(* Mutant of LookupPasses: only the last word is passed.                     *)
LookupPassesLast ==
    \/ BandSize - drum_index <= 1
    \/ Less(DrumRead(LookupBand), distributor)

LookupPasses ==
    \/ BandSize - drum_index <= 2
    \/ Less(DrumRead(LookupBand), distributor)

Look_Up_Address ==
    /\ Step("Look_Up_Address")
    /\ lookup_band' = LookupBand
    /\ IF LookupBand < 0 \/ LookupPasses THEN Again ELSE Done
    /\ UNCHANGED <<drum_storage, distributor, accumulator_vars, overflow,
                   storage_selection_error, restart, shift_count,
                   upper_overflow, shift_next>>

(* The address register after the operation step of a word time.             *)
SteppedAddress ==
    IF Step("Look_Up_Address") /\ LookupBand >= 0 /\ LookupPasses
    THEN (address_register + 1) % AddressBase
    ELSE address_register

Insert_Address_in_Lower ==
    /\ Step("Insert_Address_in_Lower")
    /\ lower_accumulator' = [lower_accumulator EXCEPT !.da = address_register]
    /\ Done
    /\ UNCHANGED <<drum_storage, distributor, upper_accumulator, overflow,
                   storage_selection_error, restart, member_vars>>

OperationStep ==
    \/ /\ op_it = op_end
       /\ UNCHANGED <<step_vars, op_it>>
    \/ Enable
    \/ Data_to_Distributor
    \/ Store_Distributor
    \/ Distributor_to_Accumulator
    \/ Remove_Interlock_A
    \/ Multiply
    \/ Divide
    \/ Enable_Shift_Control
    \/ Shift
    \/ Look_Up_Address
    \/ Insert_Address_in_Lower

----------------------------------------------------------------------------
(* The data half-cycle: the search for the next instruction.                 *)

BranchTaken ==
    CASE operation = branch_on_nonzero_in_upper -> Mag(upper_accumulator) # 0
      [] operation = branch_on_nonzero ->
            Mag(upper_accumulator) # 0 \/ Mag(lower_accumulator) # 0
      [] operation = branch_on_minus -> lower_accumulator.sign = "-"
      [] operation = branch_on_overflow -> overflow
      [] operation \in BranchOn8Ops ->
            Digit(Mag(distributor), PositionOf(operation)) = 8
      [] OTHER -> FALSE

(* The D-address stays in the address register when the branch is taken.  A  *)
(* tested digit must be 8 or 9.                                              *)
Instruction_Address_to_Address_Register ==
    /\ inst_it = 1
    /\ address_register' =
           IF BranchTaken THEN SteppedAddress ELSE program_register.ia
    /\ error_stop' =
           IF operation \in BranchOn8Ops
           THEN Digit(Mag(distributor), PositionOf(operation)) \notin {8, 9}
           ELSE error_stop
    /\ half_cycle' = "instruction"
    /\ inst_it' = 2

Enable_Program_Register ==
    /\ inst_it = 2
    /\ inst_it' = 3
    /\ address_register' = SteppedAddress
    /\ UNCHANGED <<error_stop, half_cycle>>

(* Mutant of SearchEnabled: the search begins with the last operation step.  *)
SearchEnabledEarly == (restart' \/ op_it' >= op_end - 1) /\ inst_it < 3

(* The restart signal, as the operation step of this word time leaves it, or *)
(* the end of the operation lets the search begin, the signal one word time  *)
(* late.                                                                     *)
SearchEnabled == (restart' \/ op_it' = op_end) /\ inst_it < 3

(* Mutant of NextInstructionStep: the restart signal takes effect at once.   *)
NextInstructionStepAtOnce ==
    \/ /\ ~SearchEnabled
       /\ address_register' = SteppedAddress
       /\ UNCHANGED <<restarted, inst_it, error_stop, half_cycle>>
    \/ /\ SearchEnabled
       /\ restarted' = TRUE
       /\ Instruction_Address_to_Address_Register \/ Enable_Program_Register

(* The next-instruction steps of one iteration of the loop.                  *)
NextInstructionStep ==
    \/ /\ ~SearchEnabled
       /\ address_register' = SteppedAddress
       /\ UNCHANGED <<restarted, inst_it, error_stop, half_cycle>>
    \/ /\ SearchEnabled
       /\ restarted' = TRUE
       /\ ~restarted /\ op_it' # op_end
       /\ address_register' = SteppedAddress
       /\ UNCHANGED <<inst_it, error_stop, half_cycle>>
    \/ /\ SearchEnabled
       /\ restarted' = TRUE
       /\ restarted \/ op_it' = op_end
       /\ Instruction_Address_to_Address_Register \/ Enable_Program_Register

DataLoopEnded == op_it = op_end /\ inst_it = 3

(* Data_to_Distributor and Look_Up_Address read storage.                     *)
DataAborts ==
    \/ /\ Step("Data_to_Distributor")
       /\ operation \notin StoreOps
       /\ UnderHead(address_register)
       /\ ~Readable(address_register)
    \/ /\ Step("Look_Up_Address")
       /\ BandSize - drum_index > 2
       /\ LookupBand >= NBands

DataWordTime ==
    /\ pc = "data"
    /\ ~DataLoopEnded
    /\ ~DataAborts
    /\ OperationStep
    /\ NextInstructionStep
    /\ WordTime
    /\ UNCHANGED <<switch_vars, program_register, operation_register, pc,
                   operation>>

DataAbort ==
    /\ pc = "data"
    /\ ~DataLoopEnded
    /\ DataAborts
    /\ Abort

(* Before the loop: latch the operation, blank its register and make the     *)
(* steps.  An operation code with no steps of its own fails an assertion.     *)
BeginData ==
    /\ pc = "decode"
    /\ operation_register \in ValidOperations
    /\ operation' = operation_register
    /\ operation_register' = Blank
    /\ shift_count' = IF operation_register \in ShiftOps THEN InitialShiftCount ELSE 0
    /\ upper_overflow' = 0
    /\ shift_next' = TRUE
    /\ lookup_band' = -1
    /\ op_it' = 1
    /\ inst_it' = 1
    /\ restarted' = FALSE
    /\ pc' = "data"
    /\ UNCHANGED <<drum_vars, switch_vars, distributor, accumulator_vars,
                   program_register, address_register, half_cycle, run_time,
                   restart, flag_vars>>

DecodeAbort ==
    /\ pc = "decode"
    /\ operation_register \notin ValidOperations
    /\ Abort

Stops ==
    \/ cycle_mode = "half"
    \/ operation = stop
    \/ overflow /\ overflow_mode = "stop"
    \/ error_stop

(* After the loop; the locals of the half-cycle are gone.                     *)
EndData ==
    /\ pc = "data"
    /\ DataLoopEnded
    /\ pc' = IF Stops THEN "idle" ELSE "instruction"
    /\ operation' = no_operation
    /\ op_it' = 1
    /\ inst_it' = 1
    /\ restarted' = FALSE
    /\ shift_count' = 0
    /\ upper_overflow' = 0
    /\ shift_next' = TRUE
    /\ lookup_band' = -1
    /\ UNCHANGED machine_vars

----------------------------------------------------------------------------
(* program_start in the run and the address-stop control modes.               *)
Run ==
    /\ pc = "idle"
    /\ control_mode # "manual"
    /\ pc' = IF half_cycle = "instruction" THEN "instruction" ELSE "decode"
    /\ UNCHANGED <<machine_vars, local_vars>>

(* Mutant of ReadOut: the drum is read before it has turned.                  *)
ReadOutUnturned(addr) ==
    CASE addr \in {StorageEntryAddress, distributor_address} -> storage_entry
      [] addr \in {lower_accumulator_address, upper_accumulator_address} -> get_storage(addr)
      [] OTHER -> DrumRead(band_of_address(addr))

(* What the console reads out: the distributor holds the storage entry then. *)
ReadOut(addr) ==
    CASE addr \in {StorageEntryAddress, distributor_address} -> storage_entry
      [] addr \in {lower_accumulator_address, upper_accumulator_address} -> get_storage(addr)
      [] OTHER -> DrumWord(addr)

(* program_start in the manual mode: set the distributor and, with the       *)
(* display switch on a storage position, turn the drum to the address        *)
(* switches and write or read there.  The run time does not count this.      *)
ManualStart ==
    /\ pc = "idle"
    /\ control_mode = "manual"
    /\ \/ /\ display_mode = "read_in_storage"
          /\ OnDrum(address_entry)
          /\ drum_index' = index_of_address(address_entry)
          /\ drum_storage' =
                 [drum_storage EXCEPT ![band_of_address(address_entry)] =
                     [@ EXCEPT ![drum_index'] = storage_entry]]
          /\ distributor' = storage_entry
       \/ /\ display_mode = "read_out_storage"
          /\ Readable(address_entry)
          /\ drum_index' = index_of_address(address_entry)
          /\ distributor' = ReadOut(address_entry)
          /\ UNCHANGED drum_storage
       \/ /\ display_mode \notin {"read_in_storage", "read_out_storage"}
          /\ distributor' = storage_entry
          /\ UNCHANGED drum_vars
    /\ UNCHANGED <<switch_vars, accumulator_vars, program_register,
                   operation_register, address_register, half_cycle, run_time,
                   restart, flag_vars, pc, local_vars>>

ManualAbort ==
    /\ pc = "idle"
    /\ control_mode = "manual"
    /\ \/ display_mode = "read_in_storage" /\ ~OnDrum(address_entry)
       \/ display_mode = "read_out_storage" /\ ~Readable(address_entry)
    /\ Abort

(* One step of a program that has been started.                               *)
RunStep ==
    \/ InstructionWordTime \/ InstructionAbort \/ EndInstruction
    \/ BeginData \/ DecodeAbort
    \/ DataWordTime \/ DataAbort \/ EndData

ProgramStart == Run \/ ManualStart \/ ManualAbort

----------------------------------------------------------------------------
(* A computer that has been built, loaded and given a program reset in the   *)
(* run mode: the first instruction comes from the storage-entry switches.     *)
Init ==
    /\ drum_storage \in InitialDrums
    /\ drum_index \in Indices
    /\ storage_entry \in StorageEntries
    /\ address_entry \in AddressEntries
    /\ control_mode = "run"
    /\ cycle_mode \in CyclePositions
    /\ display_mode = "distributor"
    /\ overflow_mode \in OverflowPositions
    /\ distributor \in InitialWords
    /\ upper_accumulator \in InitialWords
    /\ lower_accumulator \in InitialWords
    /\ program_register = Unsigned(Zero("+"))
    /\ operation_register = Blank
    /\ address_register = StorageEntryAddress
    /\ half_cycle = "instruction"
    /\ run_time = 0
    /\ restart = FALSE
    /\ overflow = FALSE
    /\ storage_selection_error = FALSE
    /\ error_stop = FALSE
    /\ pc = "idle"
    /\ operation = no_operation
    /\ op_it = 1
    /\ inst_it = 1
    /\ restarted = FALSE
    /\ shift_count = 0
    /\ upper_overflow = 0
    /\ shift_next = TRUE
    /\ lookup_band = -1

Next == ProgramStart \/ RunStep

Spec == Init /\ [][Next]_vars

(* program_start is a plain call: once entered its loops keep running.        *)
FairSpec == Spec /\ WF_vars(RunStep)

----------------------------------------------------------------------------
(* Properties.                                                               *)

ArithmeticOps == AddOps \cup ResetAddOps

(* m_restart is up only while an add, subtract or reset operation fills the  *)
(* accumulator, so that no other operation, and no later half-cycle, finds   *)
(* the search for its next instruction already enabled.  No reset key clears *)
(* it: this relies on Remove_Interlock_A alone.  The signal is given at an   *)
(* even word time and the accumulator is full at the odd one that follows,   *)
(* which is when the search, one word time late, reads the next address.     *)
RestartInterlock ==
    /\ restart => /\ pc = "data"
                  /\ operation \in ArithmeticOps
                  /\ op_it \in {3, 4}
    /\ pc = "data" /\ operation \in ArithmeticOps =>
          /\ op_it = 4 => restart
          /\ op_it = 3 /\ restart => run_time % 2 = 1
          /\ op_it <= 3 /\ ~restart => ~restarted

(* Between half-cycles the half-cycle lights, the operation register and the *)
(* program register agree on whether an instruction waits to be executed,    *)
(* and on which: the register that operation_steps decodes is blank exactly  *)
(* when nothing waits.  The D-address is never blank then.                   *)
OperationPending ==
    /\ pc \in {"idle", "decode"} =>
          operation_register =
             IF half_cycle = "data" THEN program_register.op ELSE Blank
    /\ pc = "instruction" =>
          operation_register =
             IF inst_it = 3 THEN program_register.op ELSE Blank
    /\ pc = "data" => operation_register = Blank
    /\ pc = "decode" => half_cycle = "data"
    /\ half_cycle = "data" \/ pc = "data" => address_register # Blank

(* The half-cycle lights change exactly when the search for the next address *)
(* ends, and in a data half-cycle it ends when nothing but the interlock is  *)
(* left of the operation.                                                    *)
SearchPosition ==
    /\ pc \in {"idle", "decode"} => inst_it = 1
    /\ pc = "instruction" => (half_cycle = "data" <=> inst_it = 3)
    /\ pc = "data" =>
          /\ operation \in ValidOperations
          /\ op_it <= op_end
          /\ half_cycle = "data" <=> inst_it = 1
          /\ inst_it > 1 => op_it = op_end \/ Step("Remove_Interlock_A")

(* What may change after the search has found the next address.              *)
NothingButTheInterlock ==
    pc = "data" /\ half_cycle = "instruction" =>
       UNCHANGED <<drum_storage, distributor, accumulator_vars, overflow,
                   storage_selection_error, address_register, error_stop>>

(* The search for the next instruction comes last: once the next address is  *)
(* in the address register, no operation step still to come touches what the *)
(* operation works on, or the address (program_start runs the two in         *)
(* parallel).                                                                *)
SearchIsLast == [][NothingButTheInterlock]_vars

(* The address of the one word a step may change.                            *)
AddressedWordChanges ==
    \A addr \in 0 .. NBands * BandSize - 1 :
       DrumWord(addr)' # DrumWord(addr) =>
          addr = IF pc = "idle" THEN address_entry ELSE address_register

(* A step changes at most the word of the drum that is addressed: by the     *)
(* address register while a program runs, by the address switches from the   *)
(* console (Store_Distributor, and the manual branch of program_start).      *)
OnlyAddressedWordChanges == [][AddressedWordChanges]_vars

(* Every half-cycle ends: no operation waits for the drum or for an even     *)
(* word time for ever, so that again and again the computer is in neither of  *)
(* its loops.  Multiplication is left out, see MultiplyEnds.                 *)
HalfCyclesEnd ==
    []<>(pc \notin {"instruction", "data"} \/ (pc = "data" /\ operation = multiply))

(* "Loop until both are done", says the comment above the loop.              *)
MultiplyEnds == (pc = "data" /\ operation = multiply) ~> (pc # "data")

=============================================================================
