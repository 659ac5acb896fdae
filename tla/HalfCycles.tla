----------------------------- MODULE HalfCycles -----------------------------
(***************************************************************************)
(* The control unit observed at the ends of its half-cycles.  Two history    *)
(* variables are added: the machine as the last completed half-cycle left    *)
(* it, and the word times the present half-cycle has taken.  The first is    *)
(* the refinement mapping to InstructionSet.                                 *)
(***************************************************************************)
EXTENDS ControlUnit

(* Table lookup compares with all but the last two words of a band, and goes  *)
(* from band to band by counting the address register: it ends because a     *)
(* band has a third word, and because no count on the drum passes the last   *)
(* address.                                                                  *)
ASSUME LookUpAssumption ==
    /\ BandSize > 2
    /\ BandSize * (NBands + 1) <= AddressBase

VARIABLES completed, word_times

hvars == <<vars, completed, word_times>>

Machine ==
    [storage |-> drum_storage,
     distributor |-> distributor,
     upper |-> upper_accumulator,
     lower |-> lower_accumulator,
     program |-> program_register,
     operation |-> operation_register,
     address |-> address_register,
     half_cycle |-> half_cycle,
     overflow |-> overflow,
     storage_selection_error |-> storage_selection_error,
     error_stop |-> error_stop]

Switches ==
    [storage_entry |-> storage_entry,
     control_mode |-> control_mode,
     cycle_mode |-> cycle_mode,
     overflow_mode |-> overflow_mode]

Status ==
    CASE pc = "idle" -> "idle"
      [] pc = "aborted" -> "aborted"
      [] OTHER -> "running"

InHalfCycle == pc \in {"data", "aborted"} \/ (pc = "instruction" /\ inst_it > 1)

HInit ==
    /\ Init
    /\ completed = Machine
    /\ word_times = 0

HNext ==
    /\ Next
    /\ completed' = IF InHalfCycle' THEN completed ELSE Machine'
    /\ word_times' = IF run_time' # run_time THEN word_times + 1
                     ELSE IF pc' = pc THEN word_times ELSE 0

HSpec == HInit /\ [][HNext]_hvars

Instructions == INSTANCE InstructionSet WITH
    machine <- completed,
    switches <- Switches,
    status <- Status

(* Overlapping the operation with the search for the next instruction, and   *)
(* waiting for the drum, is invisible: the half-cycles have the effects of   *)
(* InstructionSet, which is written without either.                          *)
ImplementsInstructionSet == Instructions!Spec

(* How long a half-cycle may take: the longest wait for the drum is one      *)
(* revolution, the longest wait for an even word time is one word time, and  *)
(* only the iterative operations take longer.  The time of a multiplication  *)
(* has no bound.                                                             *)
LongestData(op) ==
    CASE op \in StepLessOps -> 2
      [] op \in ArithmeticOps -> BandSize + 5
      [] op \in StoreWordOps -> BandSize + 3
      [] op \in {load_distributor, store_distributor} \cup StoreAddressOps ->
            BandSize + 2
      [] op \in ShiftOps -> Base + 5
      [] op \in DivideOps -> BandSize + (Base + 1) * WordSize + 3
      [] op = table_lookup -> (NBands + 2) * BandSize

DurationBound ==
    /\ pc = "instruction" => word_times <= BandSize + 1
    /\ pc = "data" /\ operation # multiply => word_times <= LongestData(operation)
=============================================================================
