-------------------------- MODULE RefinementProofs --------------------------
(***************************************************************************)
(* The control unit implements the instruction set, for every size of the   *)
(* machine, every drum and every program: the overlap of operation and       *)
(* search, the word times and the drum cannot be seen in what a half-cycle   *)
(* leaves behind.                                                           *)
(***************************************************************************)
EXTENDS HalfCycleProofs

----------------------------------------------------------------------------
(* InstructionSet sees the same words, addresses and operations.             *)
LEMMA SameSets ==
    /\ Instructions!Word = Word /\ Instructions!UWord = UWord
    /\ Instructions!OpCodes = OpCodes /\ Instructions!Addresses = Addresses
    /\ Instructions!SpecialAddresses = SpecialAddresses
    /\ Instructions!Signs = Signs
    /\ Instructions!WordBase = WordBase /\ Instructions!HighBase = HighBase
    /\ Instructions!OpBase = OpBase /\ Instructions!Base = Base
    /\ Instructions!distributor_address = distributor_address
    /\ Instructions!lower_accumulator_address = lower_accumulator_address
    /\ Instructions!upper_accumulator_address = upper_accumulator_address
  BY DEF Instructions!Word, Word, Instructions!UWord, UWord, Instructions!OpCodes, OpCodes,
    Instructions!Addresses, Addresses, Instructions!SpecialAddresses, SpecialAddresses,
    Instructions!Signs, Signs, Instructions!WordBase, WordBase, Instructions!HighBase,
    HighBase, Instructions!OpBase, OpBase, Instructions!Base, Base,
    Instructions!distributor_address, distributor_address,
    Instructions!lower_accumulator_address, lower_accumulator_address,
    Instructions!upper_accumulator_address, upper_accumulator_address

LEMMA SameWeight == Instructions!Weight = Weight
  BY Zenon DEF Instructions!Weight, Weight, Instructions!Base, Base

LEMMA SameWords ==
    /\ \A w : Instructions!Mag(w) = Mag(w)
    /\ \A m, s : Instructions!WordOf(m, s) = WordOf(m, s)
    /\ \A s : Instructions!Zero(s) = Zero(s)
    /\ \A w : Instructions!Unsigned(w) = Unsigned(w)
    /\ \A w : Instructions!Abs(w) = Abs(w)
    /\ \A w : Instructions!ChangeSign(w) = ChangeSign(w)
    /\ \A m, p : Instructions!Digit(m, p) = Digit(m, p)
    /\ \A m : Instructions!HighDigit(m) = HighDigit(m)
  <1>1. \A w : Instructions!Mag(w) = Mag(w)
    BY DEF Instructions!Mag, Mag
  <1>2. \A m, s : Instructions!WordOf(m, s) = WordOf(m, s)
    BY DEF Instructions!WordOf, WordOf
  <1>3. \A s : Instructions!Zero(s) = Zero(s)
    BY DEF Instructions!Zero, Zero
  <1>4. \A w : Instructions!Unsigned(w) = Unsigned(w)
    BY DEF Instructions!Unsigned, Unsigned
  <1>5. \A w : Instructions!Abs(w) = Abs(w)
    BY DEF Instructions!Abs, Abs
  <1>6. \A w : Instructions!ChangeSign(w) = ChangeSign(w)
    BY DEF Instructions!ChangeSign, ChangeSign
  <1>7. \A m, p : Instructions!Digit(m, p) = Digit(m, p)
    BY SameWeight, SameSets DEF Instructions!Digit, Digit
  <1>8. \A m : Instructions!HighDigit(m) = HighDigit(m)
    BY SameSets DEF Instructions!HighDigit, HighDigit
  <1> QED  BY <1>1, <1>2, <1>3, <1>4, <1>5, <1>6, <1>7, <1>8

LEMMA SamePlaces ==
    /\ \A a : Instructions!band_of_address(a) = band_of_address(a)
    /\ \A a : Instructions!index_of_address(a) = index_of_address(a)
    /\ \A a : Instructions!OnDrum(a) <=> OnDrum(a)
    /\ \A a : Instructions!HasWord(a) <=> Readable(a)
  <1>1. \A a : Instructions!band_of_address(a) = band_of_address(a)
    BY DEF Instructions!band_of_address, band_of_address
  <1>2. \A a : Instructions!index_of_address(a) = index_of_address(a)
    BY DEF Instructions!index_of_address, index_of_address
  <1>3. \A a : Instructions!OnDrum(a) <=> OnDrum(a)
    BY <1>1 DEF Instructions!OnDrum, OnDrum
  <1>4. \A a : Instructions!HasWord(a) <=> Readable(a)
    BY <1>3, SameSets DEF Instructions!HasWord, Readable
  <1> QED  BY <1>1, <1>2, <1>3, <1>4

LEMMA SameAddition ==
    \A u, l, w, b : Instructions!add_to_accumulator(u, l, w, b) = add_to_accumulator(u, l, w, b)
  <1>1. \A x : Instructions!Carry(x) = Carry(x)
    BY SameSets DEF Instructions!Carry, Carry
  <1>2. \A x, y : Instructions!Borrow(x, y) = Borrow(x, y)
    BY DEF Instructions!Borrow, Borrow
  <1>3. \A a, b : Instructions!PlusMagnitude(a, b) = PlusMagnitude(a, b)
    BY <1>1, SameSets DEF Instructions!PlusMagnitude, PlusMagnitude
  <1>4. \A a, b : Instructions!MinusMagnitude(a, b) = MinusMagnitude(a, b)
    BY <1>2, SameSets DEF Instructions!MinusMagnitude, MinusMagnitude
  <1>5. \A a, b : Instructions!AtLeast(a, b) <=> AtLeast(a, b)
    BY DEF Instructions!AtLeast, AtLeast
  <1>6. \A a, sa, b, sb : Instructions!SignedSum(a, sa, b, sb) = SignedSum(a, sa, b, sb)
    BY <1>3, <1>4, <1>5 DEF Instructions!SignedSum, SignedSum
  <1>7. \A u, l : Instructions!Halves(u, l) = Halves(u, l)
    BY SameWords DEF Instructions!Halves, Halves
  <1> QED  BY <1>6, <1>7, SameWords DEF Instructions!add_to_accumulator, add_to_accumulator

LEMMA SameCodes ==
    /\ Instructions!no_operation = no_operation
    /\ Instructions!stop = stop
    /\ Instructions!add_to_upper = add_to_upper
    /\ Instructions!subtract_from_upper = subtract_from_upper
    /\ Instructions!divide = divide
    /\ Instructions!add_to_lower = add_to_lower
    /\ Instructions!subtract_from_lower = subtract_from_lower
    /\ Instructions!add_absolute_to_lower = add_absolute_to_lower
    /\ Instructions!subtract_absolute_from_lower = subtract_absolute_from_lower
    /\ Instructions!multiply = multiply
    /\ Instructions!store_lower_in_memory = store_lower_in_memory
    /\ Instructions!store_upper_in_memory = store_upper_in_memory
    /\ Instructions!store_lower_data_address = store_lower_data_address
    /\ Instructions!store_lower_instruction_address = store_lower_instruction_address
    /\ Instructions!store_distributor = store_distributor
    /\ Instructions!shift_right = shift_right
    /\ Instructions!shift_and_round = shift_and_round
    /\ Instructions!shift_left = shift_left
    /\ Instructions!shift_left_and_count = shift_left_and_count
    /\ Instructions!branch_on_nonzero_in_upper = branch_on_nonzero_in_upper
    /\ Instructions!branch_on_nonzero = branch_on_nonzero
    /\ Instructions!branch_on_minus = branch_on_minus
    /\ Instructions!branch_on_overflow = branch_on_overflow
    /\ Instructions!reset_and_add_into_upper = reset_and_add_into_upper
    /\ Instructions!reset_and_subtract_into_upper = reset_and_subtract_into_upper
    /\ Instructions!divide_and_reset_upper = divide_and_reset_upper
    /\ Instructions!reset_and_add_into_lower = reset_and_add_into_lower
    /\ Instructions!reset_and_subtract_into_lower = reset_and_subtract_into_lower
    /\ Instructions!reset_and_add_absolute_into_lower = reset_and_add_absolute_into_lower
    /\ Instructions!reset_and_subtract_absolute_into_lower = reset_and_subtract_absolute_into_lower
    /\ Instructions!load_distributor = load_distributor
    /\ Instructions!table_lookup = table_lookup
    /\ Instructions!branch_on_8_in_distributor_position_10 = branch_on_8_in_distributor_position_10
  BY DEF
    Instructions!no_operation, no_operation, Instructions!stop, stop,
    Instructions!add_to_upper, add_to_upper, Instructions!subtract_from_upper,
    subtract_from_upper, Instructions!divide, divide, Instructions!add_to_lower,
    add_to_lower, Instructions!subtract_from_lower, subtract_from_lower,
    Instructions!add_absolute_to_lower, add_absolute_to_lower,
    Instructions!subtract_absolute_from_lower, subtract_absolute_from_lower,
    Instructions!multiply, multiply, Instructions!store_lower_in_memory,
    store_lower_in_memory, Instructions!store_upper_in_memory, store_upper_in_memory,
    Instructions!store_lower_data_address, store_lower_data_address,
    Instructions!store_lower_instruction_address, store_lower_instruction_address,
    Instructions!store_distributor, store_distributor, Instructions!shift_right,
    shift_right, Instructions!shift_and_round, shift_and_round,
    Instructions!shift_left, shift_left, Instructions!shift_left_and_count,
    shift_left_and_count, Instructions!branch_on_nonzero_in_upper,
    branch_on_nonzero_in_upper, Instructions!branch_on_nonzero, branch_on_nonzero,
    Instructions!branch_on_minus, branch_on_minus, Instructions!branch_on_overflow,
    branch_on_overflow, Instructions!reset_and_add_into_upper,
    reset_and_add_into_upper, Instructions!reset_and_subtract_into_upper,
    reset_and_subtract_into_upper, Instructions!divide_and_reset_upper,
    divide_and_reset_upper, Instructions!reset_and_add_into_lower,
    reset_and_add_into_lower, Instructions!reset_and_subtract_into_lower,
    reset_and_subtract_into_lower, Instructions!reset_and_add_absolute_into_lower,
    reset_and_add_absolute_into_lower,
    Instructions!reset_and_subtract_absolute_into_lower,
    reset_and_subtract_absolute_into_lower, Instructions!load_distributor,
    load_distributor, Instructions!table_lookup, table_lookup,
    Instructions!branch_on_8_in_distributor_position_10,
    branch_on_8_in_distributor_position_10

LEMMA SameClasses ==
    /\ Instructions!AddOps = AddOps
    /\ Instructions!ResetAddOps = ResetAddOps
    /\ Instructions!UpperOps = UpperOps
    /\ Instructions!AbsoluteOps = AbsoluteOps
    /\ Instructions!SubtractOps = SubtractOps
    /\ Instructions!DivideOps = DivideOps
    /\ Instructions!ShiftOps = ShiftOps
    /\ Instructions!StoreOps = StoreOps
    /\ Instructions!TestOps = TestOps
    /\ Instructions!BranchOn8Ops = BranchOn8Ops
    /\ Instructions!StepLessOps = StepLessOps
    /\ Instructions!ValidOperations = ValidOperations
    /\ Instructions!LoadingOps = {load_distributor, multiply} \cup AddOps \cup ResetAddOps \cup DivideOps
    /\ \A op : Instructions!PositionOf(op) = PositionOf(op)
  <1>1. Instructions!AddOps = AddOps
    BY SameCodes
       DEF Instructions!AddOps, AddOps
  <1>2. Instructions!ResetAddOps = ResetAddOps
    BY SameCodes
       DEF Instructions!ResetAddOps, ResetAddOps
  <1>3. Instructions!UpperOps = UpperOps
    BY SameCodes
       DEF Instructions!UpperOps, UpperOps
  <1>4. Instructions!AbsoluteOps = AbsoluteOps
    BY SameCodes
       DEF Instructions!AbsoluteOps, AbsoluteOps
  <1>5. Instructions!SubtractOps = SubtractOps
    BY SameCodes
       DEF Instructions!SubtractOps, SubtractOps
  <1>6. Instructions!DivideOps = DivideOps
    BY SameCodes
       DEF Instructions!DivideOps, DivideOps
  <1>7. Instructions!ShiftOps = ShiftOps
    BY SameCodes
       DEF Instructions!ShiftOps, ShiftOps
  <1>8. Instructions!StoreOps = StoreOps
    BY SameCodes
       DEF Instructions!StoreWordOps, StoreWordOps, Instructions!StoreAddressOps, StoreAddressOps, Instructions!StoreOps, StoreOps
  <1>9. Instructions!TestOps = TestOps
    BY SameCodes
       DEF Instructions!TestOps, TestOps
  <1>10. Instructions!BranchOn8Ops = BranchOn8Ops
    BY SameCodes, SameSets DEF Instructions!BranchOn8Ops, BranchOn8Ops
  <1>11. Instructions!StepLessOps = StepLessOps
    BY <1>9, <1>10, SameCodes DEF Instructions!StepLessOps, StepLessOps
  <1>12. Instructions!ValidOperations = ValidOperations
    BY <1>1, <1>2, <1>6, <1>7, <1>8, <1>11, SameCodes
       DEF Instructions!ValidOperations, ValidOperations
  <1>13. Instructions!LoadingOps
            = {load_distributor, multiply} \cup AddOps \cup ResetAddOps \cup DivideOps
    BY <1>1, <1>2, <1>6, SameCodes DEF Instructions!LoadingOps
  <1>14. \A op : Instructions!PositionOf(op) = PositionOf(op)
    BY SameCodes DEF Instructions!PositionOf, PositionOf
  <1> QED
    BY <1>1, <1>2, <1>3, <1>4, <1>5, <1>6, <1>7, <1>8, <1>9, <1>10, <1>11, <1>12, <1>13,
       <1>14

----------------------------------------------------------------------------
(* What the operation has made of the drum, the registers and the lights      *)
(* since the last half-cycle was completed.                                  *)
WorkedIs(s, d, u, l, v, e) ==
    /\ drum_storage = s
    /\ distributor = d
    /\ upper_accumulator = u
    /\ lower_accumulator = l
    /\ overflow = v
    /\ storage_selection_error = e

Untouched ==
    WorkedIs(completed.storage, completed.distributor, completed.upper, completed.lower,
             completed.overflow, completed.storage_selection_error)

(* The word the instruction or its data address asks for.                     *)
Addressed == Instructions!WordAt(completed, completed.address)

(* An instruction that has been read into the program register.              *)
Fetched ==
    /\ completed.half_cycle = "instruction"
    /\ Readable(completed.address)
    /\ program_register = Unsigned(Addressed)
    /\ Untouched
    /\ error_stop = completed.error_stop
    /\ inst_it = 3 => address_register = program_register.da

(* The search for the next instruction.  Lookup counts in the address        *)
(* register.                                                                 *)
Searched ==
    /\ inst_it = 1 =>
          /\ operation # table_lookup => address_register = completed.address
          /\ error_stop = completed.error_stop
    /\ inst_it > 1 =>
          /\ address_register = IF BranchTaken THEN completed.address
                                ELSE program_register.ia
          /\ error_stop = IF operation \in BranchOn8Ops
                          THEN Digit(Mag(distributor), PositionOf(operation)) \notin {8, 9}
                          ELSE completed.error_stop

(* The operations, step by step.                                             *)
DataLoaded ==
    /\ Readable(completed.address)
    /\ WorkedIs(completed.storage, Addressed, completed.upper, completed.lower,
                completed.overflow, completed.storage_selection_error)

LoadEffect ==
    /\ op_it <= 2 => Untouched
    /\ op_it > 2 => DataLoaded

Added ==
    LET w == Instructions!OperandOf(operation, Addressed)
    IN  CASE operation \in AddOps ->
                add_to_accumulator(completed.upper, completed.lower, w,
                                   operation \in UpperOps)
          [] operation \in ResetAddOps \cap UpperOps ->
                [upper |-> w, lower |-> Zero(w.sign), carry |-> 0]
          [] OTHER -> [upper |-> Zero(w.sign), lower |-> w, carry |-> 0]

ArithmeticEffect ==
    /\ op_it <= 2 => Untouched
    /\ op_it = 3 => DataLoaded
    /\ op_it > 3 =>
          /\ Readable(completed.address)
          /\ WorkedIs(completed.storage, Addressed, Added.upper, Added.lower,
                      Added.carry > 0, completed.storage_selection_error)

StoreDone(w) ==
    LET b == band_of_address(completed.address)
        i == index_of_address(completed.address)
    IN  IF OnDrum(completed.address)
        THEN WorkedIs([completed.storage EXCEPT ![b] = [@ EXCEPT ![i] = w]], w,
                      completed.upper, completed.lower, completed.overflow,
                      completed.storage_selection_error)
        ELSE WorkedIs(completed.storage, w, completed.upper, completed.lower,
                      completed.overflow, TRUE)

StoreEffect ==
    LET w == Instructions!StoredBy(completed, operation)
    IN  /\ op_it < op_end - 1 => Untouched
        /\ op_it = op_end - 1 =>
              WorkedIs(completed.storage, w, completed.upper, completed.lower,
                       completed.overflow, completed.storage_selection_error)
        /\ op_it = op_end => StoreDone(w)

IterativeEffect ==
    /\ op_it <= 2 => Untouched
    /\ op_it > 2 =>
          /\ Readable(completed.address)
          /\ completed.overflow => overflow
          /\ WorkedIs(completed.storage, Addressed, upper_accumulator, lower_accumulator,
                      overflow, completed.storage_selection_error)

LookUpEffect ==
    /\ op_it <= 4 => Untouched
    /\ op_it = 5 =>
          /\ lower_accumulator.da \in Addresses
          /\ WorkedIs(completed.storage, completed.distributor, completed.upper,
                      [completed.lower EXCEPT !.da = lower_accumulator.da],
                      completed.overflow, completed.storage_selection_error)

(* Shifts.  The first is the shift of so many places, the second what is      *)
(* left to shift by one place after rounding.                                *)
Upper == Mag(completed.upper)
Lower == Mag(completed.lower)
PlacesToShift == Instructions!Places(completed.address)
PlacesShifted == shift_count - (Base - PlacesToShift)

ShiftedTo(u, l, v) ==
    WorkedIs(completed.storage, completed.distributor, WordOf(u, completed.upper.sign),
             WordOf(l, completed.lower.sign), v, completed.storage_selection_error)

ShiftedBy(d) == ShiftedTo(d.upper, d.lower, completed.overflow)

HalfAdded(d) ==
    LET low == d.lower + 5
        c == IF low >= WordBase THEN 1 ELSE 0
    IN  [upper |-> d.upper + c, lower |-> low - c * WordBase]

RightShifted(k) ==
    LET d == Instructions!Right(Upper, Lower, k)
    IN  IF operation = shift_and_round /\ k > 0 /\ k + 1 = PlacesToShift
        THEN HalfAdded(d) ELSE d

LeftShifted(k) == Instructions!Left(Upper, Lower, k)

Shifting ==
    /\ operation \in {shift_right, shift_and_round} =>
          /\ PlacesShifted \in 0 .. PlacesToShift - 1
          /\ ShiftedBy(RightShifted(PlacesShifted))
    /\ operation = shift_left =>
          /\ PlacesShifted \in 0 .. PlacesToShift - 1
          /\ ShiftedBy(LeftShifted(PlacesShifted))
    /\ operation = shift_left_and_count /\ HighDigit(Upper) > 0 =>
          shift_count = 0 /\ ShiftedBy(LeftShifted(0))
    /\ operation = shift_left_and_count /\ ~(HighDigit(Upper) > 0) =>
          /\ PlacesShifted \in 0 .. PlacesToShift
          /\ ShiftedBy(LeftShifted(PlacesShifted))
          /\ \A j \in 0 .. PlacesShifted - 1 : HighDigit(LeftShifted(j).upper) = 0

(* A shift by one place does not round.                                       *)
RoundedOrDropped(u, l, n) ==
    IF n = 1 THEN Instructions!Right(u, l, 1) ELSE Instructions!Rounded(u, l, n)

CountInserted(k) ==
    LET d == LeftShifted(k)
        count == IF k = 0 THEN 0 ELSE (Base - PlacesToShift) + k
        low == (d.lower - (d.lower % OpBase)) + count
    IN  ShiftedTo(d.upper, low, HighDigit(d.upper) = 0)

Shifted ==
    /\ operation = shift_right =>
          ShiftedBy(Instructions!Right(Upper, Lower, PlacesToShift))
    /\ operation = shift_left => ShiftedBy(LeftShifted(PlacesToShift))
    /\ operation = shift_and_round =>
          ShiftedBy(RoundedOrDropped(Upper, Lower, PlacesToShift))
    /\ operation = shift_left_and_count =>
          CountInserted(Instructions!Normalizing(Upper, Lower, PlacesToShift))

ShiftEffect ==
    /\ op_it <= 2 => Shifting
    /\ op_it > 2 => Shifted

Executing ==
    /\ completed.operation = operation
    /\ completed.address \in Addresses
    /\ completed.half_cycle = "data"
    /\ completed.program = program_register
    /\ Searched
    /\ operation \in StepLessOps => Untouched
    /\ operation = load_distributor => LoadEffect
    /\ operation \in ArithmeticOps => ArithmeticEffect
    /\ operation \in StoreOps => StoreEffect
    /\ operation \in ShiftOps => ShiftEffect
    /\ operation \in DivideOps \cup {multiply} => IterativeEffect
    /\ operation = table_lookup => LookUpEffect

(* The inductive invariant: how the machine that the abstract specification  *)
(* sees is found in the machine that is working.                             *)
Simulated ==
    /\ control_mode # "manual"
    /\ completed \in Instructions!Machines
    /\ pc \in {"idle", "decode"} \/ (pc = "instruction" /\ inst_it = 1) => completed = Machine
    /\ pc = "instruction" /\ inst_it > 1 => Fetched
    /\ pc = "data" => Executing

----------------------------------------------------------------------------
(* Reading storage, now and in the machine the half-cycle began with.         *)
LEMMA ReadWord ==
    ASSUME Untouched, address_register = completed.address,
           UnderHead(address_register) \/ address_register \in SpecialAddresses
    PROVE  get_storage(address_register) = Addressed
  <1> DEFINE a == address_register
  <1>1. Addressed =
           CASE a = StorageEntryAddress -> storage_entry
             [] a = distributor_address -> distributor
             [] a = lower_accumulator_address -> lower_accumulator
             [] a = upper_accumulator_address -> upper_accumulator
             [] OTHER -> drum_storage[band_of_address(a)][index_of_address(a)]
    BY SameSets, SamePlaces
       DEF Addressed, Instructions!WordAt, Switches, Untouched, WorkedIs
  <1>2. CASE UnderHead(a)
    BY <1>1, <1>2 DEF get_storage, DrumRead, UnderHead
  <1>3. CASE a \in SpecialAddresses
    <2>1. a \in {StorageEntryAddress, distributor_address, lower_accumulator_address,
                 upper_accumulator_address}
      BY <1>3, SizesAssumption
         DEF SpecialAddresses, distributor_address, lower_accumulator_address,
             upper_accumulator_address
    <2>2. /\ distributor_address = StorageEntryAddress + 1
          /\ lower_accumulator_address = StorageEntryAddress + 2
          /\ upper_accumulator_address = StorageEntryAddress + 3
          /\ StorageEntryAddress \in Nat
      BY SizesAssumption
         DEF distributor_address, lower_accumulator_address, upper_accumulator_address
    <2> QED  BY <1>1, <2>1, <2>2 DEF get_storage
  <1> QED  BY <1>2, <1>3

(* What happens to the history variable and the switches.                     *)
LEMMA SwitchesKept ==
    ASSUME completed' = completed, UNCHANGED switch_vars
    PROVE  /\ Addressed' = Addressed
           /\ Switches' = Switches
           /\ Upper' = Upper /\ Lower' = Lower
           /\ PlacesToShift' = PlacesToShift
  BY DEF Addressed, Instructions!WordAt, Switches, switch_vars, Upper, Lower, PlacesToShift

(* Only the operations without steps test anything.                           *)
LEMMA TestsHaveNoSteps ==
    /\ BranchTaken => operation \in StepLessOps
    /\ operation \in BranchOn8Ops => operation \in StepLessOps
  BY DEF BranchTaken, StepLessOps, TestOps

LEMMA StepLessTouchNothing ==
    ASSUME IInv, DataWordTime, operation \in StepLessOps
    PROVE  UNCHANGED <<drum_storage, distributor, upper_accumulator, lower_accumulator,
                       overflow, storage_selection_error>>
  <1>1. op_it = op_end /\ \A name : ~Step(name)
    <2>1. op_end = 1
      BY ClassSteps DEF op_end
    <2> QED  BY <2>1, DataWordTimeFacts DEF Step
  <1>2. OperationStep
    BY DataWordTimeFacts
  <1>3. UNCHANGED step_vars
    BY <1>1, <1>2, Zenon
       DEF OperationStep, Enable, Data_to_Distributor, Store_Distributor,
           Distributor_to_Accumulator, Remove_Interlock_A, Multiply, Divide,
           Enable_Shift_Control, Shift, Look_Up_Address, Insert_Address_in_Lower
  <1> QED  BY <1>3 DEF step_vars, accumulator_vars

(* Only table lookup counts in the address register.                          *)
LEMMA LookUpAlone ==
    ASSUME op_it \in 1 .. 5, operation # table_lookup, operation \in ValidOperations
    PROVE  ~Step("Look_Up_Address")
  <1>1. CASE operation \in ArithmeticOps
    BY <1>1, ClassSteps, StepOfFour
  <1>2. CASE operation \in LoadOps
    BY <1>2, LoadSteps
  <1>3. CASE operation \in StoreWordOps
    BY <1>3, ClassSteps, StepOfThree
  <1>4. CASE operation \in ShiftOps
    BY <1>4, ClassSteps, StepOfThree
  <1>5. CASE operation \in DivideOps
    BY <1>5, ClassSteps, StepOfFour
  <1>6. CASE operation = multiply
    BY <1>6, ClassSteps, StepOfFour
  <1>7. CASE operation \in StepLessOps
    <2>1. op_end = 1
      BY <1>7, ClassSteps DEF op_end
    <2> QED  BY <2>1 DEF Step
  <1> QED
    BY <1>1, <1>2, <1>3, <1>4, <1>5, <1>6, <1>7
       DEF ValidOperations, ArithmeticOps, LoadOps, StoreOps

(* The search finds the address that InstructionSet names.                    *)
LEMMA SearchKept ==
    ASSUME IInv, Progress, DataWordTime, Executing, completed' = completed
    PROVE  Searched'
  <1>1. /\ pc = "data" /\ NextInstructionStep /\ operation' = operation
        /\ inst_it \in 1 .. 3 /\ op_it' \in {op_it, op_it + 1}
        /\ program_register' = program_register
    BY DataWordTimeFacts DEF DataWordTime
  <1>2. CASE inst_it > 1
    <2>1. half_cycle = "instruction"
      <3>1. half_cycle \in HalfCycles /\ ~(half_cycle = "data")
        BY <1>1, <1>2 DEF IInv, SearchPosition, TypeOK
      <3> QED  BY <3>1 DEF HalfCycles
    <2>2. UNCHANGED <<drum_storage, distributor, accumulator_vars, overflow,
                      storage_selection_error, address_register, error_stop>>
      BY <1>1, <2>1, NothingLeft DEF ConsoleNext, Next, RunStep
    <2>3. BranchTaken' = BranchTaken
      BY <1>1, <2>2 DEF BranchTaken, accumulator_vars
    <2>4. inst_it' > 1
      BY <1>1, <1>2
         DEF NextInstructionStep, Instruction_Address_to_Address_Register,
             Enable_Program_Register
    <2> QED  BY <1>1, <1>2, <2>2, <2>3, <2>4 DEF Searched, Executing
  <1>3. CASE inst_it = 1 /\ inst_it' = 1
    <2>1. address_register' = SteppedAddress /\ error_stop' = error_stop
      BY <1>1, <1>3
         DEF NextInstructionStep, Instruction_Address_to_Address_Register,
             Enable_Program_Register
    <2>2. operation # table_lookup => SteppedAddress = address_register
      BY <1>1, DataWordTimeFacts, AddressStays, LookUpAlone DEF IInv, SearchPosition
    <2> QED  BY <1>1, <1>3, <2>1, <2>2 DEF Searched, Executing
  <1>4. CASE inst_it = 1 /\ inst_it' # 1
    <2>1. /\ inst_it' = 2
          /\ address_register' = IF BranchTaken THEN SteppedAddress ELSE program_register.ia
          /\ error_stop' = IF operation \in BranchOn8Ops
                           THEN Digit(Mag(distributor), PositionOf(operation)) \notin {8, 9}
                           ELSE error_stop
      BY <1>1, <1>4
         DEF NextInstructionStep, Instruction_Address_to_Address_Register,
             Enable_Program_Register
    <2>2. /\ address_register = completed.address \/ operation = table_lookup
          /\ error_stop = completed.error_stop
      BY <1>4 DEF Searched, Executing
    <2>3. CASE operation \in StepLessOps
      <3>1. UNCHANGED <<drum_storage, distributor, upper_accumulator, lower_accumulator,
                        overflow, storage_selection_error>>
        BY <2>3, StepLessTouchNothing
      <3>2. BranchTaken' = BranchTaken
        BY <1>1, <3>1 DEF BranchTaken
      <3>3. operation # table_lookup
        BY <2>3, DurationClasses
      <3>4. SteppedAddress = address_register
        BY <1>1, <3>3, DataWordTimeFacts, AddressStays, LookUpAlone
           DEF IInv, SearchPosition
      <3> QED  BY <1>1, <2>1, <2>2, <3>1, <3>2, <3>3, <3>4 DEF Searched
    <2>4. CASE operation \notin StepLessOps
      <3>1. ~BranchTaken /\ ~BranchTaken' /\ operation \notin BranchOn8Ops
        BY <1>1, <2>4, TestsHaveNoSteps DEF BranchTaken, StepLessOps, TestOps
      <3> QED  BY <1>1, <2>1, <2>2, <3>1 DEF Searched
    <2> QED  BY <2>3, <2>4
  <1> QED  BY <1>1, <1>2, <1>3, <1>4

----------------------------------------------------------------------------
(* The operations, class by class.  The D-address stays in the address        *)
(* register as long as an operation may need it.                              *)
LEMMA AddressHeld ==
    ASSUME IInv, DataWordTime, Executing, operation # table_lookup, op_it < op_end,
           ~Step("Remove_Interlock_A")
    PROVE  address_register = completed.address
  <1>1. inst_it = 1
    <2>1. pc = "data" /\ inst_it \in 1 .. 3 /\ op_it \in 1 .. 5 /\ op_end \in 1 .. 5
      BY DataWordTimeFacts
    <2>2. ~(inst_it > 1)
      BY <2>1 DEF IInv, SearchPosition
    <2> QED  BY <2>1, <2>2
  <1> QED  BY <1>1 DEF Executing, Searched

LEMMA EnableTouchesNothing ==
    ASSUME IInv, DataWordTime, Untouched, completed' = completed,
           \/ Step("Enable_Distributor") \/ Step("Enable_Position_Set")
           \/ Step("Address_to_Program_Register")
    PROVE  op_it' = op_it + 1 /\ Untouched'
  <1>1. op_it < op_end
    BY DEF Step
  <1>2. Enable
    BY <1>1, DataWordTimeFacts, StepTaken
  <1> QED  BY <1>2 DEF Enable, Done, step_vars, accumulator_vars, Untouched, WorkedIs

(* An operation that has ended only waits for the search.                     *)
LEMMA NothingToDo ==
    ASSUME IInv, DataWordTime, op_it = op_end
    PROVE  op_it' = op_it /\ UNCHANGED step_vars
  <1>1. OperationStep /\ op_it \in Nat
    BY DataWordTimeFacts
  <1>2. \A name : ~Step(name)
    BY <1>1 DEF Step
  <1> QED
    BY <1>1, <1>2, Zenon
       DEF OperationStep, Enable, Data_to_Distributor, Store_Distributor,
           Distributor_to_Accumulator, Remove_Interlock_A, Multiply, Divide,
           Enable_Shift_Control, Shift, Look_Up_Address, Insert_Address_in_Lower

LEMMA LoadsWord ==
    ASSUME IInv, DataWordTime, Executing, Untouched, completed' = completed,
           Step("Data_to_Distributor"), operation \notin StoreOps,
           operation # table_lookup
    PROVE  \/ op_it' = op_it /\ Untouched'
           \/ op_it' = op_it + 1 /\ DataLoaded'
  <1>1. op_it < op_end /\ ~Step("Remove_Interlock_A")
    BY DEF Step
  <1>2. /\ Data_to_Distributor /\ ~DataAborts
        /\ address_register = completed.address
        /\ UNCHANGED switch_vars
    BY <1>1, DataWordTimeFacts, StepTaken, AddressHeld DEF DataWordTime
  <1>3. UNCHANGED <<drum_storage, upper_accumulator, lower_accumulator, overflow,
                    storage_selection_error>>
    BY <1>2 DEF Data_to_Distributor, accumulator_vars
  <1>4. CASE op_it' = op_it /\ distributor' = distributor
    BY <1>3, <1>4 DEF Untouched, WorkedIs
  <1>5. CASE /\ UnderHead(address_register)
             /\ distributor' = get_storage(address_register)
             /\ op_it' = op_it + 1
    <2>1. Readable(completed.address)
      BY <1>2, <1>5 DEF DataAborts
    <2>2. distributor' = Addressed
      BY <1>2, <1>5, ReadWord
    <2>3. Addressed' = Addressed
      BY <1>2, SwitchesKept
    <2> QED  BY <1>3, <1>5, <2>1, <2>2, <2>3 DEF DataLoaded, Untouched, WorkedIs, Readable
  <1> QED  BY <1>2, <1>4, <1>5 DEF Data_to_Distributor, Done, Again

LEMMA LoadSimulated ==
    ASSUME IInv, DataWordTime, Executing, completed' = completed,
           operation = load_distributor
    PROVE  LoadEffect'
  <1>1. /\ op_end = 3
        /\ op_it = 1 => Step("Enable_Distributor")
        /\ op_it = 2 => Step("Data_to_Distributor")
    BY ClassSteps, StepOfTwo, DataWordTimeFacts
  <1>2. /\ op_it \in 1 .. 3 /\ LoadEffect
        /\ operation \notin StoreOps /\ operation # table_lookup
    BY <1>1, DataWordTimeFacts, DurationClasses DEF Executing, LoadOps
  <1>3. CASE op_it = 1
    BY <1>1, <1>2, <1>3, EnableTouchesNothing DEF LoadEffect
  <1>4. CASE op_it = 2
    <2>1. \/ op_it' = op_it /\ Untouched'
          \/ op_it' = op_it + 1 /\ DataLoaded'
      BY <1>1, <1>2, <1>4, LoadsWord DEF LoadEffect
    <2> QED  BY <1>4, <2>1 DEF LoadEffect
  <1>5. CASE op_it = 3
    <2>1. op_it' = 3 /\ UNCHANGED step_vars /\ UNCHANGED switch_vars
      BY <1>1, <1>5, DataWordTimeFacts, NothingToDo DEF DataWordTime
    <2>2. Addressed' = Addressed
      BY <2>1, SwitchesKept
    <2> QED
      BY <1>2, <1>5, <2>1, <2>2
         DEF LoadEffect, DataLoaded, WorkedIs, Readable, step_vars, accumulator_vars
  <1> QED  BY <1>2, <1>3, <1>4, <1>5

LEMMA RemoveTouchesNothing ==
    ASSUME IInv, DataWordTime, Step("Remove_Interlock_A")
    PROVE  /\ op_it' = op_it + 1
           /\ UNCHANGED <<drum_storage, distributor, upper_accumulator, lower_accumulator,
                          overflow, storage_selection_error>>
  <1>1. op_it # op_end
    BY DataWordTimeFacts DEF Step
  <1>2. Remove_Interlock_A
    BY <1>1, DataWordTimeFacts, StepTaken
  <1> QED  BY <1>2 DEF Remove_Interlock_A, Done, accumulator_vars

(* What is added is what the accumulator gets.                                *)
LEMMA SameSum ==
    ASSUME DataLoaded, operation \in ArithmeticOps
    PROVE  Accumulated = Added
  <1>1. Operand = Instructions!OperandOf(operation, distributor)
    BY SameWords, SameClasses DEF Operand, Instructions!OperandOf
  <1>2. /\ distributor = Addressed
        /\ upper_accumulator = completed.upper
        /\ lower_accumulator = completed.lower
    BY DEF DataLoaded, WorkedIs
  <1> QED  BY <1>1, <1>2 DEF Accumulated, Added

LEMMA ArithmeticSimulated ==
    ASSUME IInv, DataWordTime, Executing, completed' = completed,
           operation \in ArithmeticOps
    PROVE  ArithmeticEffect'
  <1>1. /\ op_end = 5
        /\ op_it = 1 => Step("Enable_Distributor")
        /\ op_it = 2 => Step("Data_to_Distributor")
        /\ op_it = 3 => Step("Distributor_to_Accumulator")
        /\ op_it = 4 => Step("Remove_Interlock_A")
    BY ClassSteps, StepOfFour, DataWordTimeFacts
  <1>2. /\ op_it \in 1 .. 5 /\ ArithmeticEffect
        /\ operation \notin StoreOps /\ operation # table_lookup
    BY <1>1, DataWordTimeFacts, DurationClasses DEF Executing, LoadOps, StoreOps
  <1>3. operation' = operation /\ UNCHANGED switch_vars
    BY DEF DataWordTime
  <1>4. Addressed' = Addressed /\ Added' = Added
    <2>1. Addressed' = Addressed
      BY <1>3, SwitchesKept
    <2> QED  BY <1>3, <2>1, Zenon DEF Added, Instructions!OperandOf
  <1>5. CASE op_it = 1
    BY <1>1, <1>2, <1>5, EnableTouchesNothing DEF ArithmeticEffect
  <1>6. CASE op_it = 2
    <2>1. \/ op_it' = op_it /\ Untouched'
          \/ op_it' = op_it + 1 /\ DataLoaded'
      BY <1>1, <1>2, <1>6, LoadsWord DEF ArithmeticEffect
    <2> QED  BY <1>6, <2>1 DEF ArithmeticEffect
  <1>7. CASE op_it = 3
    <2>1. Distributor_to_Accumulator /\ DataLoaded
      BY <1>1, <1>2, <1>7, DataWordTimeFacts, StepTaken DEF ArithmeticEffect
    <2>2. Accumulated = Added
      BY <2>1, SameSum
    <2>3. UNCHANGED <<drum_storage, distributor, storage_selection_error>>
      BY <2>1 DEF Distributor_to_Accumulator
    <2>4. CASE /\ op_it' = op_it
               /\ UNCHANGED <<upper_accumulator, lower_accumulator, overflow>>
      <3>1. DataLoaded'
        BY <1>4, <2>1, <2>3, <2>4 DEF DataLoaded, WorkedIs, Readable
      <3> QED  BY <1>7, <2>4, <3>1 DEF ArithmeticEffect
    <2>5. CASE /\ op_it' = op_it + 1
               /\ upper_accumulator' = Accumulated.upper
               /\ lower_accumulator' = Accumulated.lower
               /\ overflow' = (Accumulated.carry > 0)
      BY <1>4, <1>7, <2>1, <2>2, <2>3, <2>5
         DEF ArithmeticEffect, DataLoaded, WorkedIs, Readable
    <2> QED
      BY <2>1, <2>4, <2>5 DEF Distributor_to_Accumulator, Done, Again, accumulator_vars
  <1>8. CASE op_it = 4
    <2>1. /\ op_it' = op_it + 1
          /\ UNCHANGED <<drum_storage, distributor, upper_accumulator, lower_accumulator,
                         overflow, storage_selection_error>>
      BY <1>1, <1>8, RemoveTouchesNothing
    <2> QED  BY <1>2, <1>4, <1>8, <2>1 DEF ArithmeticEffect, WorkedIs, Readable
  <1>9. CASE op_it = 5
    <2>1. op_it' = op_it /\ UNCHANGED step_vars
      BY <1>1, <1>9, NothingToDo
    <2> QED
      BY <1>2, <1>4, <1>9, <2>1
         DEF ArithmeticEffect, WorkedIs, Readable, step_vars, accumulator_vars
  <1> QED  BY <1>2, <1>5, <1>6, <1>7, <1>8, <1>9

LEMMA IterativeSimulated ==
    ASSUME IInv, DataWordTime, Executing, completed' = completed,
           operation \in DivideOps \cup {multiply}
    PROVE  IterativeEffect'
  <1>1. /\ op_end = 5
        /\ op_it = 1 => Step("Enable_Distributor")
        /\ op_it = 2 => Step("Data_to_Distributor")
        /\ op_it = 3 => Step("Multiply") \/ Step("Divide")
        /\ op_it = 4 => Step("Remove_Interlock_A")
    BY ClassSteps, StepOfFour, DataWordTimeFacts
  <1>2. /\ op_it \in 1 .. 5 /\ IterativeEffect
        /\ operation \notin StoreOps /\ operation # table_lookup
    BY <1>1, DataWordTimeFacts, DurationClasses DEF Executing, LoadOps, StoreOps
  <1>3. Addressed' = Addressed
    BY SwitchesKept DEF DataWordTime
  <1>4. CASE op_it = 1
    BY <1>1, <1>2, <1>4, EnableTouchesNothing DEF IterativeEffect
  <1>5. CASE op_it = 2
    <2>1. \/ op_it' = op_it /\ Untouched'
          \/ op_it' = op_it + 1 /\ DataLoaded'
      BY <1>1, <1>2, <1>5, LoadsWord DEF IterativeEffect
    <2> QED  BY <1>5, <2>1 DEF IterativeEffect, DataLoaded, WorkedIs
  <1>6. CASE op_it = 3
    <2>1. Multiply \/ Divide
      BY <1>1, <1>2, <1>6, DataWordTimeFacts, StepTaken
    <2>2. /\ UNCHANGED <<drum_storage, distributor, storage_selection_error>>
          /\ overflow => overflow'
          /\ op_it' \in {op_it, op_it + 1}
      <3>1. UNCHANGED <<drum_storage, distributor, storage_selection_error>>
        BY <2>1 DEF Multiply, Divide
      <3>2. overflow => overflow'
        BY <2>1, Zenon
           DEF Multiply, Divide, MultiplierShift, MultiplierAdd, DividendShift,
               DivisorSubtract, QuotientDigitDone
      <3>3. op_it' \in {op_it, op_it + 1}
        BY DataWordTimeFacts
      <3> QED  BY <3>1, <3>2, <3>3
    <2> QED  BY <1>2, <1>3, <1>6, <2>2 DEF IterativeEffect, WorkedIs, Readable
  <1>7. CASE op_it = 4
    <2>1. /\ op_it' = op_it + 1
          /\ UNCHANGED <<drum_storage, distributor, upper_accumulator, lower_accumulator,
                         overflow, storage_selection_error>>
      BY <1>1, <1>7, RemoveTouchesNothing
    <2> QED  BY <1>2, <1>3, <1>7, <2>1 DEF IterativeEffect, WorkedIs, Readable
  <1>8. CASE op_it = 5
    <2>1. op_it' = op_it /\ UNCHANGED step_vars
      BY <1>1, <1>8, NothingToDo
    <2> QED
      BY <1>2, <1>3, <1>8, <2>1
         DEF IterativeEffect, WorkedIs, Readable, step_vars, accumulator_vars
  <1> QED  BY <1>2, <1>4, <1>5, <1>6, <1>7, <1>8

LEMMA LookUpSimulated ==
    ASSUME IInv, DataWordTime, Executing, completed' = completed,
           completed \in Instructions!Machines, operation = table_lookup
    PROVE  LookUpEffect'
  <1>1. /\ op_end = 5
        /\ op_it = 1 => Step("Enable_Position_Set")
        /\ op_it = 2 => Step("Look_Up_Address")
        /\ op_it = 3 => Step("Address_to_Program_Register")
        /\ op_it = 4 => Step("Insert_Address_in_Lower")
    BY ClassSteps, StepOfFour, DataWordTimeFacts
  <1>2. op_it \in 1 .. 5 /\ LookUpEffect /\ address_register \in Addresses
    BY DataWordTimeFacts DEF Executing
  <1>3. CASE op_it \in {1, 3}
    BY <1>1, <1>2, <1>3, EnableTouchesNothing DEF LookUpEffect
  <1>4. CASE op_it = 2
    <2>1. Look_Up_Address
      BY <1>1, <1>4, DataWordTimeFacts, StepTaken
    <2> QED
      BY <1>2, <1>4, <2>1
         DEF Look_Up_Address, Done, Again, LookUpEffect, Untouched, WorkedIs,
             accumulator_vars
  <1>5. CASE op_it = 4
    <2>1. Insert_Address_in_Lower /\ Untouched
      BY <1>1, <1>2, <1>5, DataWordTimeFacts, StepTaken DEF LookUpEffect
    <2>2. completed.lower \in Word
      BY SameSets DEF Instructions!Machines
    <2>3. lower_accumulator' = [completed.lower EXCEPT !.da = address_register]
      BY <2>1 DEF Insert_Address_in_Lower, Untouched, WorkedIs
    <2>4. lower_accumulator'.da = address_register
      BY <2>2, <2>3 DEF Word
    <2>5. UNCHANGED <<drum_storage, distributor, upper_accumulator, overflow,
                      storage_selection_error>> /\ op_it' = op_it + 1
      BY <2>1 DEF Insert_Address_in_Lower, Done
    <2>6. /\ drum_storage = completed.storage /\ distributor = completed.distributor
          /\ upper_accumulator = completed.upper /\ overflow = completed.overflow
          /\ storage_selection_error = completed.storage_selection_error
      BY <2>1 DEF Untouched, WorkedIs
    <2> QED  BY <1>2, <1>5, <2>3, <2>4, <2>5, <2>6 DEF LookUpEffect, WorkedIs
  <1>6. CASE op_it = 5
    <2>1. op_it' = op_it /\ UNCHANGED step_vars
      BY <1>1, <1>6, NothingToDo
    <2> QED
      BY <1>2, <1>6, <2>1 DEF LookUpEffect, WorkedIs, step_vars, accumulator_vars
  <1> QED  BY <1>2, <1>3, <1>4, <1>5, <1>6

LEMMA StepLessSimulated ==
    ASSUME IInv, DataWordTime, Executing, completed' = completed,
           operation \in StepLessOps
    PROVE  Untouched'
  BY StepLessTouchNothing DEF Executing, Untouched, WorkedIs

(* Stores: what is stored, and where.                                         *)
LEMMA SameStored ==
    ASSUME Untouched, operation \in StoreOps
    PROVE  /\ operation # store_distributor =>
                 StoredWord = Instructions!StoredBy(completed, operation)
           /\ operation = store_distributor =>
                 Instructions!StoredBy(completed, operation) = distributor
  <1>1. /\ distributor = completed.distributor
        /\ upper_accumulator = completed.upper
        /\ lower_accumulator = completed.lower
    BY DEF Untouched, WorkedIs
  <1>2. CASE operation \in StoreWordOps
    BY <1>1, <1>2, SameCodes
       DEF StoredWord, Instructions!StoredBy, StoreWordOps,
           store_lower_in_memory, store_upper_in_memory, store_lower_data_address,
           store_lower_instruction_address, store_distributor
  <1>3. CASE operation = store_lower_data_address
    BY <1>1, <1>3, SameCodes
       DEF StoredWord, Instructions!StoredBy,
           store_lower_in_memory, store_upper_in_memory, store_lower_data_address,
           store_lower_instruction_address, store_distributor
  <1>4. CASE operation = store_lower_instruction_address
    BY <1>1, <1>4, SameCodes
       DEF StoredWord, Instructions!StoredBy,
           store_lower_in_memory, store_upper_in_memory, store_lower_data_address,
           store_lower_instruction_address, store_distributor
  <1>5. CASE operation = store_distributor
    BY <1>1, <1>5, SameCodes
       DEF Instructions!StoredBy,
           store_lower_in_memory, store_upper_in_memory, store_lower_data_address,
           store_lower_instruction_address, store_distributor
  <1> QED
    BY <1>2, <1>3, <1>4, <1>5 DEF StoreOps, StoreAddressOps

LEMMA StoresWord ==
    ASSUME IInv, DataWordTime, Executing, completed' = completed,
           Step("Store_Distributor"), operation \in StoreOps,
           NEW w,
           WorkedIs(completed.storage, w, completed.upper, completed.lower,
                    completed.overflow, completed.storage_selection_error)
    PROVE  \/ /\ op_it' = op_it
              /\ UNCHANGED <<drum_storage, distributor, upper_accumulator,
                             lower_accumulator, overflow, storage_selection_error>>
           \/ op_it' = op_it + 1 /\ StoreDone(w)'
  <1>1. op_it < op_end /\ ~Step("Remove_Interlock_A") /\ operation # table_lookup
    BY DurationClasses DEF Step, StoreOps, LoadOps
  <1>2. Store_Distributor /\ address_register = completed.address
    BY <1>1, DataWordTimeFacts, StepTaken, AddressHeld
  <1> DEFINE a == completed.address
             b == band_of_address(a)
             i == index_of_address(a)
  <1>3. /\ UNCHANGED <<distributor, upper_accumulator, lower_accumulator, overflow>>
        /\ drum_storage = completed.storage /\ distributor = w
        /\ upper_accumulator = completed.upper /\ lower_accumulator = completed.lower
        /\ overflow = completed.overflow
        /\ storage_selection_error = completed.storage_selection_error
    BY <1>2 DEF Store_Distributor, accumulator_vars, WorkedIs
  <1>4. /\ OnDrum(a)' = OnDrum(a) /\ band_of_address(a)' = b
        /\ index_of_address(a)' = i
    BY DEF OnDrum, band_of_address, index_of_address
  <1>5. CASE ~OnDrum(a)
    <2>1. /\ op_it' = op_it + 1 /\ storage_selection_error' = TRUE
          /\ drum_storage' = drum_storage
      BY <1>2, <1>5 DEF Store_Distributor, Done
    <2> QED  BY <1>3, <1>4, <1>5, <2>1 DEF StoreDone, WorkedIs
  <1>6. CASE OnDrum(a) /\ UnderHead(a)
    <2>1. /\ op_it' = op_it + 1 /\ storage_selection_error' = storage_selection_error
          /\ drum_storage' = DrumWritten(b, distributor)
      BY <1>2, <1>6 DEF Store_Distributor, Done
    <2>2. drum_index = i
      BY <1>6 DEF UnderHead
    <2>3. drum_storage' = [completed.storage EXCEPT ![b] = [@ EXCEPT ![i] = w]]
      BY <1>3, <2>1, <2>2 DEF DrumWritten
    <2> QED  BY <1>3, <1>4, <1>6, <2>1, <2>3 DEF StoreDone, WorkedIs
  <1>7. CASE OnDrum(a) /\ ~UnderHead(a)
    BY <1>2, <1>3, <1>7 DEF Store_Distributor, Again
  <1> QED  BY <1>5, <1>6, <1>7

LEMMA StoreSimulated ==
    ASSUME IInv, DataWordTime, Executing, completed' = completed,
           operation \in StoreOps
    PROVE  StoreEffect'
  <1> DEFINE w == Instructions!StoredBy(completed, operation)
  <1>1. /\ op_it \in 1 .. 5 /\ op_end \in 1 .. 5 /\ op_it <= op_end /\ StoreEffect
        /\ op_end' = op_end /\ operation' = operation /\ op_it' <= op_end
    BY DataWordTimeFacts DEF Executing, IInv, SearchPosition
  <1>2. w' = w
    BY <1>1 DEF Instructions!StoredBy
  <1>3. /\ op_end \in {3, 4}
        /\ op_it < op_end - 1 =>
              \/ Step("Enable_Distributor") \/ Step("Enable_Position_Set")
              \/ Step("Data_to_Distributor")
        /\ op_it = op_end - 2 =>
              IF operation = store_distributor THEN Step("Enable_Position_Set")
              ELSE Step("Data_to_Distributor")
        /\ op_it < op_end - 2 => ~Step("Data_to_Distributor")
        /\ op_it = op_end - 1 => Step("Store_Distributor")
    <2>1. CASE operation = store_distributor
      <3>1. op_seq = <<"Enable_Position_Set", "Store_Distributor">>
        BY <2>1, ClassSteps
      <3> QED  BY <1>1, <2>1, <3>1, StepOfTwo DEF Step
    <2>2. CASE operation \in StoreAddressOps
      <3>1. /\ op_seq = <<"Data_to_Distributor", "Store_Distributor">>
            /\ operation # store_distributor
        BY <2>2, ClassSteps, DurationClasses
      <3> QED  BY <1>1, <3>1, StepOfTwo DEF Step
    <2>3. CASE operation \in StoreWordOps
      <3>1. /\ op_seq = <<"Enable_Distributor", "Data_to_Distributor", "Store_Distributor">>
            /\ operation # store_distributor
        BY <2>3, ClassSteps, DurationClasses DEF LoadOps
      <3> QED  BY <1>1, <3>1, StepOfThree DEF Step
    <2> QED  BY <2>1, <2>2, <2>3 DEF StoreOps
  <1> HIDE DEF w
  <1>4. CASE op_it < op_end - 1
    <2>1. Untouched
      BY <1>1, <1>4 DEF StoreEffect
    <2>2. w = IF operation = store_distributor THEN distributor ELSE StoredWord
      BY <2>1, SameStored DEF w
    <2>3. CASE Step("Data_to_Distributor")
      <3>1. op_it = op_end - 2 /\ op_it # op_end /\ operation # store_distributor
        <4>1. op_it = op_end - 2
          BY <1>1, <1>3, <1>4, <2>3
        <4>2. operation # store_distributor
          BY <1>3, <2>3, <4>1 DEF Step
        <4> QED  BY <1>1, <4>1, <4>2
      <3>2. Data_to_Distributor
        BY <2>3, <3>1, DataWordTimeFacts, StepTaken
      <3>3. /\ distributor' = w /\ op_it' = op_it + 1
            /\ UNCHANGED <<drum_storage, upper_accumulator, lower_accumulator, overflow,
                           storage_selection_error>>
        BY <2>2, <3>1, <3>2 DEF Data_to_Distributor, Done, accumulator_vars
      <3>4. op_it' = op_end' - 1
        BY <1>1, <3>1, <3>3
      <3>5. WorkedIs(completed.storage, w, completed.upper, completed.lower,
                     completed.overflow, completed.storage_selection_error)'
        BY <1>2, <2>1, <3>3 DEF WorkedIs, Untouched
      <3> QED  BY <1>1, <3>4, <3>5 DEF StoreEffect, w
    <2>4. CASE Step("Enable_Distributor") \/ Step("Enable_Position_Set")
      <3>1. op_it' = op_it + 1 /\ Untouched'
        BY <2>1, <2>4, EnableTouchesNothing
      <3>2. CASE op_it' < op_end' - 1
        BY <1>1, <3>1, <3>2 DEF StoreEffect
      <3>3. CASE op_it' = op_end' - 1
        <4>1. operation = store_distributor
          BY <1>1, <1>3, <2>4, <3>1, <3>3 DEF Step
        <4>2. w' = completed'.distributor
          BY <1>2, <2>1, <2>2, <4>1 DEF Untouched, WorkedIs
        <4> QED  BY <1>1, <3>1, <3>3, <4>2 DEF StoreEffect, Untouched, w
      <3> QED  BY <1>1, <1>4, <3>1, <3>2, <3>3
    <2> QED  BY <1>3, <1>4, <2>3, <2>4
  <1>5. CASE op_it = op_end - 1
    <2>1. WorkedIs(completed.storage, w, completed.upper, completed.lower,
                   completed.overflow, completed.storage_selection_error)
      BY <1>1, <1>5 DEF StoreEffect, w
    <2>2. CASE /\ op_it' = op_it
               /\ UNCHANGED <<drum_storage, distributor, upper_accumulator,
                              lower_accumulator, overflow, storage_selection_error>>
      <3>1. WorkedIs(completed.storage, w, completed.upper, completed.lower,
                     completed.overflow, completed.storage_selection_error)'
        BY <1>2, <2>1, <2>2 DEF WorkedIs
      <3> QED  BY <1>1, <1>5, <2>2, <3>1 DEF StoreEffect, w
    <2>3. PICK v : v = w
      OBVIOUS
    <2>4. CASE op_it' = op_it + 1 /\ StoreDone(v)'
      <3>1. StoreDone(w)'
        BY <1>2, <2>3, <2>4 DEF StoreDone, WorkedIs
      <3> QED  BY <1>1, <1>5, <2>4, <3>1 DEF StoreEffect, w
    <2>5. WorkedIs(completed.storage, v, completed.upper, completed.lower,
                   completed.overflow, completed.storage_selection_error)
      BY <2>1, <2>3
    <2> QED  BY <1>3, <1>5, <2>2, <2>4, <2>5, StoresWord
  <1>6. CASE op_it = op_end
    <2>1. op_it' = op_it /\ UNCHANGED step_vars
      BY <1>6, NothingToDo
    <2>2. StoreDone(w)
      BY <1>1, <1>6 DEF StoreEffect, w
    <2>3. StoreDone(w)'
      BY <1>2, <2>1, <2>2
         DEF StoreDone, WorkedIs, step_vars, accumulator_vars, OnDrum, band_of_address,
             index_of_address
    <2> QED  BY <1>1, <1>6, <2>1, <2>3 DEF StoreEffect, w
  <1> QED  BY <1>1, <1>4, <1>5, <1>6

----------------------------------------------------------------------------
(* Shifts, one place after the other.                                         *)
LEMMA Places ==
    /\ Weight[0] = 1
    /\ Weight[WordSize] = WordBase
    /\ Weight[WordSize - 1] = HighBase
    /\ \A n \in Nat : Weight[n] \in Nat \ {0} /\ Weight[n + 1] = Base * Weight[n]
    /\ \A n \in Nat : n <= WordSize => Weight[n] * Weight[WordSize - n] = WordBase
    /\ WordBase \in Nat \ {0} /\ HighBase \in Nat \ {0} /\ WordBase = Base * HighBase
    /\ WordSize \in Nat \ {0}
  <1>1. /\ WordBase \in Nat \ {0} /\ HighBase \in Nat \ {0} /\ WordBase = Base * HighBase
        /\ WordSize \in Nat \ {0} /\ Weight[WordSize] = WordBase
    BY BaseFacts, SizesAssumption, DigitsAssumption
  <1>2. \A n \in Nat : Weight[n] \in Nat \ {0} /\ Weight[n + 1] = Base * Weight[n]
    BY WeightRule
  <1>3. Weight[WordSize - 1] = HighBase
    <2> DEFINE h == Weight[WordSize - 1]
    <2>1. h \in Nat /\ Weight[WordSize] = Base * h
      <3>1. WordSize - 1 \in Nat /\ (WordSize - 1) + 1 = WordSize
        BY <1>1
      <3> QED  BY <1>2, <3>1
    <2> HIDE DEF h
    <2>2. h = HighBase
      BY <1>1, <2>1 DEF Base
    <2> QED  BY <2>2 DEF h
  <1>4. ASSUME NEW n \in Nat, n <= WordSize
        PROVE  Weight[n] * Weight[WordSize - n] = WordBase
    <2>1. WordSize - n \in Nat /\ n + (WordSize - n) = WordSize
      BY <1>1, <1>4
    <2>2. Weight[n + (WordSize - n)] = Weight[n] * Weight[WordSize - n]
      BY <2>1, WeightSum
    <2> QED  BY <1>1, <2>1, <2>2
  <1> QED  BY <1>1, <1>2, <1>3, <1>4, WeightRule

(* The magnitudes after a shift of so many places, as InstructionSet defines  *)
(* them.                                                                      *)
LEMMA DivisionByOne ==
    ASSUME NEW m \in Nat
    PROVE  m \div 1 = m /\ m % 1 = 0
  BY 1 \in Nat \ {0}, 0 \in 0 .. 1 - 1, m = m * 1 + 0, DivisionUnique

LEMMA DivisionSmall ==
    ASSUME NEW n \in Nat \ {0}, NEW m \in 0 .. n - 1
    PROVE  m \div n = 0 /\ m % n = m
  BY 0 \in Int, m = 0 * n + m, DivisionUnique

LEMMA LeftInHalf ==
    ASSUME NEW u \in Nat, NEW l \in Nat, NEW n \in Nat, n <= WordSize
    PROVE  LET rest == Weight[WordSize - n]
           IN  Instructions!Left(u, l, n)
                  = [upper |-> (u % rest) * Weight[n] + l \div rest,
                     lower |-> (l % rest) * Weight[n]]
  <1>1. ~(n > WordSize)
    BY SizesAssumption
  <1>2. Instructions!Left(u, l, n)
           = LET rest == Instructions!Weight[WordSize - n]
             IN  [upper |-> (u % rest) * Instructions!Weight[n] + l \div rest,
                  lower |-> (l % rest) * Instructions!Weight[n]]
    BY <1>1, Zenon DEF Instructions!Left
  <1> QED  BY <1>2, SameWeight, Zenon

LEMMA LeftBeyondHalf ==
    ASSUME NEW u \in Nat, NEW l \in 0 .. WordBase - 1, NEW n \in Nat,
           WordSize <= n, n <= 2 * WordSize
    PROVE  Instructions!Left(u, l, n)
              = [upper |-> (l % Weight[2 * WordSize - n]) * Weight[n - WordSize],
                 lower |-> 0]
  <1>1. CASE n > WordSize
    BY <1>1, SizesAssumption, SameWeight DEF Instructions!Left
  <1>2. CASE n = WordSize
    <2>1. WordSize - n = 0 /\ 2 * WordSize - n = WordSize /\ n - WordSize = 0
      BY <1>2, Places
    <2>2. /\ Weight[WordSize - n] = 1 /\ Weight[2 * WordSize - n] = WordBase
          /\ Weight[n - WordSize] = 1 /\ Weight[n] = WordBase
      BY <1>2, <2>1, Places
    <2>3. Instructions!Left(u, l, n)
             = [upper |-> (u % 1) * WordBase + l \div 1, lower |-> (l % 1) * WordBase]
      <3>1. n <= WordSize /\ l \in Nat
        BY <1>2, Places
      <3>2. LET rest == Weight[WordSize - n]
            IN  Instructions!Left(u, l, n)
                   = [upper |-> (u % rest) * Weight[n] + l \div rest,
                      lower |-> (l % rest) * Weight[n]]
        BY <3>1, LeftInHalf
      <3> QED  BY <2>2, <3>2, SMT
    <2>4. u % 1 = 0 /\ l \div 1 = l /\ l % 1 = 0
      BY DivisionByOne, Places
    <2>5. 0 * WordBase = 0 /\ 0 + l = l /\ l * 1 = l
      BY Places
    <2>6. l % WordBase = l
      BY Places, DivisionSmall
    <2> QED  BY <2>2, <2>3, <2>4, <2>5, <2>6, Zenon
  <1> QED  BY <1>1, <1>2, Places

LEMMA LeftOff ==
    ASSUME NEW u \in Nat, NEW l \in 0 .. WordBase - 1, NEW n \in Nat, n >= 2 * WordSize
    PROVE  Instructions!Left(u, l, n) = [upper |-> 0, lower |-> 0]
  <1>1. CASE n > 2 * WordSize
    BY <1>1, SizesAssumption DEF Instructions!Left
  <1>2. CASE n = 2 * WordSize
    <2>1. 2 * WordSize - n = 0 /\ n - WordSize = WordSize /\ WordSize <= n
      BY <1>2, Places
    <2>2. Weight[2 * WordSize - n] = 1 /\ Weight[n - WordSize] = WordBase
      BY <2>1, Places
    <2>3. Instructions!Left(u, l, n) = [upper |-> (l % 1) * WordBase, lower |-> 0]
      BY <1>2, <2>1, <2>2, LeftBeyondHalf
    <2>4. l % 1 = 0 /\ 0 * WordBase = 0
      BY Places, DivisionByOne
    <2> QED  BY <2>3, <2>4
  <1> QED  BY <1>1, <1>2, Places

(* One more place to the left.                                                *)
LEMMA LeftNext ==
    ASSUME NEW u \in 0 .. WordBase - 1, NEW l \in 0 .. WordBase - 1, NEW n \in Nat
    PROVE  LET d == Instructions!Left(u, l, n)
               e == Instructions!Left(u, l, n + 1)
           IN  /\ d.upper \in Nat /\ d.lower \in Nat
               /\ e.upper = (d.upper * Base + HighDigit(d.lower)) % WordBase
               /\ e.lower = (d.lower * Base) % WordBase
  <1> DEFINE d == Instructions!Left(u, l, n)
             e == Instructions!Left(u, l, n + 1)
  <1>1. Base \in Nat \ {0} /\ u \in Nat /\ l \in Nat /\ l < WordBase
    BY Places DEF Base
  <1>2. CASE n < WordSize
    <2> DEFINE p == Weight[n]
               k == WordSize - (n + 1)
               r == Weight[k]
               m == Weight[WordSize - n]
               q == Weight[n + 1]
    <2>1. /\ k \in Nat /\ k + 1 = WordSize - n /\ n + k = WordSize - 1
          /\ n + 1 \in Nat /\ n <= WordSize /\ n + 1 <= WordSize
      BY <1>2, Places
    <2>2. /\ p \in Nat \ {0} /\ r \in Nat \ {0}
          /\ q = Base * p /\ Weight[k + 1] = Base * r
      BY <2>1, Places
    <2>3. Weight[n + k] = p * r
      BY <2>1, WeightSum
    <2>4. p * m = WordBase
      BY <2>1, Places
    <2>5. d = [upper |-> (u % m) * p + l \div m, lower |-> (l % m) * p]
      BY <1>1, <2>1, LeftInHalf
    <2>6. e = [upper |-> (u % r) * q + l \div r, lower |-> (l % r) * q]
      BY <1>1, <2>1, LeftInHalf
    <2>7. m = Base * r /\ p * r = HighBase
      BY <2>1, <2>2, <2>3, Places
    <2> HIDE DEF d, e, p, r, m, q, k
    <2>8. m = r * Base /\ HighBase = r * p /\ l < m * p
      BY <1>1, <2>2, <2>4, <2>7
    <2>9. WordBase = r * q
      <3>1. Base * (r * p) = r * (Base * p)
        BY <1>1, <2>2
      <3> QED  BY <2>2, <2>8, <3>1, Places
    <2>10. LeftNamed(u, l, Base, p, r, m, HighBase, q, WordBase)
      BY <1>1, <2>2, <2>8, <2>9, LeftProducts, Zenon
    <2> QED  BY <2>5, <2>6, <2>10 DEF LeftNamed, HighDigit, d, e
  <1>3. CASE n >= WordSize /\ n < 2 * WordSize
    <2> DEFINE j == n - WordSize
               p == Weight[j]
               k == 2 * WordSize - (n + 1)
               r == Weight[k]
               m == Weight[2 * WordSize - n]
               q == Weight[(n + 1) - WordSize]
    <2>1. /\ j \in Nat /\ k \in Nat /\ k + 1 = 2 * WordSize - n
          /\ j + 1 = (n + 1) - WordSize
          /\ j + (k + 1) = WordSize /\ k + 1 \in Nat
          /\ WordSize <= n /\ n <= 2 * WordSize
          /\ n + 1 \in Nat /\ WordSize <= n + 1 /\ n + 1 <= 2 * WordSize
      BY <1>3, Places
    <2>2. /\ p \in Nat \ {0} /\ r \in Nat \ {0} /\ q = Base * p /\ m = Base * r
      BY <2>1, Places
    <2>3. d = [upper |-> (l % m) * p, lower |-> 0]
      BY <1>1, <2>1, LeftBeyondHalf
    <2>4. e = [upper |-> (l % r) * q, lower |-> 0]
      BY <1>1, <2>1, LeftBeyondHalf
    <2>5. p * m = WordBase
      <3> HIDE DEF j, k
      <3>1. Weight[j + (k + 1)] = Weight[j] * Weight[k + 1]
        BY <2>1, WeightSum
      <3> QED  BY <2>1, <3>1, Places
    <2> HIDE DEF d, e, p, r, m, q, k, j
    <2>6. m = r * Base /\ l < m * p
      BY <1>1, <2>2, <2>5
    <2>7. WordBase = r * q
      <3>1. p * (Base * r) = r * (Base * p)
        BY <1>1, <2>2
      <3> QED  BY <2>2, <2>5, <3>1
    <2>8. (l % m) * p \in Nat /\ (((l % m) * p) * Base) % WordBase = (l % r) * q
      <3>1. LeftNamed(u, l, Base, p, r, m, r * p, q, WordBase)
        BY <1>1, <2>2, <2>6, <2>7, LeftProducts, Zenon
      <3> QED  BY <3>1, Zenon DEF LeftNamed
    <2>9. HighDigit(0) = 0 /\ (0 * Base) % WordBase = 0
      BY Places, DivisionSmall DEF HighDigit, Base
    <2>10. ((l % m) * p) * Base + 0 = ((l % m) * p) * Base
      BY <1>1, <2>8
    <2> QED  BY <2>3, <2>4, <2>8, <2>9, <2>10 DEF d, e
  <1>4. CASE n >= 2 * WordSize
    <2>1. d = [upper |-> 0, lower |-> 0]
      BY <1>1, <1>4, LeftOff
    <2>2. n + 1 \in Nat /\ n + 1 >= 2 * WordSize
      BY <1>4, Places
    <2>3. e = [upper |-> 0, lower |-> 0]
      BY <1>1, <2>2, LeftOff
    <2>4. HighDigit(0) = 0 /\ (0 * Base) % WordBase = 0 /\ (0 * Base + 0) % WordBase = 0
      BY Places, DivisionSmall DEF HighDigit, Base
    <2> QED  BY <2>1, <2>3, <2>4
  <1> QED  BY <1>2, <1>3, <1>4, Places

LEMMA NoPlaceLeft ==
    ASSUME NEW u \in 0 .. WordBase - 1, NEW l \in 0 .. WordBase - 1
    PROVE  Instructions!Left(u, l, 0) = [upper |-> u, lower |-> l]
  <1>1. /\ 0 <= WordSize /\ WordSize - 0 = WordSize /\ u \in Nat /\ l \in Nat
        /\ Weight[0] = 1 /\ Weight[WordSize] = WordBase /\ WordBase \in Nat \ {0}
    BY Places
  <1>2. LET rest == Weight[WordSize - 0]
        IN  Instructions!Left(u, l, 0)
               = [upper |-> (u % rest) * Weight[0] + l \div rest,
                  lower |-> (l % rest) * Weight[0]]
    BY <1>1, LeftInHalf
  <1>3. u % WordBase = u /\ l % WordBase = l /\ l \div WordBase = 0
    BY <1>1, DivisionSmall
  <1>4. u * 1 + 0 = u /\ l * 1 = l
    BY <1>1
  <1> QED  BY <1>1, <1>2, <1>3, <1>4

LEMMA LeftRange ==
    ASSUME NEW u \in 0 .. WordBase - 1, NEW l \in 0 .. WordBase - 1, NEW n \in Nat
    PROVE  /\ Instructions!Left(u, l, n).upper \in 0 .. WordBase - 1
           /\ Instructions!Left(u, l, n).lower \in 0 .. WordBase - 1
  <1>1. CASE n = 0
    BY <1>1, NoPlaceLeft
  <1>2. CASE n # 0
    <2> DEFINE m == n - 1
               d == Instructions!Left(u, l, m)
    <2>1. m \in Nat /\ m + 1 = n
      BY <1>2
    <2>2. /\ d.upper \in Nat /\ d.lower \in Nat
          /\ Instructions!Left(u, l, n).upper
                = (d.upper * Base + HighDigit(d.lower)) % WordBase
          /\ Instructions!Left(u, l, n).lower = (d.lower * Base) % WordBase
      <3> HIDE DEF m
      <3>1. LET e == Instructions!Left(u, l, m + 1)
            IN  /\ d.upper \in Nat /\ d.lower \in Nat
                /\ e.upper = (d.upper * Base + HighDigit(d.lower)) % WordBase
                /\ e.lower = (d.lower * Base) % WordBase
        BY <2>1, LeftNext
      <3> QED  BY <2>1, <3>1
    <2> HIDE DEF d
    <2>3. HighDigit(d.lower) \in Nat
      BY <2>2, Places, DivMod DEF HighDigit
    <2> DEFINE x == d.upper * Base + HighDigit(d.lower)
               y == d.lower * Base
    <2>4. x \in Nat /\ y \in Nat
      BY <2>2, <2>3 DEF Base
    <2> HIDE DEF x, y
    <2>5. x % WordBase \in 0 .. WordBase - 1 /\ y % WordBase \in 0 .. WordBase - 1
      <3>1. WordBase \in Nat \ {0}
        BY Places
      <3> QED  BY <2>4, <3>1, DivMod, Zenon
    <2> QED  BY <2>2, <2>5, Zenon DEF x, y
  <1> QED  BY <1>1, <1>2

(* One more place to the right.                                               *)
LEMMA RightInHalf ==
    ASSUME NEW u, NEW l, NEW n \in Nat, n <= WordSize
    PROVE  Instructions!Right(u, l, n)
              = [upper |-> u \div Weight[n],
                 lower |-> (u % Weight[n]) * Weight[WordSize - n] + l \div Weight[n]]
  BY SameWeight DEF Instructions!Right

LEMMA RightBeyondHalf ==
    ASSUME NEW u \in 0 .. WordBase - 1, NEW l \in 0 .. WordBase - 1, NEW n \in Nat,
           n >= WordSize
    PROVE  Instructions!Right(u, l, n)
              = [upper |-> 0, lower |-> u \div Weight[n - WordSize]]
  <1>1. CASE n > WordSize
    BY <1>1, SizesAssumption, SameWeight DEF Instructions!Right
  <1>2. CASE n = WordSize
    <2>1. n <= WordSize /\ WordSize - n = 0 /\ n - WordSize = 0
      BY <1>2, Places
    <2>2. Weight[n] = WordBase /\ Weight[WordSize - n] = 1 /\ Weight[n - WordSize] = 1
      BY <1>2, <2>1, Places
    <2>3. Instructions!Right(u, l, n)
             = [upper |-> u \div WordBase, lower |-> (u % WordBase) * 1 + l \div WordBase]
      BY <2>1, <2>2, RightInHalf
    <2>4. u \div WordBase = 0 /\ u % WordBase = u /\ l \div WordBase = 0 /\ u \div 1 = u
      BY Places, DivisionSmall, DivisionByOne
    <2>5. u * 1 + 0 = u
      BY Places
    <2> QED  BY <2>2, <2>3, <2>4, <2>5
  <1> QED  BY <1>1, <1>2, Places

LEMMA QuotientRange ==
    ASSUME NEW u \in 0 .. WordBase - 1, NEW n \in Nat \ {0}
    PROVE  u \div n \in 0 .. WordBase - 1
  <1>1. u \in Nat /\ WordBase \in Nat
    BY Places
  <1> DEFINE x == u \div n
             y == u % n
  <1>2. x \in Nat /\ y \in Nat /\ u = n * x + y
    BY <1>1, DivMod
  <1> HIDE DEF x, y
  <1>3. n * x >= x /\ n * x \in Nat
    BY <1>2
  <1>4. x <= u
    BY <1>1, <1>2, <1>3
  <1> QED  BY <1>1, <1>2, <1>4 DEF x

LEMMA RightNext ==
    ASSUME NEW u \in 0 .. WordBase - 1, NEW l \in 0 .. WordBase - 1, NEW n \in Nat
    PROVE  LET d == Instructions!Right(u, l, n)
               e == Instructions!Right(u, l, n + 1)
           IN  /\ d.upper \in 0 .. WordBase - 1 /\ d.lower \in 0 .. WordBase - 1
               /\ e.upper = d.upper \div Base
               /\ e.lower = (d.upper % Base) * HighBase + d.lower \div Base
  <1> DEFINE d == Instructions!Right(u, l, n)
             e == Instructions!Right(u, l, n + 1)
  <1>1. Base \in Nat \ {0} /\ u \in Nat /\ l \in Nat
    BY Places DEF Base
  <1>2. CASE n < WordSize
    <2> DEFINE p == Weight[n]
               k == WordSize - (n + 1)
               r == Weight[k]
               m == Weight[WordSize - n]
               q == Weight[n + 1]
    <2>1. /\ k \in Nat /\ k + 1 = WordSize - n /\ n + k = WordSize - 1
          /\ n + 1 \in Nat /\ n <= WordSize /\ n + 1 <= WordSize
      BY <1>2, Places
    <2>2. /\ p \in Nat \ {0} /\ r \in Nat \ {0}
          /\ q = Base * p /\ Weight[k + 1] = Base * r
      BY <2>1, Places
    <2>3. Weight[n + k] = p * r
      BY <2>1, WeightSum
    <2>4. p * m = WordBase
      BY <2>1, Places
    <2>5. d = [upper |-> u \div p, lower |-> (u % p) * m + l \div p]
      BY <2>1, RightInHalf
    <2>6. e = [upper |-> u \div q, lower |-> (u % q) * r + l \div q]
      BY <2>1, RightInHalf
    <2>7. m = Base * r /\ p * r = HighBase
      BY <2>1, <2>2, <2>3, Places
    <2> HIDE DEF d, e, p, r, m, q, k
    <2>8. q = p * Base
      BY <1>1, <2>2
    <2>9. RightRule(u, l, Base, p, r)
      BY <1>1, <2>2, RightPlace
    <2>10. /\ e.upper = d.upper \div Base
           /\ e.lower = (d.upper % Base) * HighBase + d.lower \div Base
      BY <2>5, <2>6, <2>7, <2>8, <2>9 DEF RightRule
    <2>11. d.upper \in 0 .. WordBase - 1
      <3>1. u \div p \in 0 .. WordBase - 1
        BY <2>2, QuotientRange
      <3> QED  BY <2>5, <3>1
    <2>12. d.lower \in 0 .. WordBase - 1
      <3> DEFINE x == u % p
                 y == l \div p
      <3>1. x \in 0 .. p - 1 /\ y \in Nat
        BY <1>1, <2>2, DivMod
      <3>2. m \in Nat /\ m * p = WordBase /\ l < m * p
        <4>1. m \in Nat
          BY <1>1, <2>2, <2>7
        <4>2. m * p = p * m
          BY <2>2, <4>1
        <4>3. l < WordBase
          BY Places
        <4> QED  BY <2>4, <4>1, <4>2, <4>3, Zenon
      <3>3. y < m
        BY <1>1, <2>2, <3>2, QuotientBound
      <3> HIDE DEF x, y
      <3>4. x * m + y \in 0 .. WordBase - 1
        <4>1. x * m <= (p - 1) * m
          BY <2>2, <3>1, <3>2
        <4>2. (p - 1) * m = WordBase - m /\ x * m \in Nat
          BY <2>2, <3>1, <3>2
        <4> QED  BY <3>1, <3>2, <3>3, <4>1, <4>2, Places
      <3> QED  BY <2>5, <3>4 DEF x, y
    <2> QED  BY <2>10, <2>11, <2>12 DEF d, e
  <1>3. CASE n >= WordSize
    <2> DEFINE j == n - WordSize
               p == Weight[j]
               q == Weight[(n + 1) - WordSize]
    <2>1. /\ j \in Nat /\ j + 1 = (n + 1) - WordSize
          /\ n + 1 \in Nat /\ n + 1 >= WordSize
      BY <1>3, Places
    <2>2. p \in Nat \ {0} /\ q = Base * p
      BY <2>1, Places
    <2>3. d = [upper |-> 0, lower |-> u \div p]
      BY <1>3, RightBeyondHalf
    <2>4. e = [upper |-> 0, lower |-> u \div q]
      BY <2>1, RightBeyondHalf
    <2> HIDE DEF d, e, p, q, j
    <2>5. q = p * Base
      BY <1>1, <2>2
    <2>6. u \div q = (u \div p) \div Base
      <3>1. u \div (p * Base) = (u \div p) \div Base
        BY <1>1, <2>2, DivisionNested, Zenon
      <3> QED  BY <2>5, <3>1, Zenon
    <2>7. u \div p \in 0 .. WordBase - 1
      BY <2>2, QuotientRange
    <2>8. 0 \div Base = 0 /\ 0 % Base = 0
      BY DEF Base
    <2> DEFINE x == (u \div p) \div Base
    <2>9. x \in Nat
      BY <1>1, <2>7, DivMod
    <2> HIDE DEF x
    <2>10. 0 * HighBase + x = x
      BY <2>9, Places
    <2> QED  BY <2>3, <2>4, <2>6, <2>7, <2>8, <2>10, Places DEF d, e, x
  <1> QED  BY <1>2, <1>3, Places

----------------------------------------------------------------------------
(* The same on words, which keep their signs.                                *)
LEMMA WordOfFields ==
    ASSUME NEW m \in 0 .. WordBase - 1, NEW s \in Signs
    PROVE  Mag(WordOf(m, s)) = m /\ WordOf(m, s).sign = s
  <1>1. Mag(WordOf(m, s)) = m
    BY MagOfWordOf
  <1>2. WordOf(m, s).sign = s
    BY DEF WordOf
  <1> QED  BY <1>1, <1>2

LEMMA WordOfMag ==
    ASSUME NEW w \in Word
    PROVE  WordOf(Mag(w), w.sign) = w
  <1> DEFINE n == AddressBase
             o == w.op
             a == w.da
             i == w.ia
             h == o * n + a
             m == h * n + i
  <1>1. n \in Nat \ {0} /\ o \in Nat /\ a \in 0 .. n - 1 /\ i \in 0 .. n - 1
    BY WordFields, SizesAssumption DEF OpCodes, OpBase, Base, Addresses
  <1>2. Mag(w) = m
    BY DEF Mag
  <1> HIDE DEF o, a, i, m
  <1>3. h \in Nat /\ h = o * n + a /\ o \in Int
    BY <1>1
  <1> HIDE DEF h
  <1>4. m \in Nat /\ m = h * n + i /\ h \in Int
    BY <1>1, <1>3 DEF m
  <1> HIDE DEF n
  <1>5. h \div n = o /\ h % n = a
    BY <1>1, <1>3, DivisionUnique
  <1>6. m \div n = h /\ m % n = i
    BY <1>1, <1>3, <1>4, DivisionUnique
  <1>7. WordOf(Mag(w), w.sign) = [op |-> o, da |-> a, ia |-> i, sign |-> w.sign]
    BY <1>2, <1>5, <1>6, Zenon DEF WordOf, n
  <1> QED  BY <1>7 DEF Word, o, a, i

LEMMA LeftWords ==
    ASSUME NEW u \in 0 .. WordBase - 1, NEW l \in 0 .. WordBase - 1, NEW n \in Nat,
           NEW s \in Signs, NEW t \in Signs
    PROVE  LET d == Instructions!Left(u, l, n)
               e == Instructions!Left(u, l, n + 1)
           IN  ShiftLeft(WordOf(d.upper, s), WordOf(d.lower, t))
                  = [upper |-> WordOf(e.upper, s), lower |-> WordOf(e.lower, t)]
  <1> DEFINE d == Instructions!Left(u, l, n)
             e == Instructions!Left(u, l, n + 1)
  <1>1. /\ e.upper = (d.upper * Base + HighDigit(d.lower)) % WordBase
        /\ e.lower = (d.lower * Base) % WordBase
    BY LeftNext
  <1>2. d.upper \in 0 .. WordBase - 1 /\ d.lower \in 0 .. WordBase - 1
    BY LeftRange
  <1> HIDE DEF d, e
  <1>3. /\ Mag(WordOf(d.upper, s)) = d.upper /\ WordOf(d.upper, s).sign = s
        /\ Mag(WordOf(d.lower, t)) = d.lower /\ WordOf(d.lower, t).sign = t
    BY <1>2, WordOfFields
  <1>4. ShiftLeft(WordOf(d.upper, s), WordOf(d.lower, t))
           = [upper |-> WordOf(e.upper, s), lower |-> WordOf(e.lower, t)]
    BY <1>1, <1>3, Zenon DEF ShiftLeft
  <1> QED  BY <1>4 DEF d, e

LEMMA RightWords ==
    ASSUME NEW u \in 0 .. WordBase - 1, NEW l \in 0 .. WordBase - 1, NEW n \in Nat,
           NEW s \in Signs, NEW t \in Signs
    PROVE  LET d == Instructions!Right(u, l, n)
               e == Instructions!Right(u, l, n + 1)
           IN  ShiftRight(WordOf(d.upper, s), WordOf(d.lower, t))
                  = [upper |-> WordOf(e.upper, s), lower |-> WordOf(e.lower, t)]
  <1> DEFINE d == Instructions!Right(u, l, n)
             e == Instructions!Right(u, l, n + 1)
  <1>1. /\ d.upper \in 0 .. WordBase - 1 /\ d.lower \in 0 .. WordBase - 1
        /\ e.upper = d.upper \div Base
        /\ e.lower = (d.upper % Base) * HighBase + d.lower \div Base
    BY RightNext
  <1> HIDE DEF d, e
  <1>2. /\ Mag(WordOf(d.upper, s)) = d.upper /\ WordOf(d.upper, s).sign = s
        /\ Mag(WordOf(d.lower, t)) = d.lower /\ WordOf(d.lower, t).sign = t
    BY <1>1, WordOfFields
  <1>3. ShiftRight(WordOf(d.upper, s), WordOf(d.lower, t))
           = [upper |-> WordOf(e.upper, s), lower |-> WordOf(e.lower, t)]
    BY <1>1, <1>2, Zenon DEF ShiftRight
  <1> QED  BY <1>3 DEF d, e

LEMMA NoPlaceRight ==
    ASSUME NEW u \in 0 .. WordBase - 1, NEW l \in 0 .. WordBase - 1
    PROVE  Instructions!Right(u, l, 0) = [upper |-> u, lower |-> l]
  <1>1. /\ 0 <= WordSize /\ WordSize - 0 = WordSize /\ u \in Nat /\ l \in Nat
        /\ Weight[0] = 1 /\ Weight[WordSize] = WordBase /\ WordBase \in Nat \ {0}
    BY Places
  <1>2. Instructions!Right(u, l, 0)
           = [upper |-> u \div 1, lower |-> (u % 1) * WordBase + l \div 1]
    BY <1>1, RightInHalf
  <1>3. u \div 1 = u /\ u % 1 = 0 /\ l \div 1 = l
    BY <1>1, DivisionByOne
  <1>4. 0 * WordBase + l = l
    BY <1>1
  <1> QED  BY <1>2, <1>3, <1>4

(* The upper half has room for the carry of the 5 that rounds.                *)
LEMMA RoundingFits ==
    ASSUME NEW u \in 0 .. WordBase - 1, NEW l \in 0 .. WordBase - 1, NEW n \in Nat, n > 0
    PROVE  LET d == Instructions!Right(u, l, n)
           IN  /\ d.upper \in 0 .. WordBase - 2
               /\ d.lower \in 0 .. WordBase - 1
               /\ HalfAdded(d).upper \in 0 .. WordBase - 1
               /\ HalfAdded(d).lower \in 0 .. WordBase - 1
  <1> DEFINE m == n - 1
             d == Instructions!Right(u, l, n)
             c == Instructions!Right(u, l, m)
  <1>1. m \in Nat /\ m + 1 = n
    OBVIOUS
  <1>2. c.upper \in 0 .. WordBase - 1 /\ d.upper = c.upper \div Base
    <2> HIDE DEF m
    <2>1. LET x == Instructions!Right(u, l, m)
              y == Instructions!Right(u, l, m + 1)
          IN  x.upper \in 0 .. WordBase - 1 /\ y.upper = x.upper \div Base
      BY <1>1, RightNext
    <2> QED  BY <1>1, <2>1
  <1>3. d.lower \in 0 .. WordBase - 1
    BY RightNext
  <1> HIDE DEF c, d
  <1>4. WordBase \in Nat /\ WordBase >= 10
    BY Places DEF Base
  <1>5. d.upper \in 0 .. WordBase - 2
    BY <1>2, <1>4 DEF Base
  <1>6. /\ HalfAdded(d).upper \in 0 .. WordBase - 1
        /\ HalfAdded(d).lower \in 0 .. WordBase - 1
    <2>1. CASE d.lower + 5 >= WordBase
      <3>1. HalfAdded(d) = [upper |-> d.upper + 1, lower |-> (d.lower + 5) - 1 * WordBase]
        BY <2>1 DEF HalfAdded
      <3> QED  BY <1>3, <1>4, <1>5, <2>1, <3>1
    <2>2. CASE ~(d.lower + 5 >= WordBase)
      <3>1. HalfAdded(d) = [upper |-> d.upper + 0, lower |-> (d.lower + 5) - 0 * WordBase]
        BY <2>2 DEF HalfAdded
      <3> QED  BY <1>3, <1>4, <1>5, <2>2, <3>1
    <2> QED  BY <2>1, <2>2
  <1> QED  BY <1>3, <1>5, <1>6 DEF d

(* Adding 5 with the sign of the lower half.                                  *)
LEMMA HalfAddedWords ==
    ASSUME NEW d, d.upper \in 0 .. WordBase - 2, d.lower \in 0 .. WordBase - 1,
           NEW s \in Signs, NEW t \in Signs
    PROVE  LET sum == add_to_accumulator(WordOf(d.upper, s), WordOf(d.lower, t),
                                         WordOf(5, t), FALSE)
           IN  /\ sum.upper = WordOf(HalfAdded(d).upper, s)
               /\ sum.lower = WordOf(HalfAdded(d).lower, t)
  <1> DEFINE u == WordOf(d.upper, s)
             l == WordOf(d.lower, t)
             w == WordOf(5, t)
             a == Halves(u, l)
             b == [upper |-> 0, lower |-> 5]
  <1>1. WordBase \in Nat /\ WordBase >= 10 /\ 5 \in 0 .. WordBase - 1
        /\ d.upper \in 0 .. WordBase - 1
    BY Places DEF Base
  <1>2. /\ Mag(u) = d.upper /\ u.sign = s /\ Mag(l) = d.lower /\ l.sign = t
        /\ Mag(w) = 5 /\ w.sign = t
    BY <1>1, WordOfFields
  <1>3. a = [upper |-> d.upper, lower |-> d.lower]
    BY <1>2, Zenon DEF Halves
  <1> HIDE DEF u, l, w, a
  <1>4. SignedSum(a, t, b, t) = [mag |-> PlusMagnitude(a, b), sign |-> t]
    BY Zenon DEF SignedSum
  <1> DEFINE sum == PlusMagnitude(a, b)
  <1>5. add_to_accumulator(u, l, w, FALSE)
           = [upper |-> WordOf(sum.upper, s), lower |-> WordOf(sum.lower, t),
              carry |-> sum.carry]
    <2>1. [upper |-> IF FALSE THEN Mag(w) ELSE 0, lower |-> IF FALSE THEN 0 ELSE Mag(w)] = b
      BY <1>2
    <2>2. SignedSum(Halves(u, l), l.sign, b, w.sign) = [mag |-> sum, sign |-> t]
      BY <1>2, <1>4 DEF a
    <2> HIDE DEF sum, b
    <2> QED  BY <1>2, <2>1, <2>2 DEF add_to_accumulator
  <1>6. sum.upper = HalfAdded(d).upper /\ sum.lower = HalfAdded(d).lower
    <2>1. a.upper = d.upper /\ a.lower = d.lower /\ b.upper = 0 /\ b.lower = 5
      BY <1>3
    <2> DEFINE x == d.upper
               y == d.lower
               c == Carry(y + 5)
    <2>2. /\ sum.upper = (x + 0 + c) - Carry(x + 0 + c) * WordBase
          /\ sum.lower = (y + 5) - c * WordBase
      BY <2>1, Zenon DEF PlusMagnitude
    <2>3. HalfAdded(d).upper = x + c /\ HalfAdded(d).lower = (y + 5) - c * WordBase
      BY Zenon DEF HalfAdded, Carry
    <2>4. x \in 0 .. WordBase - 2 /\ c \in {0, 1}
      BY DEF Carry
    <2> HIDE DEF x, y, c
    <2>5. x + 0 + c = x + c /\ Carry(x + c) = 0 /\ x + c \in Nat
      BY <1>1, <2>4 DEF Carry
    <2>6. (x + c) - 0 * WordBase = x + c
      BY <1>1, <2>5
    <2> QED  BY <2>2, <2>3, <2>5, <2>6
  <1> DEFINE r == add_to_accumulator(u, l, w, FALSE)
  <1>7. r.upper = WordOf(sum.upper, s) /\ r.lower = WordOf(sum.lower, t)
    <2>1. r = [upper |-> WordOf(sum.upper, s), lower |-> WordOf(sum.lower, t),
               carry |-> sum.carry]
      BY <1>5
    <2> HIDE DEF r, sum
    <2> QED  BY <2>1
  <1> HIDE DEF sum
  <1> QED  BY <1>6, <1>7, Zenon DEF u, l, w

(* The last place, after rounding.                                            *)
LEMMA OnePlaceRight ==
    ASSUME NEW u \in 0 .. WordBase - 1, NEW l \in 0 .. WordBase - 1,
           NEW s \in Signs, NEW t \in Signs
    PROVE  LET e == Instructions!Right(u, l, 1)
           IN  ShiftRight(WordOf(u, s), WordOf(l, t))
                  = [upper |-> WordOf(e.upper, s), lower |-> WordOf(e.lower, t)]
  <1>1. 0 \in Nat /\ 0 + 1 = 1
    OBVIOUS
  <1>2. LET d == Instructions!Right(u, l, 0)
            e == Instructions!Right(u, l, 0 + 1)
        IN  ShiftRight(WordOf(d.upper, s), WordOf(d.lower, t))
               = [upper |-> WordOf(e.upper, s), lower |-> WordOf(e.lower, t)]
    BY <1>1, RightWords
  <1> QED  BY <1>1, <1>2, NoPlaceRight

----------------------------------------------------------------------------
(* The shift operations.                                                     *)
LEMMA ShiftFacts ==
    ASSUME completed \in Instructions!Machines, completed.address \in Addresses
    PROVE  /\ Upper \in 0 .. WordBase - 1 /\ Lower \in 0 .. WordBase - 1
           /\ completed.upper.sign \in Signs /\ completed.lower.sign \in Signs
           /\ WordOf(Upper, completed.upper.sign) = completed.upper
           /\ WordOf(Lower, completed.lower.sign) = completed.lower
           /\ PlacesToShift \in 1 .. Base
           /\ (Base - (completed.address % Base)) % Base = Base - PlacesToShift
  <1>1. completed.upper \in Word /\ completed.lower \in Word
    BY SameSets DEF Instructions!Machines
  <1>2. completed.address \in Nat
    BY SizesAssumption DEF Addresses
  <1>3. /\ PlacesToShift \in 1 .. Base
        /\ (Base - (completed.address % Base)) % Base = Base - PlacesToShift
    BY <1>2 DEF PlacesToShift, Instructions!Places, Base, Instructions!Base
  <1> QED  BY <1>1, <1>3, WordFields, WordOfMag DEF Upper, Lower

LEMMA OnePlaceShifted ==
    ASSUME IInv, DataWordTime, operation \in ShiftOps, op_it = 2
    PROVE  /\ UNCHANGED <<drum_storage, distributor, storage_selection_error>>
           /\ InsertShiftCount \/ ShiftOnePlace
           /\ shift_count \in 0 .. Base
  <1>1. op_end = 4 /\ Step("Shift")
    BY ClassSteps, StepOfThree
  <1>2. Shift
    BY <1>1, DataWordTimeFacts, StepTaken
  <1>3. shift_count \in 0 .. Base
    BY DataWordTimeFacts DEF IInv, ShiftCounts, TypeOK, Base
  <1> QED  BY <1>2, <1>3 DEF Shift

LEMMA PlaceLeft ==
    ASSUME completed \in Instructions!Machines, completed.address \in Addresses,
           operation \in {shift_left, shift_left_and_count}, ShiftOnePlace,
           NEW k \in Nat, ShiftedBy(LeftShifted(k))
    PROVE  /\ upper_accumulator' = WordOf(LeftShifted(k + 1).upper, completed.upper.sign)
           /\ lower_accumulator' = WordOf(LeftShifted(k + 1).lower, completed.lower.sign)
           /\ overflow' = completed.overflow
  <1>1. ~Rounds /\ operation \notin {shift_right, shift_and_round}
    BY DEF Rounds, shift_right, shift_and_round, shift_left, shift_left_and_count
  <1> DEFINE shifted == ShiftLeft(upper_accumulator, lower_accumulator)
             s == completed.upper.sign
             t == completed.lower.sign
  <1>2. upper_accumulator' = shifted.upper /\ lower_accumulator' = shifted.lower
        /\ overflow' = overflow
    BY <1>1, Zenon DEF ShiftOnePlace
  <1>3. /\ upper_accumulator = WordOf(LeftShifted(k).upper, s)
        /\ lower_accumulator = WordOf(LeftShifted(k).lower, t)
        /\ overflow = completed.overflow
    BY Zenon DEF ShiftedBy, ShiftedTo, WorkedIs
  <1>4. shifted = [upper |-> WordOf(LeftShifted(k + 1).upper, s),
                   lower |-> WordOf(LeftShifted(k + 1).lower, t)]
    <2>1. /\ Upper \in 0 .. WordBase - 1 /\ Lower \in 0 .. WordBase - 1
          /\ s \in Signs /\ t \in Signs
      BY ShiftFacts
    <2>2. LET d == Instructions!Left(Upper, Lower, k)
              e == Instructions!Left(Upper, Lower, k + 1)
          IN  ShiftLeft(WordOf(d.upper, s), WordOf(d.lower, t))
                 = [upper |-> WordOf(e.upper, s), lower |-> WordOf(e.lower, t)]
      <3> HIDE DEF s, t
      <3> QED  BY <2>1, LeftWords
    <2> QED  BY <1>3, <2>2, Zenon DEF LeftShifted
  <1> HIDE DEF shifted
  <1> QED  BY <1>2, <1>3, <1>4

(* To the right, as long as nothing has been rounded.                         *)
LEMMA PlaceRight ==
    ASSUME completed \in Instructions!Machines, completed.address \in Addresses,
           operation \in {shift_right, shift_and_round}, ShiftOnePlace,
           NEW k \in Nat, ShiftedBy(Instructions!Right(Upper, Lower, k))
    PROVE  LET e == Instructions!Right(Upper, Lower, k + 1)
               d == IF Rounds THEN HalfAdded(e) ELSE e
           IN  /\ upper_accumulator' = WordOf(d.upper, completed.upper.sign)
               /\ lower_accumulator' = WordOf(d.lower, completed.lower.sign)
               /\ overflow' = completed.overflow
  <1> DEFINE shifted == ShiftRight(upper_accumulator, lower_accumulator)
             s == completed.upper.sign
             t == completed.lower.sign
             c == Instructions!Right(Upper, Lower, k)
             e == Instructions!Right(Upper, Lower, k + 1)
             five == WordOf(5, lower_accumulator.sign)
             sum == add_to_accumulator(shifted.upper, shifted.lower, five, FALSE)
  <1>1. /\ Upper \in 0 .. WordBase - 1 /\ Lower \in 0 .. WordBase - 1
        /\ s \in Signs /\ t \in Signs
    BY ShiftFacts
  <1>2. /\ upper_accumulator = WordOf(c.upper, s)
        /\ lower_accumulator = WordOf(c.lower, t)
        /\ overflow = completed.overflow
    BY Zenon DEF ShiftedBy, ShiftedTo, WorkedIs
  <1>3. shifted = [upper |-> WordOf(e.upper, s), lower |-> WordOf(e.lower, t)]
    <2>1. ShiftRight(WordOf(c.upper, s), WordOf(c.lower, t))
             = [upper |-> WordOf(e.upper, s), lower |-> WordOf(e.lower, t)]
      <3> HIDE DEF s, t
      <3> QED  BY <1>1, RightWords
    <2> QED  BY <1>2, <2>1, Zenon
  <1>4. five = WordOf(5, t)
    BY <1>2, Zenon DEF WordOf
  <1>5. CASE Rounds
    <2>1. upper_accumulator' = sum.upper /\ lower_accumulator' = sum.lower
          /\ overflow' = overflow
      BY <1>5, Zenon DEF ShiftOnePlace
    <2>2. /\ e.upper \in 0 .. WordBase - 2 /\ e.lower \in 0 .. WordBase - 1
      BY <1>1, RoundingFits
    <2> HIDE DEF s, t, c, e, five, shifted
    <2>3. shifted.upper = WordOf(e.upper, s) /\ shifted.lower = WordOf(e.lower, t)
      BY <1>3
    <2>4. sum.upper = WordOf(HalfAdded(e).upper, s) /\ sum.lower = WordOf(HalfAdded(e).lower, t)
      <3>1. LET x == add_to_accumulator(WordOf(e.upper, s), WordOf(e.lower, t),
                                        WordOf(5, t), FALSE)
            IN  /\ x.upper = WordOf(HalfAdded(e).upper, s)
                /\ x.lower = WordOf(HalfAdded(e).lower, t)
        BY <1>1, <2>2, HalfAddedWords
      <3> QED  BY <1>4, <2>3, <3>1, Zenon
    <2> HIDE DEF sum
    <2> QED  BY <1>2, <1>5, <2>1, <2>4 DEF s, t, e
  <1>6. CASE ~Rounds
    <2>1. upper_accumulator' = shifted.upper /\ lower_accumulator' = shifted.lower
          /\ overflow' = overflow
      BY <1>6, Zenon DEF ShiftOnePlace
    <2> HIDE DEF s, t, c, e, five, shifted
    <2> QED  BY <1>2, <1>3, <1>6, <2>1 DEF s, t, e
  <1> QED  BY <1>5, <1>6

(* The last place to the right, after rounding.                               *)
LEMMA PlaceRounded ==
    ASSUME completed \in Instructions!Machines, completed.address \in Addresses,
           operation = shift_and_round, ShiftOnePlace, ~Rounds,
           PlacesToShift > 1,
           ShiftedBy(HalfAdded(Instructions!Right(Upper, Lower, PlacesToShift - 1)))
    PROVE  LET d == RoundedOrDropped(Upper, Lower, PlacesToShift)
           IN  /\ upper_accumulator' = WordOf(d.upper, completed.upper.sign)
               /\ lower_accumulator' = WordOf(d.lower, completed.lower.sign)
               /\ overflow' = completed.overflow
  <1> DEFINE shifted == ShiftRight(upper_accumulator, lower_accumulator)
             s == completed.upper.sign
             t == completed.lower.sign
             n == PlacesToShift - 1
             c == Instructions!Right(Upper, Lower, n)
             h == HalfAdded(c)
             e == Instructions!Right(h.upper, h.lower, 1)
  <1>1. /\ Upper \in 0 .. WordBase - 1 /\ Lower \in 0 .. WordBase - 1
        /\ s \in Signs /\ t \in Signs /\ n \in Nat /\ n > 0
    BY ShiftFacts
  <1>2. /\ upper_accumulator = WordOf(h.upper, s)
        /\ lower_accumulator = WordOf(h.lower, t)
        /\ overflow = completed.overflow
    BY Zenon DEF ShiftedBy, ShiftedTo, WorkedIs
  <1>3. h.upper \in 0 .. WordBase - 1 /\ h.lower \in 0 .. WordBase - 1
    <2> HIDE DEF n
    <2> QED  BY <1>1, RoundingFits
  <1>4. ShiftRight(WordOf(h.upper, s), WordOf(h.lower, t))
           = [upper |-> WordOf(e.upper, s), lower |-> WordOf(e.lower, t)]
    <2> HIDE DEF s, t, h
    <2> QED  BY <1>1, <1>3, OnePlaceRight
  <1>5. RoundedOrDropped(Upper, Lower, PlacesToShift) = e
    <2>1. PlacesToShift # 1
      BY ShiftFacts
    <2> QED
      BY <2>1, SameSets, Zenon DEF RoundedOrDropped, Instructions!Rounded, HalfAdded
  <1>6. upper_accumulator' = shifted.upper /\ lower_accumulator' = shifted.lower
        /\ overflow' = overflow
    BY Zenon DEF ShiftOnePlace
  <1>7. shifted = [upper |-> WordOf(e.upper, s), lower |-> WordOf(e.lower, t)]
    BY <1>2, <1>4, Zenon
  <1> HIDE DEF shifted, e, h, s, t
  <1> QED  BY <1>2, <1>5, <1>6, <1>7 DEF s, t

LEMMA ShiftNames ==
    /\ shift_right # shift_left_and_count /\ shift_and_round # shift_left_and_count
    /\ shift_left # shift_left_and_count /\ shift_right # shift_and_round
    /\ shift_left # shift_right /\ shift_left # shift_and_round
    /\ ShiftOps = {shift_right, shift_and_round, shift_left, shift_left_and_count}
  BY DEF shift_right, shift_and_round, shift_left, shift_left_and_count, ShiftOps

(* The steps that shift nothing.                                             *)
LEMMA ShiftedTheSame ==
    ASSUME UNCHANGED <<drum_storage, distributor, upper_accumulator, lower_accumulator,
                       overflow, storage_selection_error, operation>>,
           completed' = completed
    PROVE  /\ shift_count' = shift_count /\ Shifting => Shifting'
           /\ Shifted => Shifted'
  <1>1. /\ Upper' = Upper /\ Lower' = Lower /\ PlacesToShift' = PlacesToShift
        /\ shift_count' = shift_count => PlacesShifted' = PlacesShifted
    BY DEF Upper, Lower, PlacesToShift, PlacesShifted
  <1>2. Shifted => Shifted'
    BY <1>1 DEF Shifted, ShiftedBy, ShiftedTo, WorkedIs, LeftShifted, CountInserted
  <1>3. ASSUME shift_count' = shift_count, Shifting
        PROVE  Shifting'
    BY <1>1, <1>3
       DEF Shifting, ShiftedBy, ShiftedTo, WorkedIs, LeftShifted, RightShifted
  <1> QED  BY <1>2, <1>3

LEMMA ShiftRightSimulated ==
    ASSUME IInv, DataWordTime, Executing, completed' = completed,
           completed \in Instructions!Machines, completed.address \in Addresses,
           operation \in {shift_right, shift_and_round}, op_it = 2, Shifting
    PROVE  ShiftEffect'
  <1> PICK k : k = PlacesShifted
    OBVIOUS
  <1> PICK n : n = PlacesToShift
    OBVIOUS
  <1>1. operation \in ShiftOps /\ operation # shift_left_and_count
        /\ operation # shift_left
    BY ShiftNames
  <1>2. /\ ShiftOnePlace /\ shift_count \in 0 .. Base
        /\ UNCHANGED <<drum_storage, distributor, storage_selection_error>>
    BY <1>1, OnePlaceShifted DEF InsertShiftCount, CountStops
  <1>3. n \in 1 .. Base /\ Base = 10
    BY ShiftFacts DEF Base
  <1>4. k \in 0 .. n - 1 /\ ShiftedBy(RightShifted(k))
    BY Zenon DEF Shifting
  <1>5. k = shift_count - (Base - n) /\ shift_count' = shift_count + 1
    BY <1>2 DEF PlacesShifted, ShiftOnePlace
  <1>6. op_it' = IF k + 1 = n THEN 3 ELSE 2
    <2>1. shift_count + 1 = Base <=> k + 1 = n
      BY <1>2, <1>3, <1>4, <1>5
    <2> QED  BY <1>1, <1>2, <2>1 DEF ShiftOnePlace, Done, Again
  <1>7. Rounds <=> operation = shift_and_round /\ k + 2 = n
    <2>1. shift_count + 1 = 9 <=> k + 2 = n
      BY <1>2, <1>3, <1>4, <1>5
    <2> QED  BY <2>1 DEF Rounds
  <1>8. /\ Upper' = Upper /\ Lower' = Lower /\ PlacesToShift' = n
        /\ operation' = operation /\ completed' = completed
        /\ PlacesShifted' = k + 1
    <2>1. operation' = operation
      BY DataWordTimeFacts
    <2>2. PlacesToShift' = n
      BY DEF PlacesToShift
    <2>3. PlacesShifted' = k + 1
      BY <1>2, <1>3, <1>5, <2>2 DEF PlacesShifted
    <2> QED  BY <2>1, <2>2, <2>3 DEF Upper, Lower
  <1>9. /\ drum_storage' = completed.storage /\ distributor' = completed.distributor
        /\ storage_selection_error' = completed.storage_selection_error
    BY <1>2, <1>4 DEF ShiftedBy, ShiftedTo, WorkedIs
  <1>10. CASE operation = shift_and_round /\ k > 0 /\ k + 1 = n
    <2>1. PlacesToShift > 1 /\ PlacesToShift - 1 = k /\ ~Rounds
      BY <1>3, <1>4, <1>7, <1>10
    <2>2. RightShifted(k) = HalfAdded(Instructions!Right(Upper, Lower, k))
      BY <1>10 DEF RightShifted
    <2>3. LET d == RoundedOrDropped(Upper, Lower, PlacesToShift)
          IN  /\ upper_accumulator' = WordOf(d.upper, completed.upper.sign)
              /\ lower_accumulator' = WordOf(d.lower, completed.lower.sign)
              /\ overflow' = completed.overflow
      BY <1>2, <1>4, <1>10, <2>1, <2>2, PlaceRounded, Zenon
    <2>4. ShiftedBy(RoundedOrDropped(Upper, Lower, PlacesToShift))'
      BY <1>8, <1>9, <2>3 DEF ShiftedBy, ShiftedTo, WorkedIs
    <2>5. Shifted'
      BY <1>1, <1>8, <1>10, <2>4, ShiftNames DEF Shifted
    <2> QED  BY <1>6, <1>10, <2>5 DEF ShiftEffect
  <1>11. CASE ~(operation = shift_and_round /\ k > 0 /\ k + 1 = n)
    <2> DEFINE e == Instructions!Right(Upper, Lower, k + 1)
               d == IF Rounds THEN HalfAdded(e) ELSE e
    <2>1. ShiftedBy(Instructions!Right(Upper, Lower, k)) /\ k \in Nat
      BY <1>3, <1>4, <1>11 DEF RightShifted
    <2>2. /\ upper_accumulator' = WordOf(d.upper, completed.upper.sign)
          /\ lower_accumulator' = WordOf(d.lower, completed.lower.sign)
          /\ overflow' = completed.overflow
      BY <1>2, <2>1, PlaceRight
    <2>3. CASE k + 1 = n
      <3>1. ~Rounds
        BY <1>3, <1>4, <1>7, <2>3
      <3>2. ShiftedBy(Instructions!Right(Upper, Lower, PlacesToShift))'
        BY <1>8, <1>9, <2>2, <2>3, <3>1 DEF ShiftedBy, ShiftedTo, WorkedIs
      <3>3. operation = shift_and_round =>
               RoundedOrDropped(Upper, Lower, PlacesToShift)
                  = Instructions!Right(Upper, Lower, PlacesToShift)
        <4>1. operation = shift_and_round => n = 1
          BY <1>3, <1>4, <1>11, <2>3
        <4> QED  BY <4>1, Zenon DEF RoundedOrDropped
      <3>4. operation = shift_and_round =>
               ShiftedBy(RoundedOrDropped(Upper, Lower, PlacesToShift))'
        BY <1>8, <1>9, <2>2, <2>3, <3>1, <3>3 DEF ShiftedBy, ShiftedTo, WorkedIs
      <3>5. Shifted'
        BY <1>1, <1>8, <3>2, <3>4, ShiftNames DEF Shifted
      <3> QED  BY <1>6, <2>3, <3>5 DEF ShiftEffect
    <2>4. CASE k + 1 # n
      <3>1. k + 1 \in 0 .. n - 1 /\ k + 1 > 0 /\ (k + 2 = n <=> (k + 1) + 1 = n)
        BY <1>3, <1>4, <2>4
      <3>2. RightShifted(k + 1) = d
        BY <1>7, <3>1, Zenon DEF RightShifted
      <3>3. RightShifted(k + 1)' = d
        BY <1>8, <3>2 DEF RightShifted
      <3>4. ShiftedBy(RightShifted(PlacesShifted))'
        <4>1. RightShifted(PlacesShifted)' = d
          BY <1>8, <3>3 DEF RightShifted
        <4> HIDE DEF d
        <4> QED  BY <1>8, <1>9, <2>2, <4>1 DEF ShiftedBy, ShiftedTo, WorkedIs
      <3>5. Shifting'
        BY <1>1, <1>8, <3>1, <3>4 DEF Shifting
      <3> QED  BY <1>6, <2>4, <3>5 DEF ShiftEffect
    <2> QED  BY <2>3, <2>4
  <1> QED  BY <1>10, <1>11

LEMMA ShiftLeftSimulated ==
    ASSUME IInv, DataWordTime, Executing, completed' = completed,
           completed \in Instructions!Machines, completed.address \in Addresses,
           operation = shift_left, op_it = 2, Shifting
    PROVE  ShiftEffect'
  <1> PICK k : k = PlacesShifted
    OBVIOUS
  <1> PICK n : n = PlacesToShift
    OBVIOUS
  <1>1. operation \in ShiftOps /\ operation # shift_left_and_count
        /\ operation \notin {shift_right, shift_and_round}
    BY ShiftNames
  <1>2. /\ ShiftOnePlace /\ shift_count \in 0 .. Base
        /\ UNCHANGED <<drum_storage, distributor, storage_selection_error>>
    BY <1>1, OnePlaceShifted DEF InsertShiftCount, CountStops
  <1>3. n \in 1 .. Base /\ Base = 10
    BY ShiftFacts DEF Base
  <1>4. k \in 0 .. n - 1 /\ ShiftedBy(LeftShifted(k)) /\ k \in Nat
    BY <1>3 DEF Shifting
  <1>5. k = shift_count - (Base - n) /\ shift_count' = shift_count + 1
    BY <1>2 DEF PlacesShifted, ShiftOnePlace
  <1>6. op_it' = IF k + 1 = n THEN 3 ELSE 2
    <2>1. shift_count + 1 = Base <=> k + 1 = n
      BY <1>2, <1>3, <1>4, <1>5
    <2> QED  BY <1>1, <1>2, <2>1 DEF ShiftOnePlace, Done, Again
  <1>7. /\ upper_accumulator' = WordOf(LeftShifted(k + 1).upper, completed.upper.sign)
        /\ lower_accumulator' = WordOf(LeftShifted(k + 1).lower, completed.lower.sign)
        /\ overflow' = completed.overflow
    BY <1>2, <1>4, PlaceLeft
  <1>8. /\ Upper' = Upper /\ Lower' = Lower /\ PlacesToShift' = n
        /\ operation' = operation /\ completed' = completed
        /\ PlacesShifted' = k + 1
    <2>1. operation' = operation
      BY DataWordTimeFacts
    <2>2. PlacesToShift' = n
      BY DEF PlacesToShift
    <2>3. PlacesShifted' = k + 1
      BY <1>2, <1>3, <1>5, <2>2 DEF PlacesShifted
    <2> QED  BY <2>1, <2>2, <2>3 DEF Upper, Lower
  <1>9. ShiftedBy(LeftShifted(k + 1))'
    <2>1. /\ drum_storage' = completed.storage /\ distributor' = completed.distributor
          /\ storage_selection_error' = completed.storage_selection_error
      BY <1>2, <1>4 DEF ShiftedBy, ShiftedTo, WorkedIs
    <2>2. LeftShifted(k + 1)' = LeftShifted(k + 1)
      BY <1>8 DEF LeftShifted
    <2> QED  BY <1>7, <1>8, <2>1, <2>2 DEF ShiftedBy, ShiftedTo, WorkedIs
  <1>10. CASE k + 1 = n
    <2>1. ShiftedBy(LeftShifted(PlacesToShift))'
      BY <1>8, <1>9, <1>10
    <2>2. Shifted'
      BY <1>1, <1>8, <2>1, ShiftNames DEF Shifted
    <2> QED  BY <1>6, <1>10, <2>2 DEF ShiftEffect
  <1>11. CASE k + 1 # n
    <2>1. k + 1 \in 0 .. n - 1
      BY <1>3, <1>4, <1>11
    <2>2. ShiftedBy(LeftShifted(PlacesShifted))'
      BY <1>8, <1>9
    <2>3. Shifting'
      BY <1>1, <1>8, <2>1, <2>2, ShiftNames DEF Shifting
    <2> QED  BY <1>6, <1>11, <2>3 DEF ShiftEffect
  <1> QED  BY <1>10, <1>11

(* The number of places after which a digit stands in the high position.      *)
LEMMA NormalizingIs ==
    ASSUME NEW u, NEW l, NEW n \in Nat, NEW k \in 0 .. n,
           k = n \/ HighDigit(Instructions!Left(u, l, k).upper) > 0,
           \A j \in 0 .. k - 1 : ~(HighDigit(Instructions!Left(u, l, j).upper) > 0)
    PROVE  Instructions!Normalizing(u, l, n) = k
  <1> DEFINE ends(j) == j = n \/ HighDigit(Instructions!Left(u, l, j).upper) > 0
             first(j) == ends(j) /\ \A i \in 0 .. j - 1 : ~ends(i)
  <1>1. Instructions!Normalizing(u, l, n) = CHOOSE j \in 0 .. n : first(j)
    BY SameWords, Zenon DEF Instructions!Normalizing
  <1>2. first(k)
    OBVIOUS
  <1>3. ASSUME NEW j \in 0 .. n, first(j)
        PROVE  j = k
    <2>1. ~(j < k)
      <3>1. j < k => j \in 0 .. k - 1
        OBVIOUS
      <3> QED  BY <1>2, <1>3, <3>1
    <2>2. ~(k < j)
      <3>1. k < j => k \in 0 .. j - 1
        OBVIOUS
      <3> QED  BY <1>2, <1>3, <3>1
    <2> QED  BY <2>1, <2>2
  <1> HIDE DEF first
  <1> QED  BY <1>1, <1>2, <1>3

(* Where shift and count stops, it has shifted as many places.                *)
LEMMA CountSimulated ==
    ASSUME IInv, DataWordTime, Executing, completed' = completed,
           completed \in Instructions!Machines, completed.address \in Addresses,
           operation = shift_left_and_count, op_it = 2, InsertShiftCount,
           NEW k \in 0 .. PlacesToShift, ShiftedBy(LeftShifted(k)),
           k = PlacesToShift \/ HighDigit(LeftShifted(k).upper) > 0,
           \A j \in 0 .. k - 1 : ~(HighDigit(LeftShifted(j).upper) > 0),
           shift_count = IF k = 0 THEN 0 ELSE (Base - PlacesToShift) + k
    PROVE  ShiftEffect'
  <1> DEFINE d == LeftShifted(k)
             s == completed.upper.sign
             t == completed.lower.sign
             low == (d.lower - (d.lower % OpBase)) + shift_count
  <1>1. /\ Upper \in 0 .. WordBase - 1 /\ Lower \in 0 .. WordBase - 1
        /\ s \in Signs /\ t \in Signs /\ PlacesToShift \in 1 .. Base
        /\ k \in Nat /\ PlacesToShift \in Nat
    BY ShiftFacts DEF Base
  <1>2. Instructions!Normalizing(Upper, Lower, PlacesToShift) = k
    BY <1>1, NormalizingIs DEF LeftShifted
  <1>3. d.upper \in 0 .. WordBase - 1 /\ d.lower \in 0 .. WordBase - 1
    BY <1>1, LeftRange DEF LeftShifted
  <1>4. /\ upper_accumulator = WordOf(d.upper, s)
        /\ lower_accumulator = WordOf(d.lower, t)
    BY Zenon DEF ShiftedBy, ShiftedTo, WorkedIs
  <1>5. Mag(upper_accumulator) = d.upper /\ Mag(lower_accumulator) = d.lower
        /\ lower_accumulator.sign = t
    <2> HIDE DEF d, s, t
    <2> QED  BY <1>1, <1>3, <1>4, WordOfFields
  <1>6. /\ lower_accumulator' = WordOf(low, t)
        /\ overflow' = (HighDigit(d.upper) = 0)
        /\ op_it' = 3 /\ UNCHANGED upper_accumulator
    <2> HIDE DEF d, t
    <2> QED  BY <1>5 DEF InsertShiftCount, Done
  <1>7. UNCHANGED <<drum_storage, distributor, storage_selection_error>>
    BY OnePlaceShifted, ShiftNames
  <1>8. /\ drum_storage = completed.storage /\ distributor = completed.distributor
        /\ storage_selection_error = completed.storage_selection_error
    BY DEF ShiftedBy, ShiftedTo, WorkedIs
  <1>9. /\ Upper' = Upper /\ Lower' = Lower /\ PlacesToShift' = PlacesToShift
        /\ operation' = operation /\ completed' = completed
    BY DataWordTimeFacts DEF Upper, Lower, PlacesToShift
  <1>10. CountInserted(k)'
    <2>1. d' = d
      BY <1>9 DEF LeftShifted
    <2>2. ((LeftShifted(k).lower - (LeftShifted(k).lower % OpBase))
             + IF k = 0 THEN 0 ELSE (Base - PlacesToShift) + k)' = low
      BY <1>9, <2>1
    <2> QED
      BY <1>4, <1>6, <1>7, <1>8, <1>9, <2>1, <2>2 DEF CountInserted, ShiftedTo, WorkedIs
  <1>11. Shifted'
    BY <1>2, <1>9, <1>10, ShiftNames DEF Shifted
  <1> QED  BY <1>6, <1>11 DEF ShiftEffect

LEMMA ShiftCountSimulated ==
    ASSUME IInv, DataWordTime, Executing, completed' = completed,
           completed \in Instructions!Machines, completed.address \in Addresses,
           operation = shift_left_and_count, op_it = 2, Shifting
    PROVE  ShiftEffect'
  <1> PICK n : n = PlacesToShift
    OBVIOUS
  <1>1. operation \in ShiftOps /\ operation # shift_left
        /\ operation \notin {shift_right, shift_and_round}
    BY ShiftNames
  <1>2. /\ InsertShiftCount \/ ShiftOnePlace
        /\ shift_count \in 0 .. Base
        /\ UNCHANGED <<drum_storage, distributor, storage_selection_error>>
    BY <1>1, OnePlaceShifted
  <1>3. /\ n \in 1 .. Base /\ Base = 10
        /\ Upper \in 0 .. WordBase - 1 /\ Lower \in 0 .. WordBase - 1
        /\ completed.upper.sign \in Signs
    BY ShiftFacts DEF Base
  <1>4. ASSUME NEW k \in Nat, ShiftedBy(LeftShifted(k))
        PROVE  Mag(upper_accumulator) = LeftShifted(k).upper
    <2>1. upper_accumulator = WordOf(LeftShifted(k).upper, completed.upper.sign)
      BY <1>4, Zenon DEF ShiftedBy, ShiftedTo, WorkedIs
    <2>2. LeftShifted(k).upper \in 0 .. WordBase - 1
      BY <1>3, LeftRange DEF LeftShifted
    <2> QED  BY <1>3, <2>1, <2>2, WordOfFields
  <1>5. LeftShifted(0).upper = Upper
    BY <1>3, NoPlaceLeft DEF LeftShifted
  <1>6. CASE HighDigit(Upper) > 0
    <2>1. shift_count = 0 /\ ShiftedBy(LeftShifted(0))
      BY <1>6 DEF Shifting
    <2>2. Mag(upper_accumulator) = Upper
      BY <1>4, <1>5, <2>1
    <2>3. InsertShiftCount
      BY <1>2, <1>6, <2>2 DEF ShiftOnePlace, CountStops
    <2>4. 0 \in 0 .. PlacesToShift /\ \A j \in 0 .. 0 - 1 : FALSE
      BY <1>3
    <2> QED  BY <1>5, <1>6, <2>1, <2>3, <2>4, CountSimulated
  <1>7. CASE ~(HighDigit(Upper) > 0)
    <2> PICK k : k = PlacesShifted
      OBVIOUS
    <2>1. /\ k \in 0 .. n /\ ShiftedBy(LeftShifted(k)) /\ k \in Nat
          /\ \A j \in 0 .. k - 1 : HighDigit(LeftShifted(j).upper) = 0
      BY <1>3, <1>7 DEF Shifting
    <2>2. k = shift_count - (Base - n)
      BY DEF PlacesShifted
    <2>3. Mag(upper_accumulator) = LeftShifted(k).upper
      BY <1>4, <2>1
    <2>4. shift_count = Base <=> k = n
      BY <1>2, <1>3, <2>1, <2>2
    <2>5. CASE InsertShiftCount
      <3>1. k = n \/ HighDigit(LeftShifted(k).upper) > 0
        BY <2>3, <2>4, <2>5 DEF InsertShiftCount, CountStops
      <3>2. k # 0
        BY <1>3, <1>5, <1>7, <3>1
      <3>3. shift_count = (Base - PlacesToShift) + k
        BY <1>2, <1>3, <2>1, <2>2
      <3>4. \A j \in 0 .. k - 1 : ~(HighDigit(LeftShifted(j).upper) > 0)
        BY <2>1
      <3> QED  BY <2>1, <2>5, <3>1, <3>2, <3>3, <3>4, CountSimulated
    <2>6. CASE ShiftOnePlace
      <3>1. ~(HighDigit(LeftShifted(k).upper) > 0) /\ k # n
        BY <2>3, <2>4, <2>6 DEF ShiftOnePlace, CountStops
      <3>2. HighDigit(LeftShifted(k).upper) = 0
        <4>1. LeftShifted(k).upper \in Nat
          BY <1>3, <2>1, LeftRange DEF LeftShifted
        <4>2. HighDigit(LeftShifted(k).upper) \in Nat
          BY <4>1, Places, DivMod DEF HighDigit
        <4> QED  BY <3>1, <4>2
      <3>3. /\ upper_accumulator' = WordOf(LeftShifted(k + 1).upper, completed.upper.sign)
            /\ lower_accumulator' = WordOf(LeftShifted(k + 1).lower, completed.lower.sign)
            /\ overflow' = completed.overflow
        BY <2>1, <2>6, PlaceLeft
      <3>4. shift_count' = shift_count + 1 /\ op_it' = 2
        BY <2>6 DEF ShiftOnePlace, Again
      <3>5. /\ Upper' = Upper /\ Lower' = Lower /\ PlacesToShift' = n
            /\ operation' = operation /\ completed' = completed
            /\ PlacesShifted' = k + 1
        <4>1. operation' = operation
          BY DataWordTimeFacts
        <4>2. PlacesToShift' = n
          BY DEF PlacesToShift
        <4>3. PlacesShifted' = k + 1
          BY <1>2, <1>3, <2>2, <3>4, <4>2 DEF PlacesShifted
        <4> QED  BY <4>1, <4>2, <4>3 DEF Upper, Lower
      <3>6. \A j : LeftShifted(j)' = LeftShifted(j)
        BY <3>5 DEF LeftShifted
      <3>7. ShiftedBy(LeftShifted(PlacesShifted))'
        <4>1. /\ drum_storage' = completed.storage /\ distributor' = completed.distributor
              /\ storage_selection_error' = completed.storage_selection_error
          BY <1>2, <2>1 DEF ShiftedBy, ShiftedTo, WorkedIs
        <4>2. LeftShifted(PlacesShifted)' = LeftShifted(k + 1)
          BY <3>5 DEF LeftShifted
        <4> QED  BY <3>3, <3>5, <4>1, <4>2 DEF ShiftedBy, ShiftedTo, WorkedIs
      <3>8. k + 1 \in 0 .. n
        BY <1>3, <2>1, <3>1
      <3>9. \A j \in 0 .. (k + 1) - 1 : HighDigit(LeftShifted(j)'.upper) = 0
        <4>1. \A j \in 0 .. (k + 1) - 1 : j \in 0 .. k - 1 \/ j = k
          BY <2>1
        <4> QED  BY <2>1, <3>2, <3>6, <4>1
      <3>10. Shifting'
        BY <1>1, <1>7, <3>5, <3>7, <3>8, <3>9, ShiftNames DEF Shifting
      <3> QED  BY <3>4, <3>10 DEF ShiftEffect
    <2> QED  BY <1>2, <2>5, <2>6
  <1> QED  BY <1>6, <1>7

LEMMA ShiftSimulated ==
    ASSUME IInv, DataWordTime, Executing, completed' = completed,
           completed \in Instructions!Machines, operation \in ShiftOps
    PROVE  ShiftEffect'
  <1>1. /\ op_end = 4
        /\ op_it = 1 => Step("Enable_Shift_Control")
        /\ op_it = 2 => Step("Shift")
        /\ op_it = 3 => Step("Remove_Interlock_A")
    BY ClassSteps, StepOfThree, DataWordTimeFacts
  <1>2. op_it \in 1 .. 4 /\ ShiftEffect /\ operation' = operation
    BY <1>1, DataWordTimeFacts DEF Executing
  <1>3. CASE op_it = 1
    <2>1. Enable_Shift_Control
      BY <1>1, <1>3, DataWordTimeFacts, StepTaken
    <2>2. op_it' \in {1, 2} /\ UNCHANGED step_vars
      BY <1>3, <2>1 DEF Enable_Shift_Control, Done, Again
    <2>3. Shifting'
      BY <1>2, <1>3, <2>2, ShiftedTheSame
         DEF ShiftEffect, step_vars, accumulator_vars, member_vars
    <2> QED  BY <2>2, <2>3 DEF ShiftEffect
  <1>4. CASE op_it = 2
    <2>1. completed.address \in Addresses
      <3>1. Step("Shift") /\ op_it < op_end /\ operation # table_lookup
        BY <1>1, <1>4, DurationClasses
      <3>2. ~Step("Remove_Interlock_A")
        BY <3>1 DEF Step
      <3> QED  BY <3>1, <3>2, AddressHeld, DataWordTimeFacts
    <2>2. Shifting
      BY <1>2, <1>4 DEF ShiftEffect
    <2> QED
      BY <1>4, <2>1, <2>2, ShiftNames, ShiftRightSimulated, ShiftLeftSimulated,
         ShiftCountSimulated
  <1>5. CASE op_it = 3
    <2>1. /\ op_it' = 4
          /\ UNCHANGED <<drum_storage, distributor, upper_accumulator, lower_accumulator,
                         overflow, storage_selection_error>>
      BY <1>1, <1>5, RemoveTouchesNothing
    <2> QED  BY <1>2, <1>5, <2>1, ShiftedTheSame DEF ShiftEffect
  <1>6. CASE op_it = 4
    <2>1. op_it' = 4 /\ UNCHANGED step_vars
      BY <1>1, <1>6, NothingToDo
    <2> QED
      BY <1>2, <1>6, <2>1, ShiftedTheSame
         DEF ShiftEffect, step_vars, accumulator_vars
  <1> QED  BY <1>2, <1>3, <1>4, <1>5, <1>6

----------------------------------------------------------------------------
(* The invariant is kept: a word time of the data half-cycle.                 *)
LEMMA ExecutingKept ==
    ASSUME IInv, Progress, DataWordTime, Executing, completed' = completed,
           completed \in Instructions!Machines
    PROVE  Executing'
  <1>1. operation' = operation /\ program_register' = program_register
    BY DataWordTimeFacts DEF DataWordTime
  <1>2. Searched'
    BY SearchKept
  <1>3. operation \in StepLessOps => Untouched'
    BY StepLessSimulated
  <1>4. operation = load_distributor => LoadEffect'
    BY LoadSimulated
  <1>5. operation \in ArithmeticOps => ArithmeticEffect'
    BY ArithmeticSimulated
  <1>6. operation \in StoreOps => StoreEffect'
    BY StoreSimulated
  <1>7. operation \in ShiftOps => ShiftEffect'
    BY ShiftSimulated
  <1>8. operation \in DivideOps \cup {multiply} => IterativeEffect'
    BY IterativeSimulated
  <1>9. operation = table_lookup => LookUpEffect'
    BY LookUpSimulated
  <1>10. /\ completed.operation = operation /\ completed.half_cycle = "data"
         /\ completed.program = program_register /\ completed.address \in Addresses
    BY DEF Executing
  <1> QED
    BY <1>1, <1>2, <1>3, <1>4, <1>5, <1>6, <1>7, <1>8, <1>9, <1>10 DEF Executing

(* The beginning of a data half-cycle.                                       *)
LEMMA MachineIs ==
    ASSUME completed = Machine
    PROVE  /\ completed.storage = drum_storage
           /\ completed.distributor = distributor
           /\ completed.upper = upper_accumulator
           /\ completed.lower = lower_accumulator
           /\ completed.program = program_register
           /\ completed.operation = operation_register
           /\ completed.address = address_register
           /\ completed.half_cycle = half_cycle
           /\ completed.overflow = overflow
           /\ completed.storage_selection_error = storage_selection_error
           /\ completed.error_stop = error_stop
           /\ Untouched
  BY DEF Machine, Untouched, WorkedIs

LEMMA ShiftingBegins ==
    ASSUME IInv, BeginData, completed = Machine, completed' = completed,
           completed \in Instructions!Machines, operation_register \in ShiftOps
    PROVE  Shifting'
  <1> PICK n : n = PlacesToShift
    OBVIOUS
  <1>1. completed.address = address_register /\ address_register \in Addresses
    <2>1. address_register # Blank /\ address_register \in Addresses \cup {Blank}
      BY DEF BeginData, IInv, OperationPending, TypeOK
    <2> QED  BY <2>1, MachineIs
  <1>2. /\ Upper \in 0 .. WordBase - 1 /\ Lower \in 0 .. WordBase - 1
        /\ WordOf(Upper, completed.upper.sign) = completed.upper
        /\ WordOf(Lower, completed.lower.sign) = completed.lower
        /\ n \in 1 .. Base /\ Base = 10
        /\ (Base - (completed.address % Base)) % Base = Base - n
    BY <1>1, ShiftFacts DEF Base
  <1>3. /\ operation' = operation_register
        /\ shift_count' = InitialShiftCount
        /\ UNCHANGED <<drum_storage, distributor, upper_accumulator, lower_accumulator,
                       overflow, storage_selection_error>>
    BY DEF BeginData, drum_vars, accumulator_vars, flag_vars
  <1>4. /\ Upper' = Upper /\ Lower' = Lower /\ PlacesToShift' = n
        /\ Mag(upper_accumulator) = Upper
    BY MachineIs DEF Upper, Lower, PlacesToShift
  <1>5. /\ LeftShifted(0)' = [upper |-> Upper, lower |-> Lower]
        /\ RightShifted(0)' = [upper |-> Upper, lower |-> Lower]
    BY <1>2, <1>4, NoPlaceLeft, NoPlaceRight DEF LeftShifted, RightShifted
  <1>6. ShiftedBy(LeftShifted(0))' /\ ShiftedBy(RightShifted(0))'
    BY <1>2, <1>3, <1>5, MachineIs DEF ShiftedBy, ShiftedTo, WorkedIs
  <1>7. CASE operation' = shift_left_and_count /\ HighDigit(Upper) > 0
    <2>1. shift_count' = 0
      BY <1>3, <1>4, <1>7 DEF InitialShiftCount
    <2> QED  BY <1>4, <1>6, <1>7, <2>1, ShiftNames DEF Shifting
  <1>8. CASE ~(operation' = shift_left_and_count /\ HighDigit(Upper) > 0)
    <2>1. shift_count' = Base - n
      BY <1>1, <1>2, <1>3, <1>4, <1>8 DEF InitialShiftCount
    <2>2. PlacesShifted' = 0
      BY <1>2, <1>4, <2>1 DEF PlacesShifted
    <2>3. 0 \in 0 .. n - 1 /\ 0 \in 0 .. n /\ \A j \in 0 .. 0 - 1 : FALSE
      BY <1>2
    <2>4. ShiftedBy(LeftShifted(PlacesShifted))' /\ ShiftedBy(RightShifted(PlacesShifted))'
      BY <1>6, <2>2
    <2> QED  BY <1>4, <1>8, <2>2, <2>3, <2>4 DEF Shifting
  <1> QED  BY <1>7, <1>8

LEMMA StoreLengths ==
    \A op \in StoreOps : Len(operation_steps(op)) \in 2 .. 3
  <1> SUFFICES ASSUME NEW op \in StoreOps
               PROVE  Len(operation_steps(op)) \in 2 .. 3
    OBVIOUS
  <1> DEFINE s == operation_steps(op)
  <1>1. CASE op = store_distributor
    <2>1. s = <<"Enable_Position_Set", "Store_Distributor">>
      BY <1>1, DurationClasses DEF operation_steps, ArithmeticOps, LoadOps
    <2> QED  BY <2>1
  <1>2. CASE op \in StoreAddressOps
    <2>1. s = <<"Data_to_Distributor", "Store_Distributor">>
      BY <1>2, DurationClasses DEF operation_steps, ArithmeticOps, LoadOps
    <2> QED  BY <2>1
  <1>3. CASE op \in StoreWordOps
    <2>1. s = <<"Enable_Distributor", "Data_to_Distributor", "Store_Distributor">>
      BY <1>3, DurationClasses DEF operation_steps, ArithmeticOps, LoadOps
    <2> QED  BY <2>1
  <1> QED  BY <1>1, <1>2, <1>3, DurationClasses

LEMMA ExecutingBegins ==
    ASSUME IInv, BeginData, completed = Machine, completed' = completed,
           completed \in Instructions!Machines
    PROVE  Executing'
  <1>1. /\ operation' = operation_register /\ op_it' = 1 /\ inst_it' = 1
        /\ UNCHANGED <<drum_storage, distributor, upper_accumulator, lower_accumulator,
                       overflow, storage_selection_error, error_stop, address_register,
                       program_register>>
    BY DEF BeginData, drum_vars, accumulator_vars, flag_vars
  <1>2. half_cycle = "data"
    BY DEF BeginData, IInv, OperationPending
  <1>3. Untouched' /\ Searched'
    BY <1>1, MachineIs DEF Untouched, WorkedIs, Searched
  <1>4. operation' \in StoreOps => StoreEffect'
    <2>1. op_end' = Len(operation_steps(operation')) + 1
      BY DEF op_end, op_seq
    <2>2. operation' \in StoreOps => op_end' \in 3 .. 4
      <3> SUFFICES ASSUME operation' \in StoreOps PROVE op_end' \in 3 .. 4
        OBVIOUS
      <3>1. PICK op \in StoreOps : op = operation'
        OBVIOUS
      <3>2. PICK n \in 2 .. 3 : n = Len(operation_steps(op))
        BY StoreLengths
      <3>3. op_end' = n + 1
        BY <2>1, <3>1, <3>2, Zenon
      <3> QED  BY <3>3
    <2> QED  BY <1>1, <1>3, <2>2 DEF StoreEffect
  <1>5. operation' \in ShiftOps => ShiftEffect'
    BY <1>1, ShiftingBegins DEF ShiftEffect
  <1>6. LoadEffect' /\ ArithmeticEffect' /\ IterativeEffect' /\ LookUpEffect'
    BY <1>1, <1>3 DEF LoadEffect, ArithmeticEffect, IterativeEffect, LookUpEffect
  <1>7. /\ completed'.operation = operation' /\ completed'.half_cycle = "data"
        /\ completed'.program = program_register'
    BY <1>1, <1>2, MachineIs
  <1>8. completed'.address \in Addresses
    <2>1. address_register # Blank /\ address_register \in Addresses \cup {Blank}
      BY DEF BeginData, IInv, OperationPending, TypeOK
    <2> QED  BY <2>1, MachineIs
  <1> QED  BY <1>3, <1>4, <1>5, <1>6, <1>7, <1>8 DEF Executing

(* The instruction half-cycle.                                                *)
LEMMA SpecialStorage ==
    ASSUME NEW a \in Addresses, Readable(a), a >= StorageEntryAddress
    PROVE  a \in SpecialAddresses
  <1>1. ASSUME OnDrum(a)
        PROVE  FALSE
    <2>1. NBands \in Nat /\ BandSize * NBands <= a
      <3>1. BandSize * NBands = NBands * BandSize
        BY SizesAssumption
      <3>2. a \in Nat /\ NBands * BandSize \in Nat /\ StorageEntryAddress \in Nat
        BY SizesAssumption DEF Addresses
      <3> DEFINE p == NBands * BandSize
      <3>3. p <= StorageEntryAddress
        BY SizesAssumption
      <3> HIDE DEF p
      <3>4. p <= a
        BY <3>2, <3>3 DEF p
      <3> QED  BY <3>1, <3>4, SizesAssumption DEF p
    <2>2. band_of_address(a) \in Nat /\ band_of_address(a) >= NBands
      BY <2>1, BandOfAddress
    <2> QED  BY <1>1, <2>1, <2>2 DEF OnDrum
  <1> QED  BY <1>1 DEF Readable

LEMMA FetchSimulated ==
    ASSUME IInv, InstructionWordTime, completed' = completed, inst_it' > 1,
           inst_it = 1 => completed = Machine,
           inst_it > 1 => Fetched
    PROVE  Fetched'
  <1>1. /\ pc = "instruction" /\ ~InstructionAborts
        /\ UNCHANGED <<drum_storage, distributor, upper_accumulator, lower_accumulator,
                       overflow, storage_selection_error, error_stop>>
        /\ UNCHANGED switch_vars
        /\ inst_it \in 1 .. 3
    BY DEF InstructionWordTime, accumulator_vars, flag_vars, IInv, TypeOK
  <1>2. Addressed' = Addressed
    BY <1>1, SwitchesKept
  <1>3. CASE Instruction_to_Program_Register
    <2>1. inst_it = 1 /\ UNCHANGED <<address_register, half_cycle>>
      BY <1>3 DEF Instruction_to_Program_Register
    <2>2. /\ InstructionAtHead /\ inst_it' = 2
          /\ program_register' = Unsigned(get_storage(address_register))
      BY <1>3, <2>1 DEF Instruction_to_Program_Register
    <2>3. Readable(address_register)
      BY <1>1, <2>1, <2>2 DEF InstructionAborts
    <2>4. address_register \in Addresses
      BY <2>3 DEF Readable, IInv, TypeOK
    <2>5. UnderHead(address_register) \/ address_register \in SpecialAddresses
      BY <2>2, <2>3, <2>4, SpecialStorage DEF InstructionAtHead, Readable
    <2>6. get_storage(address_register) = Addressed
      BY <2>1, <2>5, MachineIs, ReadWord
    <2>7. half_cycle = "instruction"
      BY <1>1, <2>1 DEF IInv, SearchPosition, TypeOK, HalfCycles
    <2>8. Untouched'
      BY <1>1, <2>1, MachineIs DEF Untouched, WorkedIs
    <2> QED
      BY <1>1, <1>2, <2>1, <2>2, <2>3, <2>6, <2>7, <2>8, MachineIs DEF Fetched, Readable
  <1>4. CASE Op_and_Address_to_Registers
    <2>1. /\ inst_it = 2 /\ inst_it' = 3 /\ address_register' = program_register.da
          /\ program_register' = program_register
      BY <1>4 DEF Op_and_Address_to_Registers
    <2>2. Fetched
      BY <2>1
    <2>3. Untouched'
      BY <1>1, <2>2 DEF Untouched, WorkedIs, Fetched
    <2> QED  BY <1>1, <1>2, <2>1, <2>2, <2>3 DEF Fetched, Readable
  <1> QED  BY <1>3, <1>4 DEF InstructionWordTime

(* The invariant, over the whole specification.                               *)
LEMMA MachineType ==
    /\ TypeOK => Machine \in Instructions!Machines
    /\ TypeOK' => Machine' \in Instructions!Machines
  <1>1. TypeOK => Machine \in Instructions!Machines
    BY SameSets
       DEF TypeOK, DrumTypeOK, Machine, Instructions!Machines, HalfCycles, Bands, Indices
  <1>2. TypeOK' => Machine' \in Instructions!Machines
    BY SameSets
       DEF TypeOK, DrumTypeOK, Machine, Instructions!Machines, HalfCycles, Bands, Indices
  <1> QED  BY <1>1, <1>2

LEMMA InitSimulated == HInit /\ IInv => Simulated
  <1> SUFFICES ASSUME HInit, IInv PROVE Simulated
    OBVIOUS
  <1>1. control_mode = "run" /\ completed = Machine /\ pc = "idle" /\ inst_it = 1
    BY DEF HInit, Init
  <1>2. completed \in Instructions!Machines
    BY <1>1, MachineType DEF IInv
  <1> QED  BY <1>1, <1>2 DEF Simulated

LEMMA NextSimulated ==
    ASSUME IInv, IInv', Progress, Simulated, [HNext]_hvars
    PROVE  Simulated'
  <1>1. CASE HNext
    <2>1. /\ Next /\ TypeOK'
          /\ completed' = IF InHalfCycle' THEN completed ELSE Machine'
      BY <1>1 DEF HNext, IInv
    <2>2. control_mode' # "manual" /\ ~ManualStart /\ ~ManualAbort
      <3>1. control_mode # "manual"
        BY DEF Simulated
      <3>2. ~ManualStart /\ ~ManualAbort
        BY <3>1 DEF ManualStart, ManualAbort
      <3>3. UNCHANGED control_mode
        BY <2>1, <3>2
           DEF Next, ProgramStart, RunStep, Run, InstructionWordTime, InstructionAbort,
               EndInstruction, BeginData, DecodeAbort, DataWordTime, DataAbort, EndData,
               Abort, machine_vars, switch_vars
      <3> QED  BY <3>1, <3>2, <3>3
    <2>3. completed' \in Instructions!Machines
      BY <2>1, MachineType DEF Simulated
    <2>4. CASE Run \/ EndInstruction \/ EndData
      <3>1. inst_it' = 1 /\ pc' \in {"idle", "instruction", "decode"}
        BY <2>4 DEF Run, EndInstruction, EndData, IInv, SearchPosition, local_vars
      <3>2. completed' = Machine'
        BY <2>1, <3>1 DEF InHalfCycle
      <3> QED  BY <2>2, <2>3, <3>1, <3>2 DEF Simulated
    <2>5. CASE InstructionAbort \/ DecodeAbort \/ DataAbort
      <3>1. pc' = "aborted"
        BY <2>5 DEF InstructionAbort, DecodeAbort, DataAbort, Abort
      <3> QED  BY <2>2, <2>3, <3>1 DEF Simulated
    <2>6. CASE InstructionWordTime
      <3>1. pc = "instruction" /\ pc' = "instruction" /\ inst_it' \in 1 .. 3
        BY <2>1, <2>6 DEF InstructionWordTime, TypeOK
      <3>2. CASE inst_it' = 1
        <4>1. completed' = Machine'
          BY <2>1, <3>1, <3>2 DEF InHalfCycle
        <4> QED  BY <2>2, <2>3, <3>1, <3>2, <4>1 DEF Simulated
      <3>3. CASE inst_it' > 1
        <4>1. completed' = completed
          BY <2>1, <3>1, <3>3 DEF InHalfCycle
        <4>2. /\ inst_it = 1 => completed = Machine
              /\ inst_it > 1 => Fetched
          BY <3>1 DEF Simulated
        <4>3. Fetched'
          BY <2>6, <3>3, <4>1, <4>2, FetchSimulated
        <4> QED  BY <2>2, <2>3, <3>1, <3>3, <4>3 DEF Simulated
      <3> QED  BY <3>1, <3>2, <3>3
    <2>7. CASE BeginData
      <3>1. pc = "decode" /\ pc' = "data"
        BY <2>7 DEF BeginData
      <3>2. completed' = completed
        BY <2>1, <3>1 DEF InHalfCycle
      <3>3. completed = Machine /\ completed \in Instructions!Machines
        BY <3>1 DEF Simulated
      <3>4. Executing'
        BY <2>7, <3>2, <3>3, ExecutingBegins
      <3> QED  BY <2>2, <2>3, <3>1, <3>4 DEF Simulated
    <2>8. CASE DataWordTime
      <3>1. pc = "data" /\ pc' = "data"
        BY <2>8 DEF DataWordTime
      <3>2. completed' = completed
        BY <2>1, <3>1 DEF InHalfCycle
      <3>3. Executing /\ completed \in Instructions!Machines
        BY <3>1 DEF Simulated
      <3>4. Executing'
        BY <2>8, <3>2, <3>3, ExecutingKept
      <3> QED  BY <2>2, <2>3, <3>1, <3>4 DEF Simulated
    <2> QED
      BY <2>1, <2>2, <2>4, <2>5, <2>6, <2>7, <2>8 DEF Next, ProgramStart, RunStep
  <1>2. CASE UNCHANGED hvars
    <2>1. UNCHANGED <<completed, vars>>
      BY <1>2 DEF hvars
    <2>2. /\ UNCHANGED <<drum_storage, distributor, upper_accumulator, lower_accumulator,
                         overflow, storage_selection_error, error_stop, address_register,
                         program_register, operation_register, half_cycle, operation,
                         op_it, inst_it, pc, shift_count, control_mode>>
          /\ UNCHANGED switch_vars
      BY <2>1 DEF vars, machine_vars, drum_vars, register_vars, flag_vars, local_vars,
                  member_vars, switch_vars
    <2>3. Machine' = Machine
      BY <2>2 DEF Machine
    <2>4. /\ Addressed' = Addressed /\ Untouched' = Untouched
          /\ op_end' = op_end
      <3>1. Addressed' = Addressed
        BY <2>1, <2>2, SwitchesKept
      <3>2. Untouched' = Untouched /\ op_end' = op_end
        BY <2>1, <2>2 DEF Untouched, WorkedIs, op_end, op_seq
      <3> QED  BY <3>1, <3>2
    <2>5. Fetched => Fetched'
      BY <2>1, <2>2, <2>4 DEF Fetched, Readable
    <2>6. Executing => Executing'
      <3>1. Searched' = Searched
        BY <2>1, <2>2 DEF Searched, BranchTaken
      <3>2. DataLoaded' = DataLoaded /\ Added' = Added
        BY <2>1, <2>2, <2>4 DEF DataLoaded, WorkedIs, Readable, Added, Instructions!OperandOf
      <3>3. LoadEffect' = LoadEffect
        BY <2>2, <2>4, <3>2 DEF LoadEffect
      <3>4. ArithmeticEffect' = ArithmeticEffect
        BY <2>1, <2>2, <2>4, <3>2 DEF ArithmeticEffect, WorkedIs, Readable
      <3>5. StoreEffect' = StoreEffect
        BY <2>1, <2>2, <2>4
           DEF StoreEffect, StoreDone, WorkedIs, OnDrum, band_of_address, index_of_address,
               Instructions!StoredBy
      <3>6. ShiftEffect => ShiftEffect'
        BY <2>1, <2>2, ShiftedTheSame DEF ShiftEffect
      <3>7. IterativeEffect' = IterativeEffect
        BY <2>1, <2>2, <2>4 DEF IterativeEffect, WorkedIs, Readable
      <3>8. LookUpEffect' = LookUpEffect
        BY <2>1, <2>2, <2>4 DEF LookUpEffect, WorkedIs
      <3> QED
        BY <2>1, <2>2, <2>4, <3>1, <3>3, <3>4, <3>5, <3>6, <3>7, <3>8 DEF Executing
    <2> QED  BY <2>1, <2>2, <2>3, <2>5, <2>6 DEF Simulated
  <1> QED  BY <1>1, <1>2

----------------------------------------------------------------------------
(* Machines as records, field by field.                                       *)
MachineOf(s, d, u, l, p, o, a, h, v, e, x) ==
    [storage |-> s, distributor |-> d, upper |-> u, lower |-> l, program |-> p,
     operation |-> o, address |-> a, half_cycle |-> h, overflow |-> v,
     storage_selection_error |-> e, error_stop |-> x]

LEMMA MachineRecord ==
    ASSUME NEW m \in Instructions!Machines
    PROVE  m = MachineOf(m.storage, m.distributor, m.upper, m.lower, m.program,
                         m.operation, m.address, m.half_cycle, m.overflow,
                         m.storage_selection_error, m.error_stop)
  BY DEF MachineOf, Instructions!Machines

(* The machine of the half-cycle with only the operation done to it: the next *)
(* instruction has not been searched.                                        *)
WorkedOn(s, d, u, l, v, e) ==
    MachineOf(s, d, u, l, program_register, operation, completed.address, "data", v, e,
              completed.error_stop)

Worked ==
    WorkedOn(drum_storage, distributor, upper_accumulator, lower_accumulator, overflow,
             storage_selection_error)

LEMMA WorkedFrom ==
    ASSUME Executing, completed \in Instructions!Machines
    PROVE  completed = WorkedOn(completed.storage, completed.distributor, completed.upper,
                                completed.lower, completed.overflow,
                                completed.storage_selection_error)
  <1>1. /\ completed.operation = operation /\ completed.half_cycle = "data"
        /\ completed.program = program_register
    BY DEF Executing
  <1> QED  BY <1>1, MachineRecord DEF WorkedOn

LEMMA WorkedFields ==
    ASSUME NEW s, NEW d, NEW u, NEW l, NEW v, NEW e, NEW m, m = WorkedOn(s, d, u, l, v, e)
    PROVE  /\ m.storage = s /\ m.distributor = d /\ m.upper = u /\ m.lower = l
           /\ m.overflow = v /\ m.storage_selection_error = e
           /\ m.program = program_register /\ m.address = completed.address
           /\ m.error_stop = completed.error_stop
  BY DEF WorkedOn, MachineOf

(* At the end of the half-cycle the search has been done to it as well.       *)
LEMMA SequencedWorked ==
    ASSUME IInv, Executing, pc = "data", DataLoopEnded
    PROVE  Instructions!Sequenced(Worked, operation) = Machine
  <1> DEFINE b == IF BranchTaken THEN completed.address ELSE program_register.ia
             y == IF operation \in BranchOn8Ops
                  THEN Digit(Mag(distributor), PositionOf(operation)) \notin {8, 9}
                  ELSE completed.error_stop
             m == Worked
  <1>1. /\ m.distributor = distributor /\ m.upper = upper_accumulator
        /\ m.lower = lower_accumulator /\ m.overflow = overflow
        /\ m.program = program_register /\ m.address = completed.address
        /\ m.error_stop = completed.error_stop
    BY DEF Worked, WorkedOn, MachineOf
  <1>2. inst_it = 3 /\ half_cycle = "instruction" /\ operation_register = Blank
    <2>1. inst_it = 3
      BY DEF DataLoopEnded
    <2> QED  BY <2>1 DEF IInv, SearchPosition, OperationPending, TypeOK, HalfCycles
  <1>3. address_register = b /\ error_stop = y
    BY <1>2 DEF Executing, Searched
  <1>4. Instructions!Branches(m, operation) <=> BranchTaken
    <2> HIDE DEF m
    <2> QED  BY <1>1, SameWords, SameCodes, SameClasses
             DEF Instructions!Branches, BranchTaken
  <1>5. Instructions!Sequenced(m, operation) =
           [m EXCEPT !.address = b, !.operation = Blank, !.half_cycle = "instruction",
                     !.error_stop = y]
    <2> HIDE DEF m
    <2> QED  BY <1>1, <1>4, SameWords, SameClasses DEF Instructions!Sequenced
  <1> HIDE DEF b, y
  <1>6. [m EXCEPT !.address = b, !.operation = Blank, !.half_cycle = "instruction",
                  !.error_stop = y]
           = [[[[m EXCEPT !.address = b] EXCEPT !.operation = Blank]
                  EXCEPT !.half_cycle = "instruction"] EXCEPT !.error_stop = y]
    OBVIOUS
  <1> DEFINE m1 == [m EXCEPT !.address = b]
             m2 == [m1 EXCEPT !.operation = Blank]
             m3 == [m2 EXCEPT !.half_cycle = "instruction"]
             m4 == [m3 EXCEPT !.error_stop = y]
  <1>7. m1 = MachineOf(drum_storage, distributor, upper_accumulator, lower_accumulator,
                       program_register, operation, b, "data", overflow,
                       storage_selection_error, completed.error_stop)
    BY DEF Worked, WorkedOn, MachineOf
  <1> HIDE DEF m1
  <1>8. m2 = MachineOf(drum_storage, distributor, upper_accumulator, lower_accumulator,
                       program_register, Blank, b, "data", overflow,
                       storage_selection_error, completed.error_stop)
    BY <1>7 DEF MachineOf
  <1> HIDE DEF m2
  <1>9. m3 = MachineOf(drum_storage, distributor, upper_accumulator, lower_accumulator,
                       program_register, Blank, b, "instruction", overflow,
                       storage_selection_error, completed.error_stop)
    BY <1>8 DEF MachineOf
  <1> HIDE DEF m3
  <1>10. m4 = MachineOf(drum_storage, distributor, upper_accumulator, lower_accumulator,
                        program_register, Blank, b, "instruction", overflow,
                        storage_selection_error, y)
    BY <1>9 DEF MachineOf
  <1> HIDE DEF m4
  <1>11. Machine = MachineOf(drum_storage, distributor, upper_accumulator, lower_accumulator,
                             program_register, Blank, b, "instruction", overflow,
                             storage_selection_error, y)
    BY <1>2, <1>3 DEF Machine, MachineOf
  <1> QED  BY <1>5, <1>6, <1>10, <1>11 DEF m1, m2, m3, m4

(* What the operation has done at its end, in one step.                       *)
LEMMA StepLessWorked ==
    ASSUME Executing, completed \in Instructions!Machines, operation \in StepLessOps
    PROVE  completed = Worked
  BY WorkedFrom DEF Executing, Untouched, WorkedIs, Worked

LEMMA LoadedIs ==
    ASSUME Executing, completed \in Instructions!Machines
    PROVE  Instructions!Loaded(completed)
              = WorkedOn(completed.storage, Addressed, completed.upper, completed.lower,
                         completed.overflow, completed.storage_selection_error)
  <1> DEFINE w == Addressed
             c == completed
  <1>1. Instructions!Loaded(c) = [c EXCEPT !.distributor = w]
    BY DEF Instructions!Loaded, Addressed
  <1>2. c = WorkedOn(c.storage, c.distributor, c.upper, c.lower, c.overflow,
                     c.storage_selection_error)
    BY WorkedFrom
  <1> HIDE DEF w, c
  <1>3. [c EXCEPT !.distributor = w]
           = WorkedOn(c.storage, w, c.upper, c.lower, c.overflow,
                      c.storage_selection_error)
    BY <1>2 DEF WorkedOn, MachineOf
  <1> QED  BY <1>1, <1>3 DEF w, c

LEMMA ArithmeticWorked ==
    ASSUME Executing, completed \in Instructions!Machines,
           operation \in AddOps \cup ResetAddOps, op_it = 5
    PROVE  /\ Readable(completed.address)
           /\ Instructions!AfterArithmetic(Instructions!Loaded(completed), operation)
                 = Worked
  <1> DEFINE m == Instructions!Loaded(completed)
             w == Instructions!OperandOf(operation, Addressed)
             c == completed
  <1>1. /\ Readable(completed.address)
        /\ WorkedIs(completed.storage, Addressed, Added.upper, Added.lower,
                    Added.carry > 0, completed.storage_selection_error)
    BY DEF Executing, ArithmeticEffect, ArithmeticOps
  <1>2. m = WorkedOn(c.storage, Addressed, c.upper, c.lower, c.overflow,
                     c.storage_selection_error)
    BY LoadedIs
  <1>3. /\ m.distributor = Addressed /\ m.upper = c.upper /\ m.lower = c.lower
    <2> HIDE DEF m
    <2> QED  BY <1>2, WorkedFields
  <1>4. Instructions!AfterArithmetic(m, operation) =
           [m EXCEPT !.upper = Added.upper, !.lower = Added.lower,
                     !.overflow = (Added.carry > 0)]
    <2> HIDE DEF m
    <2>1. CASE operation \in AddOps
      <3> DEFINE sum == add_to_accumulator(c.upper, c.lower, w, operation \in UpperOps)
      <3>1. operation \notin ResetAddOps
        BY <2>1, OperationClasses
      <3> HIDE DEF sum
      <3>2. Added = sum
        BY <2>1, <3>1 DEF Added, sum
      <3>3. Instructions!AfterArithmetic(m, operation) =
               [m EXCEPT !.upper = sum.upper, !.lower = sum.lower,
                         !.overflow = (sum.carry > 0)]
        BY <1>3, <2>1, <3>1, SameClasses, SameAddition
           DEF Instructions!AfterArithmetic, sum
      <3> QED  BY <3>2, <3>3
    <2>2. CASE operation \in ResetAddOps \cap UpperOps
      <3>1. operation \notin AddOps
        BY <2>2, OperationClasses
      <3>2. Added = [upper |-> w, lower |-> Zero(w.sign), carry |-> 0]
        BY <2>2, <3>1 DEF Added
      <3>3. Instructions!AfterArithmetic(m, operation) =
               [m EXCEPT !.upper = w, !.lower = Zero(w.sign), !.overflow = FALSE]
        BY <1>3, <2>2, <3>1, SameClasses, SameWords DEF Instructions!AfterArithmetic
      <3>4. (0 > 0) = FALSE
        OBVIOUS
      <3> HIDE DEF w
      <3>5. Added.upper = w /\ Added.lower = Zero(w.sign) /\ Added.carry = 0
        BY <3>2
      <3> QED  BY <3>3, <3>4, <3>5
    <2>3. CASE operation \in ResetAddOps \ UpperOps
      <3>1. operation \notin AddOps
        BY <2>3, OperationClasses
      <3>2. Added = [upper |-> Zero(w.sign), lower |-> w, carry |-> 0]
        BY <2>3, <3>1 DEF Added
      <3>3. Instructions!AfterArithmetic(m, operation) =
               [m EXCEPT !.upper = Zero(w.sign), !.lower = w, !.overflow = FALSE]
        BY <1>3, <2>3, <3>1, SameClasses, SameWords DEF Instructions!AfterArithmetic
      <3>4. (0 > 0) = FALSE
        OBVIOUS
      <3> HIDE DEF w
      <3>5. Added.upper = Zero(w.sign) /\ Added.lower = w /\ Added.carry = 0
        BY <3>2
      <3> QED  BY <3>3, <3>4, <3>5
    <2> QED  BY <2>1, <2>2, <2>3
  <1> DEFINE U == Added.upper
             L == Added.lower
             V == Added.carry > 0
             D == Addressed
             m1 == [m EXCEPT !.upper = U]
             m2 == [m1 EXCEPT !.lower = L]
             m3 == [m2 EXCEPT !.overflow = V]
  <1>5. Instructions!AfterArithmetic(m, operation) = m3
    BY <1>4
  <1> HIDE DEF U, L, V, D, m
  <1>6. m1 = WorkedOn(c.storage, D, U, c.lower, c.overflow, c.storage_selection_error)
    BY <1>2 DEF D, WorkedOn, MachineOf
  <1> HIDE DEF m1
  <1>7. m2 = WorkedOn(c.storage, D, U, L, c.overflow, c.storage_selection_error)
    BY <1>6 DEF WorkedOn, MachineOf
  <1> HIDE DEF m2
  <1>8. m3 = WorkedOn(c.storage, D, U, L, V, c.storage_selection_error)
    BY <1>7 DEF WorkedOn, MachineOf
  <1> HIDE DEF m3
  <1>9. m3 = Worked
    BY <1>1, <1>8 DEF Worked, WorkedIs, U, L, V, D
  <1> QED  BY <1>1, <1>5, <1>9 DEF m

LEMMA StoreWorked ==
    ASSUME IInv, Executing, completed \in Instructions!Machines, operation \in StoreOps,
           op_it = op_end
    PROVE  Instructions!Stored(
              [completed EXCEPT !.distributor = Instructions!StoredBy(completed, operation)],
              completed.address, Instructions!StoredBy(completed, operation)) = Worked
  <1> DEFINE w == Instructions!StoredBy(completed, operation)
             c == completed
             m == [c EXCEPT !.distributor = w]
             b == band_of_address(c.address)
             i == index_of_address(c.address)
             s == c.storage
             t == [s EXCEPT ![b] = [@ EXCEPT ![i] = w]]
  <1>1. StoreDone(w)
    BY DEF Executing, StoreEffect
  <1>2. Instructions!Stored(m, c.address, w) =
           IF OnDrum(c.address) THEN [m EXCEPT !.storage[b][i] = w]
           ELSE [m EXCEPT !.storage_selection_error = TRUE]
    BY SamePlaces DEF Instructions!Stored
  <1>3. IF OnDrum(c.address)
        THEN Worked = WorkedOn(t, w, c.upper, c.lower, c.overflow,
                               c.storage_selection_error)
        ELSE Worked = WorkedOn(c.storage, w, c.upper, c.lower, c.overflow, TRUE)
    <2> HIDE DEF w
    <2> QED  BY <1>1 DEF StoreDone, Worked, WorkedIs
  <1>4. c = WorkedOn(c.storage, c.distributor, c.upper, c.lower, c.overflow,
                     c.storage_selection_error)
    BY WorkedFrom
  <1> HIDE DEF w, c, b, i
  <1>5. m = WorkedOn(c.storage, w, c.upper, c.lower, c.overflow,
                     c.storage_selection_error)
    BY <1>4 DEF WorkedOn, MachineOf
  <1> HIDE DEF m
  <1>6. m.storage = s
    BY <1>5, WorkedFields
  <1> HIDE DEF s
  <1>7. [m EXCEPT !.storage[b][i] = w] = [m EXCEPT !.storage = t]
    BY <1>6
  <1> HIDE DEF t
  <1>8. [m EXCEPT !.storage = t]
           = WorkedOn(t, w, c.upper, c.lower, c.overflow, c.storage_selection_error)
    BY <1>5 DEF WorkedOn, MachineOf
  <1> DEFINE y == TRUE
  <1> HIDE DEF y
  <1>9. [m EXCEPT !.storage_selection_error = y]
           = WorkedOn(c.storage, w, c.upper, c.lower, c.overflow, y)
    BY <1>5 DEF WorkedOn, MachineOf
  <1>10. Instructions!Stored(m, c.address, w) = Worked
    BY <1>2, <1>3, <1>7, <1>8, <1>9 DEF t, s, y
  <1> QED  BY <1>10 DEF w, c, m

LEMMA MagnitudesWorked ==
    ASSUME Executing, completed \in Instructions!Machines, NEW d
    PROVE  Instructions!WithMagnitudes(completed, d) =
              WorkedOn(completed.storage, completed.distributor,
                       WordOf(d.upper, completed.upper.sign),
                       WordOf(d.lower, completed.lower.sign), completed.overflow,
                       completed.storage_selection_error)
  <1> DEFINE c == completed
             U == WordOf(d.upper, c.upper.sign)
             L == WordOf(d.lower, c.lower.sign)
             m1 == [c EXCEPT !.upper = U]
             m2 == [m1 EXCEPT !.lower = L]
  <1>1. Instructions!WithMagnitudes(c, d) = m2
    BY SameWords DEF Instructions!WithMagnitudes
  <1>2. c = WorkedOn(c.storage, c.distributor, c.upper, c.lower, c.overflow,
                     c.storage_selection_error)
    BY WorkedFrom
  <1> HIDE DEF U, L, c
  <1>3. m1 = WorkedOn(c.storage, c.distributor, U, c.lower, c.overflow,
                      c.storage_selection_error)
    BY <1>2 DEF WorkedOn, MachineOf
  <1> HIDE DEF m1
  <1>4. m2 = WorkedOn(c.storage, c.distributor, U, L, c.overflow,
                      c.storage_selection_error)
    BY <1>3 DEF WorkedOn, MachineOf
  <1> QED  BY <1>1, <1>4 DEF U, L, c

LEMMA ShiftWorked ==
    ASSUME IInv, Executing, completed \in Instructions!Machines, operation \in ShiftOps,
           op_it = op_end
    PROVE  \/ Instructions!AfterShift(completed, operation) = Worked
           \/ /\ operation = shift_and_round
              /\ Instructions!Places(completed.address) = 1
              /\ Instructions!AfterShift(completed, shift_right) = Worked
  <1> DEFINE c == completed
             n == PlacesToShift
  <1>1. Shifted
    <2>1. op_it > 2
      BY ClassSteps, StepOfThree DEF IInv, TypeOK
    <2> QED  BY <2>1 DEF Executing, ShiftEffect
  <1>2. Mag(c.upper) = Upper /\ Mag(c.lower) = Lower /\ Instructions!Places(c.address) = n
    BY DEF Upper, Lower, PlacesToShift
  <1>3. ASSUME NEW d, Instructions!AfterShift(c, operation)
                         = Instructions!WithMagnitudes(c, d),
               ShiftedBy(d)
        PROVE  Instructions!AfterShift(c, operation) = Worked
    BY <1>3, MagnitudesWorked DEF ShiftedBy, ShiftedTo, WorkedIs, Worked
  <1>4. CASE operation = shift_right
    <2> DEFINE d == Instructions!Right(Upper, Lower, n)
    <2>1. ShiftedBy(d)
      BY <1>1, <1>4 DEF Shifted
    <2> HIDE DEF n
    <2>2. Instructions!AfterShift(c, operation) = Instructions!WithMagnitudes(c, d)
      BY <1>2, <1>4, ShiftNames, SameCodes, SameWords DEF Instructions!AfterShift
    <2> HIDE DEF d
    <2> QED  BY <1>3, <2>1, <2>2
  <1>5. CASE operation = shift_left
    <2> DEFINE d == Instructions!Left(Upper, Lower, n)
    <2>1. ShiftedBy(d)
      BY <1>1, <1>5 DEF Shifted, LeftShifted
    <2> HIDE DEF n
    <2>2. Instructions!AfterShift(c, operation) = Instructions!WithMagnitudes(c, d)
      BY <1>2, <1>5, ShiftNames, SameCodes, SameWords DEF Instructions!AfterShift
    <2> HIDE DEF d
    <2> QED  BY <1>3, <2>1, <2>2
  <1>6. CASE operation = shift_and_round /\ n # 1
    <2> DEFINE d == Instructions!Rounded(Upper, Lower, n)
    <2>1. ShiftedBy(d)
      BY <1>1, <1>6 DEF Shifted, RoundedOrDropped
    <2> HIDE DEF n
    <2>2. Instructions!AfterShift(c, operation) = Instructions!WithMagnitudes(c, d)
      BY <1>2, <1>6, ShiftNames, SameCodes, SameWords DEF Instructions!AfterShift
    <2> HIDE DEF d
    <2> QED  BY <1>3, <2>1, <2>2
  <1>7. CASE operation = shift_and_round /\ n = 1
    <2> DEFINE d == Instructions!Right(Upper, Lower, n)
    <2>1. ShiftedBy(d)
      BY <1>1, <1>7 DEF Shifted, RoundedOrDropped
    <2> HIDE DEF n
    <2>2. Instructions!AfterShift(c, shift_right) = Instructions!WithMagnitudes(c, d)
      BY <1>2, ShiftNames, SameCodes, SameWords DEF Instructions!AfterShift
    <2> HIDE DEF d
    <2>3. Instructions!AfterShift(c, shift_right) = Worked
      BY <2>1, <2>2, MagnitudesWorked DEF ShiftedBy, ShiftedTo, WorkedIs, Worked
    <2> QED  BY <1>2, <1>7, <2>3
  <1>8. CASE operation = shift_left_and_count
    <2> DEFINE k == Instructions!Normalizing(Upper, Lower, n)
               d == Instructions!Left(Upper, Lower, k)
               count == IF k = 0 THEN 0 ELSE (Base - n) + k
               low == (d.lower - (d.lower % OpBase)) + count
               v == HighDigit(d.upper) = 0
               e == [d EXCEPT !.lower = low]
               m == Instructions!WithMagnitudes(c, e)
    <2>1. ShiftedTo(d.upper, low, v)
      BY <1>1, <1>8 DEF Shifted, CountInserted, LeftShifted
    <2>2. d = [upper |-> d.upper, lower |-> d.lower]
      <3> HIDE DEF k
      <3> QED  BY DEF Instructions!Left
    <2> HIDE DEF n
    <2>3. Instructions!AfterShift(c, operation) = [m EXCEPT !.overflow = v]
      BY <1>2, <1>8, ShiftNames, SameCodes, SameWords, SameSets
         DEF Instructions!AfterShift
    <2> HIDE DEF d, low, v
    <2>4. e.upper = d.upper /\ e.lower = low
      BY <2>2
    <2>5. m = WorkedOn(c.storage, c.distributor, WordOf(d.upper, c.upper.sign),
                       WordOf(low, c.lower.sign), c.overflow, c.storage_selection_error)
      <3> HIDE DEF e
      <3> QED  BY <2>4, MagnitudesWorked
    <2> HIDE DEF m
    <2>6. [m EXCEPT !.overflow = v]
             = WorkedOn(c.storage, c.distributor, WordOf(d.upper, c.upper.sign),
                        WordOf(low, c.lower.sign), v, c.storage_selection_error)
      BY <2>5 DEF WorkedOn, MachineOf
    <2> QED  BY <2>1, <2>3, <2>6 DEF ShiftedTo, WorkedIs, Worked
  <1> QED  BY <1>4, <1>5, <1>6, <1>7, <1>8 DEF ShiftOps

(* What table lookup, multiplication and division leave is open: the          *)
(* registers they end with are the ones Executed asks for.                   *)
LEMMA IterativeWorked ==
    ASSUME IInv, Executing, completed \in Instructions!Machines,
           operation \in DivideOps \cup {multiply}, op_it = op_end
    PROVE  /\ Readable(completed.address)
           /\ completed.overflow => overflow
           /\ [Instructions!Loaded(completed) EXCEPT
                  !.upper = upper_accumulator, !.lower = lower_accumulator,
                  !.overflow = overflow] = Worked
  <1> DEFINE c == completed
             m == Instructions!Loaded(c)
             m1 == [m EXCEPT !.upper = upper_accumulator]
             m2 == [m1 EXCEPT !.lower = lower_accumulator]
             m3 == [m2 EXCEPT !.overflow = overflow]
  <1>1. op_it > 2
    BY ClassSteps, StepOfFour DEF IInv, TypeOK
  <1>2. /\ Readable(c.address)
        /\ c.overflow => overflow
        /\ WorkedIs(c.storage, Addressed, upper_accumulator, lower_accumulator, overflow,
                    c.storage_selection_error)
    BY <1>1 DEF Executing, IterativeEffect
  <1>3. m = WorkedOn(c.storage, Addressed, c.upper, c.lower, c.overflow,
                     c.storage_selection_error)
    BY LoadedIs
  <1>4. [m EXCEPT !.upper = upper_accumulator, !.lower = lower_accumulator,
                  !.overflow = overflow] = m3
    OBVIOUS
  <1> HIDE DEF m
  <1>5. m1 = WorkedOn(c.storage, Addressed, upper_accumulator, c.lower, c.overflow,
                      c.storage_selection_error)
    BY <1>3 DEF WorkedOn, MachineOf
  <1> HIDE DEF m1
  <1>6. m2 = WorkedOn(c.storage, Addressed, upper_accumulator, lower_accumulator,
                      c.overflow, c.storage_selection_error)
    BY <1>5 DEF WorkedOn, MachineOf
  <1> HIDE DEF m2
  <1>7. m3 = WorkedOn(c.storage, Addressed, upper_accumulator, lower_accumulator,
                      overflow, c.storage_selection_error)
    BY <1>6 DEF WorkedOn, MachineOf
  <1> HIDE DEF m3
  <1>8. m3 = Worked
    BY <1>2, <1>7 DEF Worked, WorkedIs
  <1> QED  BY <1>2, <1>4, <1>8 DEF m

LEMMA LookUpWorked ==
    ASSUME IInv, Executing, completed \in Instructions!Machines,
           operation = table_lookup, op_it = op_end
    PROVE  /\ lower_accumulator.da \in Addresses
           /\ [completed EXCEPT !.lower.da = lower_accumulator.da] = Worked
  <1> DEFINE c == completed
             a == lower_accumulator.da
             l == c.lower
             L == [l EXCEPT !.da = a]
  <1>1. op_it = 5
    BY ClassSteps, StepOfFour DEF IInv, TypeOK
  <1>2. /\ a \in Addresses
        /\ WorkedIs(c.storage, c.distributor, c.upper, L, c.overflow,
                    c.storage_selection_error)
    BY <1>1 DEF Executing, LookUpEffect
  <1>3. c = WorkedOn(c.storage, c.distributor, c.upper, c.lower, c.overflow,
                     c.storage_selection_error)
    BY WorkedFrom
  <1>4. [c EXCEPT !.lower.da = a] = [c EXCEPT !.lower = L]
    <2> HIDE DEF c, a
    <2> QED  OBVIOUS
  <1> HIDE DEF L, c
  <1>5. [c EXCEPT !.lower = L]
           = WorkedOn(c.storage, c.distributor, c.upper, L, c.overflow,
                      c.storage_selection_error)
    BY <1>3 DEF WorkedOn, MachineOf
  <1> QED  BY <1>2, <1>4, <1>5 DEF Worked, WorkedIs, c

----------------------------------------------------------------------------
(* Every step is a step of the instruction set, or changes nothing there.     *)
LEMMA SwitchFields ==
    /\ Switches.storage_entry = storage_entry /\ Switches.control_mode = control_mode
    /\ Switches.cycle_mode = cycle_mode /\ Switches.overflow_mode = overflow_mode
  BY DEF Switches

LEMMA MachineFields ==
    /\ Machine.operation = operation_register /\ Machine.address = address_register
    /\ Machine.half_cycle = half_cycle /\ Machine.overflow = overflow
    /\ Machine.error_stop = error_stop /\ Machine.upper = upper_accumulator
    /\ Machine.lower = lower_accumulator
  BY DEF Machine

LEMMA OperationExecuted ==
    ASSUME IInv, Executing, completed \in Instructions!Machines, pc = "data", DataLoopEnded
    PROVE  /\ operation \in Instructions!LoadingOps => Readable(completed.address)
           /\ Instructions!Executed(completed, operation, Machine)
  <1>1. Instructions!Sequenced(Worked, operation) = Machine
    BY SequencedWorked
  <1>2. operation \in ValidOperations /\ op_it = op_end /\ op_it \in 1 .. 5
    BY DEF IInv, SearchPosition, DataLoopEnded, TypeOK
  <1>3. CASE operation \in StepLessOps
    <2>1. completed = Worked
      BY <1>3, StepLessWorked
    <2>2. operation \notin Instructions!LoadingOps
      BY <1>3, DurationClasses, SameClasses DEF ArithmeticOps, LoadOps
    <2> QED  BY <1>1, <1>3, <2>1, <2>2, SameClasses DEF Instructions!Executed
  <1>4. CASE operation = load_distributor
    <2>1. op_it = 3
      BY <1>2, <1>4, LoadSteps DEF LoadOps
    <2>2. DataLoaded
      BY <1>4, <2>1 DEF Executing, LoadEffect
    <2>3. Instructions!Loaded(completed) = Worked
      BY <2>2, LoadedIs DEF DataLoaded, WorkedIs, Worked
    <2> QED  BY <1>1, <1>4, <2>2, <2>3, SameCodes DEF Instructions!Executed, DataLoaded
  <1>5. CASE operation \in AddOps \cup ResetAddOps
    <2>1. op_it = 5
      BY <1>2, <1>5, ClassSteps, StepOfFour DEF ArithmeticOps
    <2>2. /\ Readable(completed.address)
          /\ Instructions!AfterArithmetic(Instructions!Loaded(completed), operation)
                = Worked
      BY <1>5, <2>1, ArithmeticWorked
    <2> QED  BY <1>1, <1>5, <2>2, SameClasses DEF Instructions!Executed
  <1>6. CASE operation \in StoreOps
    <2>1. operation \notin Instructions!LoadingOps
      BY <1>6, DurationClasses, SameClasses DEF ArithmeticOps, LoadOps
    <2> QED  BY <1>1, <1>2, <1>6, <2>1, StoreWorked, SameClasses DEF Instructions!Executed
  <1>7. CASE operation \in ShiftOps
    <2>1. operation \notin Instructions!LoadingOps
      BY <1>7, DurationClasses, SameClasses DEF ArithmeticOps, LoadOps
    <2>2. \/ Instructions!AfterShift(completed, operation) = Worked
          \/ /\ operation = shift_and_round
             /\ Instructions!Places(completed.address) = 1
             /\ Instructions!AfterShift(completed, shift_right) = Worked
      BY <1>2, <1>7, ShiftWorked
    <2> QED
      BY <1>1, <1>7, <2>1, <2>2, SameClasses, SameCodes DEF Instructions!Executed
  <1>8. CASE operation \in DivideOps \cup {multiply}
    <2>1. /\ Readable(completed.address)
          /\ completed.overflow => overflow
          /\ [Instructions!Loaded(completed) EXCEPT
                 !.upper = upper_accumulator, !.lower = lower_accumulator,
                 !.overflow = overflow] = Worked
      BY <1>2, <1>8, IterativeWorked
    <2>2. /\ upper_accumulator \in Word /\ lower_accumulator \in Word
          /\ overflow \in BOOLEAN
      BY DEF IInv, TypeOK
    <2>3. /\ Machine.upper = upper_accumulator /\ Machine.lower = lower_accumulator
          /\ Machine.overflow = overflow
      BY MachineFields
    <2> QED
      BY <1>1, <1>8, <2>1, <2>2, <2>3, SameClasses, SameCodes, SameSets
         DEF Instructions!Executed
  <1>9. CASE operation = table_lookup
    <2>1. /\ lower_accumulator.da \in Addresses
          /\ [completed EXCEPT !.lower.da = lower_accumulator.da] = Worked
      BY <1>2, <1>9, LookUpWorked
    <2>2. operation \notin Instructions!LoadingOps
      BY <1>9, DurationClasses, SameClasses DEF ArithmeticOps, LoadOps
    <2>3. Machine.lower = lower_accumulator
      BY MachineFields
    <2> QED
      BY <1>1, <1>9, <2>1, <2>2, <2>3, SameCodes, SameSets DEF Instructions!Executed
  <1> QED  BY <1>2, <1>3, <1>4, <1>5, <1>6, <1>7, <1>8, <1>9 DEF ValidOperations

LEMMA EndDataImplements ==
    ASSUME IInv, Simulated, EndData, completed' = Machine'
    PROVE  Instructions!DataHalfCycle
  <1>1. pc = "data" /\ DataLoopEnded /\ UNCHANGED machine_vars
    BY DEF EndData
  <1>2. Executing /\ completed \in Instructions!Machines
    BY <1>1 DEF Simulated
  <1>3. Machine' = Machine /\ Switches' = Switches
    BY <1>1 DEF machine_vars, drum_vars, register_vars, flag_vars, switch_vars, Machine,
                Switches
  <1>4. completed' = Machine
    BY <1>3
  <1>5. completed.operation = operation /\ completed.half_cycle = "data"
    BY <1>2 DEF Executing
  <1>6. operation \in ValidOperations
    BY <1>1 DEF IInv, SearchPosition
  <1>7. /\ operation \in Instructions!LoadingOps => Readable(completed.address)
        /\ Instructions!Executed(completed, operation, completed')
    BY <1>1, <1>2, <1>4, OperationExecuted
  <1>8. completed'.overflow = overflow /\ completed'.error_stop = error_stop
    BY <1>4, MachineFields
  <1>9. Status = "running"
    BY <1>1 DEF Status
  <1>10. Status' = Instructions!StatusAfter(
                      \/ Switches.cycle_mode = "half"
                      \/ completed.operation = Instructions!stop
                      \/ completed'.overflow /\ Switches.overflow_mode = "stop"
                      \/ completed'.error_stop)
    <2> DEFINE halts == \/ Switches.cycle_mode = "half"
                        \/ completed.operation = Instructions!stop
                        \/ completed'.overflow /\ Switches.overflow_mode = "stop"
                        \/ completed'.error_stop
    <2>1. halts <=> Stops
      BY <1>5, <1>8, SwitchFields, SameCodes DEF Stops
    <2>2. pc' = IF Stops THEN "idle" ELSE "instruction"
      BY DEF EndData
    <2>3. Status' = IF Stops THEN "idle" ELSE "running"
      BY <2>2 DEF Status
    <2> HIDE DEF halts
    <2>4. Instructions!StatusAfter(halts) = IF Stops THEN "idle" ELSE "running"
      BY <2>1 DEF Instructions!StatusAfter
    <2> QED  BY <2>3, <2>4 DEF halts
  <1> QED
    BY <1>3, <1>5, <1>6, <1>7, <1>9, <1>10, SameClasses, SamePlaces
       DEF Instructions!DataHalfCycle

LEMMA RunImplements ==
    ASSUME IInv, Simulated, Run, completed' = Machine'
    PROVE  Instructions!Start
  <1>1. pc = "idle" /\ pc' \in {"instruction", "decode"} /\ UNCHANGED machine_vars
    BY DEF Run
  <1>2. Machine' = Machine /\ Switches' = Switches
    BY <1>1 DEF machine_vars, drum_vars, register_vars, flag_vars, switch_vars, Machine,
                Switches
  <1>3. completed' = completed /\ Switches.control_mode # "manual"
    BY <1>1, <1>2, SwitchFields DEF Simulated
  <1>4. Status = "idle" /\ Status' = "running"
    BY <1>1 DEF Status
  <1> QED  BY <1>2, <1>3, <1>4 DEF Instructions!Start

LEMMA EndInstructionImplements ==
    ASSUME IInv, Simulated, EndInstruction, completed' = Machine'
    PROVE  Instructions!InstructionHalfCycle
  <1>1. /\ pc = "instruction" /\ inst_it = 3 /\ UNCHANGED machine_vars
        /\ pc' = IF cycle_mode = "half" THEN "idle" ELSE "decode"
    BY DEF EndInstruction
  <1>2. Machine' = Machine /\ Switches' = Switches
    BY <1>1 DEF machine_vars, drum_vars, register_vars, flag_vars, switch_vars, Machine,
                Switches
  <1>3. /\ Fetched /\ completed \in Instructions!Machines /\ inst_it = 3
    BY <1>1 DEF Simulated
  <1> DEFINE w == Addressed
             c == completed
             p == program_register
  <1>4. /\ c.half_cycle = "instruction" /\ Readable(c.address)
        /\ p = Unsigned(w) /\ address_register = p.da
        /\ drum_storage = c.storage /\ distributor = c.distributor
        /\ upper_accumulator = c.upper /\ lower_accumulator = c.lower
        /\ overflow = c.overflow
        /\ storage_selection_error = c.storage_selection_error
        /\ error_stop = c.error_stop
    BY <1>3 DEF Fetched, Untouched, WorkedIs
  <1>5. operation_register = p.op /\ half_cycle = "data"
    BY <1>1 DEF IInv, OperationPending, SearchPosition
  <1>6. p.op = w.op /\ p.da = w.da
    <2> HIDE DEF p, w
    <2> QED  BY <1>4 DEF Unsigned
  <1> DEFINE o == w.op
             a == w.da
             m1 == [c EXCEPT !.program = p]
             m2 == [m1 EXCEPT !.operation = o]
             m3 == [m2 EXCEPT !.address = a]
             m4 == [m3 EXCEPT !.half_cycle = "data"]
  <1>7. c = MachineOf(c.storage, c.distributor, c.upper, c.lower, c.program, c.operation,
                      c.address, c.half_cycle, c.overflow, c.storage_selection_error,
                      c.error_stop)
    BY <1>3, MachineRecord
  <1>8. Machine = MachineOf(c.storage, c.distributor, c.upper, c.lower, p, o, a, "data",
                            c.overflow, c.storage_selection_error, c.error_stop)
    <2> HIDE DEF w, c
    <2> QED  BY <1>4, <1>5, <1>6 DEF Machine, MachineOf
  <1>9. [c EXCEPT !.program = Unsigned(w), !.operation = w.op, !.address = w.da,
                  !.half_cycle = "data"] = m4
    BY <1>4
  <1> HIDE DEF w, c, p, o, a
  <1>10. m1 = MachineOf(c.storage, c.distributor, c.upper, c.lower, p, c.operation,
                        c.address, c.half_cycle, c.overflow, c.storage_selection_error,
                        c.error_stop)
    BY <1>7 DEF MachineOf
  <1> HIDE DEF m1
  <1>11. m2 = MachineOf(c.storage, c.distributor, c.upper, c.lower, p, o,
                        c.address, c.half_cycle, c.overflow, c.storage_selection_error,
                        c.error_stop)
    BY <1>10 DEF MachineOf
  <1> HIDE DEF m2
  <1>12. m3 = MachineOf(c.storage, c.distributor, c.upper, c.lower, p, o, a,
                        c.half_cycle, c.overflow, c.storage_selection_error, c.error_stop)
    BY <1>11 DEF MachineOf
  <1> HIDE DEF m3
  <1>13. m4 = MachineOf(c.storage, c.distributor, c.upper, c.lower, p, o, a, "data",
                        c.overflow, c.storage_selection_error, c.error_stop)
    BY <1>12 DEF MachineOf
  <1> HIDE DEF m4
  <1>14. completed' = [completed EXCEPT !.program = Instructions!Unsigned(Addressed),
                          !.operation = Addressed.op, !.address = Addressed.da,
                          !.half_cycle = "data"]
    BY <1>2, <1>8, <1>9, <1>13, SameWords DEF w, c
  <1>15. Status = "running" /\ Status' = Instructions!StatusAfter(Switches.cycle_mode = "half")
    <2>1. Status = "running" /\ Status' = IF cycle_mode = "half" THEN "idle" ELSE "running"
      BY <1>1 DEF Status
    <2> QED  BY <2>1, SwitchFields DEF Instructions!StatusAfter
  <1> QED
    BY <1>2, <1>4, <1>14, <1>15, SamePlaces
       DEF Instructions!InstructionHalfCycle, Addressed, c

(* The failed assertions are the failures of the instruction set.             *)
LEMMA AbortImplements ==
    ASSUME IInv, Simulated, InstructionAbort \/ DecodeAbort \/ DataAbort,
           completed' = completed
    PROVE  Instructions!Fail
  <1>1. Abort
    BY DEF InstructionAbort, DecodeAbort, DataAbort
  <1>2. pc' = "aborted" /\ UNCHANGED switch_vars
    BY <1>1 DEF Abort, machine_vars
  <1>3. Switches' = Switches /\ Status' = "aborted"
    BY <1>2 DEF Switches, switch_vars, Status
  <1>4. CASE InstructionAbort
    <2>1. pc = "instruction" /\ inst_it = 1 /\ ~Readable(address_register)
      BY <1>4 DEF InstructionAbort, InstructionAborts
    <2>2. completed = Machine /\ half_cycle = "instruction"
      BY <2>1 DEF Simulated, IInv, SearchPosition, TypeOK, HalfCycles
    <2>3. Status = "running"
      BY <2>1 DEF Status
    <2> QED
      BY <1>3, <2>1, <2>2, <2>3, MachineFields, SamePlaces DEF Instructions!Fail
  <1>5. CASE DecodeAbort
    <2>1. pc = "decode" /\ operation_register \notin ValidOperations
      BY <1>5 DEF DecodeAbort
    <2>2. completed = Machine /\ half_cycle = "data"
      BY <2>1 DEF Simulated, IInv, OperationPending
    <2>3. Status = "running"
      BY <2>1 DEF Status
    <2> QED
      BY <1>3, <2>1, <2>2, <2>3, MachineFields, SameClasses DEF Instructions!Fail
  <1>6. CASE DataAbort
    <2>1. pc = "data" /\ DataAborts
      BY <1>6 DEF DataAbort
    <2>2. Executing
      BY <2>1 DEF Simulated
    <2>3. completed.operation = operation /\ completed.half_cycle = "data"
      BY <2>2 DEF Executing
    <2>4. Status = "running"
      BY <2>1 DEF Status
    <2>5. /\ op_it \in 1 .. 5 /\ inst_it \in 1 .. 3 /\ operation \in ValidOperations
          /\ inst_it > 1 => op_it = op_end \/ Step("Remove_Interlock_A")
      BY <2>1 DEF IInv, TypeOK, SearchPosition
    <2>6. \/ operation = table_lookup
          \/ operation \in Instructions!LoadingOps /\ ~Readable(completed.address)
      <3>1. CASE Step("Look_Up_Address")
        BY <2>5, <3>1, LookUpAlone
      <3>2. CASE /\ Step("Data_to_Distributor") /\ operation \notin StoreOps
                 /\ ~Readable(address_register)
        <4>1. operation \notin ShiftOps \cup StepLessOps \cup {table_lookup}
          <5>1. operation \notin ShiftOps
            BY <2>5, <3>2, ClassSteps, StepOfThree
          <5>2. operation # table_lookup
            BY <2>5, <3>2, ClassSteps, StepOfFour
          <5>3. operation \notin StepLessOps
            <6> SUFFICES ASSUME operation \in StepLessOps PROVE FALSE
              OBVIOUS
            <6>1. op_end = 1
              BY ClassSteps DEF op_end
            <6> QED  BY <2>5, <3>2, <6>1 DEF Step
          <5> QED  BY <5>1, <5>2, <5>3
        <4>2. operation \in Instructions!LoadingOps
          BY <2>5, <3>2, <4>1, SameClasses DEF ValidOperations
        <4>3. inst_it = 1
          <5>1. op_it < op_end /\ op_end \in 1 .. 5
            BY <2>5, <3>2, StepFacts
          <5>2. ~Step("Remove_Interlock_A")
            BY <3>2 DEF Step
          <5> QED  BY <2>5, <5>1, <5>2
        <4>4. address_register = completed.address
          BY <2>2, <4>1, <4>3 DEF Executing, Searched
        <4> QED  BY <3>2, <4>2, <4>4
      <3> QED  BY <2>1, <3>1, <3>2 DEF DataAborts
    <2> QED
      BY <1>3, <2>3, <2>4, <2>6, SamePlaces, SameCodes DEF Instructions!Fail
  <1> QED  BY <1>4, <1>5, <1>6

(* The word times of a half-cycle, and the code between the two loops, are    *)
(* not seen.                                                                 *)
LEMMA WordTimeStutters ==
    ASSUME IInv, Simulated, InstructionWordTime \/ BeginData \/ DataWordTime,
           completed' = IF InHalfCycle' THEN completed ELSE Machine',
           inst_it' \in 1 .. 3
    PROVE  UNCHANGED <<completed, Switches, Status>>
  <1>1. UNCHANGED switch_vars
    BY DEF InstructionWordTime, BeginData, DataWordTime
  <1>2. Switches' = Switches
    BY <1>1 DEF Switches, switch_vars
  <1>3. /\ pc \in {"instruction", "decode", "data"}
        /\ pc' \in {"instruction", "decode", "data"}
    BY DEF InstructionWordTime, BeginData, DataWordTime
  <1>4. Status = "running" /\ Status' = "running"
    BY <1>3 DEF Status
  <1>5. CASE BeginData \/ DataWordTime
    <2>1. pc' = "data"
      BY <1>5 DEF BeginData, DataWordTime
    <2> QED  BY <1>2, <1>4, <2>1 DEF InHalfCycle
  <1>6. CASE InstructionWordTime
    <2>1. pc = "instruction" /\ pc' = "instruction"
      BY <1>6 DEF InstructionWordTime
    <2>2. CASE inst_it' > 1
      BY <1>2, <1>4, <2>1, <2>2 DEF InHalfCycle
    <2>3. CASE inst_it' = 1
      <3>1. /\ inst_it = 1
            /\ UNCHANGED <<program_register, operation_register, address_register,
                           half_cycle>>
        BY <1>6, <2>3
           DEF InstructionWordTime, Instruction_to_Program_Register,
               Op_and_Address_to_Registers
      <3>2. UNCHANGED <<drum_storage, distributor, upper_accumulator, lower_accumulator,
                        overflow, storage_selection_error, error_stop>>
        BY <1>6 DEF InstructionWordTime, accumulator_vars, flag_vars
      <3>3. Machine' = Machine
        BY <3>1, <3>2 DEF Machine
      <3>4. completed = Machine
        BY <2>1, <3>1 DEF Simulated
      <3>5. completed' = Machine'
        BY <2>1, <2>3 DEF InHalfCycle
      <3> QED  BY <1>2, <1>4, <3>3, <3>4, <3>5
    <2> QED  BY <2>2, <2>3
  <1> QED  BY <1>5, <1>6

LEMMA NextImplements ==
    ASSUME IInv, IInv', Simulated, [HNext]_hvars
    PROVE  [Instructions!Next]_(Instructions!ivars)
  <1>1. CASE HNext
    <2>1. /\ Next
          /\ completed' = IF InHalfCycle' THEN completed ELSE Machine'
      BY <1>1 DEF HNext
    <2>2. ~ManualStart /\ ~ManualAbort
      BY DEF Simulated, ManualStart, ManualAbort
    <2>3. CASE Run \/ EndInstruction \/ EndData
      <3>1. inst_it' = 1 /\ pc' \in {"idle", "instruction", "decode"}
        BY <2>3 DEF Run, EndInstruction, EndData, IInv, SearchPosition, local_vars
      <3>2. completed' = Machine'
        BY <2>1, <3>1 DEF InHalfCycle
      <3>3. Instructions!Next
        BY <2>3, <3>2, RunImplements, EndInstructionImplements, EndDataImplements
           DEF Instructions!Next
      <3> QED  BY <3>3
    <2>4. CASE InstructionAbort \/ DecodeAbort \/ DataAbort
      <3>1. pc' = "aborted"
        BY <2>4 DEF InstructionAbort, DecodeAbort, DataAbort, Abort
      <3>2. completed' = completed
        BY <2>1, <3>1 DEF InHalfCycle
      <3>3. Instructions!Next
        BY <2>4, <3>2, AbortImplements DEF Instructions!Next
      <3> QED  BY <3>3
    <2>5. CASE InstructionWordTime \/ BeginData \/ DataWordTime
      <3>1. inst_it' \in 1 .. 3
        BY DEF IInv, TypeOK
      <3>2. UNCHANGED <<completed, Switches, Status>>
        BY <2>1, <2>5, <3>1, WordTimeStutters
      <3> QED  BY <3>2 DEF Instructions!ivars
    <2> QED  BY <2>1, <2>2, <2>3, <2>4, <2>5 DEF Next, ProgramStart, RunStep
  <1>2. CASE UNCHANGED hvars
    <2>1. UNCHANGED <<completed, pc, switch_vars>>
      BY <1>2 DEF hvars, vars, machine_vars
    <2>2. UNCHANGED <<completed, Switches, Status>>
      BY <2>1 DEF Switches, switch_vars, Status
    <2> QED  BY <2>2 DEF Instructions!ivars
  <1> QED  BY <1>1, <1>2

LEMMA InitImplements == HInit /\ IInv => Instructions!Init
  <1> SUFFICES ASSUME HInit, IInv PROVE Instructions!Init
    OBVIOUS
  <1>1. /\ completed = Machine /\ pc = "idle" /\ operation_register = Blank
        /\ address_register = StorageEntryAddress /\ half_cycle = "instruction"
    BY DEF HInit, Init
  <1>2. completed \in Instructions!Machines
    BY <1>1, MachineType DEF IInv
  <1>3. Status = "idle"
    BY <1>1 DEF Status
  <1> QED  BY <1>1, <1>2, <1>3, MachineFields DEF Instructions!Init

(* For every size of the machine, every drum and every program, the word      *)
(* times, the drum's turning and the overlap of an operation with the search  *)
(* for the next instruction cannot be seen: program_start's half-cycles do    *)
(* exactly what InstructionSet says of each operation, shifts included, and   *)
(* its assertions fail exactly where InstructionSet fails.                    *)
THEOREM ImplementsTheInstructionSet == HSpec => ImplementsInstructionSet
  <1> DEFINE Inv == IInv /\ Progress /\ Simulated
  <1>1. HInit => Inv /\ Instructions!Init
    BY InitInvariant, InitProgress, InitSimulated, InitImplements DEF HInit
  <1>2. Inv /\ [HNext]_hvars => Inv' /\ [Instructions!Next]_(Instructions!ivars)
    <2> SUFFICES ASSUME Inv, [HNext]_hvars
                 PROVE  Inv' /\ [Instructions!Next]_(Instructions!ivars)
      OBVIOUS
    <2>1. [ConsoleNext]_vars
      BY DEF HNext, ConsoleNext, hvars
    <2>2. IInv'
      BY <2>1, NextInvariant
    <2>3. Progress' /\ Simulated'
      BY <2>2, NextProgress, NextSimulated
    <2>4. [Instructions!Next]_(Instructions!ivars)
      BY <2>2, NextImplements
    <2> QED  BY <2>2, <2>3, <2>4
  <1> HIDE DEF Inv
  <1> QED  BY <1>1, <1>2, PTL DEF HSpec, ImplementsInstructionSet, Instructions!Spec
=============================================================================
