--------------------------- MODULE HalfCycleProofs ---------------------------
(***************************************************************************)
(* The longest half-cycles, for every size of the machine and every program. *)
(* DurationBound says nothing of where a half-cycle stands; Progress says    *)
(* how many word times have passed at most when the operation has come to   *)
(* its present step, and how many of them the present step has waited.       *)
(***************************************************************************)
EXTENDS HalfCycles, ComputerProofs

(* Word times until an address comes under the heads.                         *)
Wait(addr) ==
    IF drum_index <= index_of_address(addr)
    THEN index_of_address(addr) - drum_index
    ELSE (index_of_address(addr) + BandSize) - drum_index

(* Fetching an instruction.  A blank address waits for nothing.               *)
FetchProgress ==
    /\ inst_it = 1 => IF address_register = Blank THEN word_times = 0
                      ELSE word_times + Wait(address_register) <= BandSize - 1
    /\ inst_it > 1 => word_times <= BandSize + (inst_it - 2)

(* Operations without the restart signal find their next instruction last.    *)
SearchComesLast ==
    operation \notin ArithmeticOps =>
       /\ op_it < op_end => inst_it = 1
       /\ op_it = op_end /\ op_end > 1 => inst_it >= 2

ArithmeticProgress ==
    /\ op_it = 1 => word_times = 0
    /\ op_it = 2 => word_times + Wait(address_register) <= BandSize
    /\ op_it = 3 => IF restart THEN word_times <= BandSize + 3 /\ restarted
                    ELSE word_times <= BandSize + 2 - (run_time % 2)
    /\ op_it = 4 => word_times <= BandSize + 4 /\ inst_it >= 2
    /\ op_it = 5 => word_times <= BandSize + 5 /\ inst_it = 3

LoadProgress ==
    /\ op_it = 1 => word_times = 0
    /\ op_it = 2 => word_times + Wait(address_register) <= BandSize
    /\ op_it = 3 => word_times <= BandSize + (inst_it - 1)

StoreWordProgress ==
    /\ op_it = 1 => word_times = 0
    /\ op_it = 2 => word_times <= 1
    /\ op_it = 3 => word_times + Wait(address_register) <= BandSize + 1
    /\ op_it = 4 => word_times <= BandSize + inst_it

ShiftProgress ==
    /\ op_it = 1 => word_times <= 1 - (run_time % 2)
    /\ op_it = 2 => word_times <= shift_count + 2
    /\ op_it = 3 => word_times <= Base + 3
    /\ op_it = 4 => word_times <= Base + (inst_it + 2)

(* One shift, at most nine subtractions and one that fails for every digit.   *)
DivideProgress ==
    /\ op_it = 1 => word_times = 0
    /\ op_it = 2 => word_times + Wait(address_register) <= BandSize
    /\ op_it <= 2 => shift_count = 0 /\ shift_next
    /\ op_it = 3 =>
          /\ shift_next =>
                /\ shift_count < WordSize
                /\ word_times <= BandSize + 1 + (Base + 1) * shift_count
          /\ ~shift_next =>
                /\ shift_count <= WordSize
                /\ word_times <= BandSize + 2 + (Base + 1) * (shift_count - 1)
                                   + (Mag(lower_accumulator) % Base)
    /\ op_it = 4 => word_times <= BandSize + 1 + (Base + 1) * WordSize
    /\ op_it = 5 => word_times <= BandSize + (Base + 1) * WordSize + inst_it

(* Looking up: up to one revolution until a band begins, then one for every   *)
(* band.  The address of the comparison began a band where the drum does.     *)
LookingUp ==
    LET start == address_register - drum_index
    IN  /\ lookup_band >= -1
        /\ word_times <= BandSize * (NBands + 1)
        /\ drum_index = 0 =>
              word_times <= BandSize * (1 + band_of_address(address_register))
        /\ drum_index > 0 /\ lookup_band = -1 => word_times <= drum_index
        /\ drum_index > 0 /\ lookup_band >= 0 =>
              /\ lookup_band < NBands
              /\ BandSize * lookup_band <= start
              /\ start < BandSize * (lookup_band + 1)
              /\ word_times <= BandSize * (1 + lookup_band) + drum_index

LookUpProgress ==
    /\ op_it = 1 => word_times = 0 /\ lookup_band = -1
    /\ op_it = 2 => LookingUp
    /\ op_it = 3 => word_times <= BandSize * (NBands + 1)
    /\ op_it = 4 => word_times <= BandSize * (NBands + 1) + 1
    /\ op_it = 5 => word_times <= BandSize * (NBands + 1) + inst_it

DataProgress ==
    /\ SearchComesLast
    /\ operation \in StepLessOps => word_times <= inst_it - 1
    /\ operation \in ArithmeticOps => ArithmeticProgress
    /\ operation \in {load_distributor, store_distributor} \cup StoreAddressOps =>
          LoadProgress
    /\ operation \in StoreWordOps => StoreWordProgress
    /\ operation \in ShiftOps => ShiftProgress
    /\ operation \in DivideOps => DivideProgress
    /\ operation = table_lookup => LookUpProgress

(* The inductive invariant.                                                   *)
Progress ==
    /\ word_times \in Nat
    /\ pc = "instruction" => FetchProgress
    /\ pc = "data" => DataProgress

----------------------------------------------------------------------------
(* Waiting for the drum.                                                      *)
LEMMA DrumTurns ==
    ASSUME TypeOK, DrumStep
    PROVE  drum_index' = IF drum_index = BandSize - 1 THEN 0 ELSE drum_index + 1
  <1>1. /\ drum_index \in Nat /\ drum_index <= BandSize - 1
        /\ BandSize \in Nat \ {0}
        /\ drum_index' = (drum_index + 1) % BandSize
    BY SizesAssumption DEF TypeOK, DrumTypeOK, Indices, DrumStep
  <1>2. CASE drum_index = BandSize - 1
    BY <1>1, <1>2
  <1>3. CASE drum_index # BandSize - 1
    BY <1>1, <1>3
  <1> QED  BY <1>2, <1>3

LEMMA WaitRange ==
    ASSUME TypeOK, NEW addr \in Addresses
    PROVE  /\ Wait(addr) \in 0 .. BandSize - 1
           /\ UnderHead(addr) <=> Wait(addr) = 0
  <1>1. /\ drum_index \in 0 .. BandSize - 1
        /\ index_of_address(addr) \in 0 .. BandSize - 1
        /\ BandSize \in Nat \ {0}
    BY DrumFacts, SizesAssumption DEF TypeOK, DrumTypeOK, Indices
  <1> QED  BY <1>1 DEF Wait, UnderHead

(* A word time brings an address nearer, until it is under the heads.          *)
LEMMA WaitShortens ==
    ASSUME TypeOK, DrumStep, NEW addr \in Addresses,
           NEW w, w = IF drum_index' <= index_of_address(addr)
                      THEN index_of_address(addr) - drum_index'
                      ELSE (index_of_address(addr) + BandSize) - drum_index'
    PROVE  /\ w \in 0 .. BandSize - 1
           /\ ~UnderHead(addr) => w = Wait(addr) - 1
  <1>1. /\ drum_index \in 0 .. BandSize - 1
        /\ index_of_address(addr) \in 0 .. BandSize - 1
        /\ BandSize \in Nat \ {0}
    BY DrumFacts, SizesAssumption DEF TypeOK, DrumTypeOK, Indices
  <1>2. drum_index' = IF drum_index = BandSize - 1 THEN 0 ELSE drum_index + 1
    BY DrumTurns
  <1> QED  BY <1>1, <1>2 DEF Wait, UnderHead

(* The address that is waited for stays the same.                             *)
LEMMA WaitAfter ==
    ASSUME TypeOK, DrumStep, address_register \in Addresses,
           address_register' = address_register
    PROVE  /\ Wait(address_register)' \in 0 .. BandSize - 1
           /\ ~UnderHead(address_register) =>
                 Wait(address_register)' = Wait(address_register) - 1
  <1> DEFINE i == index_of_address(address_register)
             w == IF drum_index' <= i THEN i - drum_index' ELSE (i + BandSize) - drum_index'
  <1>1. Wait(address_register)' = w
    BY DEF Wait, index_of_address
  <1>2. /\ w \in 0 .. BandSize - 1
        /\ ~UnderHead(address_register) => w = Wait(address_register) - 1
    BY WaitShortens
  <1> QED  BY <1>1, <1>2

----------------------------------------------------------------------------
(* Every iteration of a loop is counted.                                      *)
LEMMA WordTimeCounted ==
    ASSUME TypeOK, WordTime, HNext
    PROVE  word_times' = word_times + 1
  <1>1. run_time' # run_time
    <2>1. run_time' % 2 = 1 - (run_time % 2)
      BY WordTimeType
    <2>2. run_time \in Nat
      BY RunTimeAssumption DEF TypeOK
    <2> QED  BY <2>1, <2>2
  <1> QED  BY <1>1 DEF HNext

(* The step that the operation has come to is the one that is executed.       *)
LEMMA StepTaken ==
    ASSUME OperationStep, op_it # op_end
    PROVE  /\ Step("Enable_Distributor") \/ Step("Enable_Position_Set")
                 \/ Step("Address_to_Program_Register") => Enable
           /\ Step("Data_to_Distributor") => Data_to_Distributor
           /\ Step("Store_Distributor") => Store_Distributor
           /\ Step("Distributor_to_Accumulator") => Distributor_to_Accumulator
           /\ Step("Remove_Interlock_A") => Remove_Interlock_A
           /\ Step("Multiply") => Multiply
           /\ Step("Divide") => Divide
           /\ Step("Enable_Shift_Control") => Enable_Shift_Control
           /\ Step("Shift") => Shift
           /\ Step("Look_Up_Address") => Look_Up_Address
           /\ Step("Insert_Address_in_Lower") => Insert_Address_in_Lower
  BY DEF OperationStep, Step, Enable, Data_to_Distributor, Store_Distributor,
         Distributor_to_Accumulator, Remove_Interlock_A, Multiply, Divide,
         Enable_Shift_Control, Shift, Look_Up_Address, Insert_Address_in_Lower

(* What every data word time has in common.                                   *)
LEMMA DataWordTimeFacts ==
    ASSUME IInv, DataWordTime
    PROVE  /\ TypeOK /\ pc = "data" /\ pc' = "data" /\ ~DataAborts
           /\ OperationStep /\ NextInstructionStep /\ WordTime /\ DrumStep
           /\ operation' = operation /\ op_end' = op_end
           /\ op_it \in 1 .. 5 /\ op_it' \in 1 .. 5 /\ op_end \in 1 .. 5
           /\ inst_it \in 1 .. 3 /\ inst_it' \in 1 .. 3
           /\ op_it' \in {op_it, op_it + 1} /\ op_it' <= op_end
           /\ op_it = op_end => op_it' = op_end /\ inst_it < 3
           /\ address_register \in Addresses
  <1>1. /\ TypeOK /\ pc = "data" /\ pc' = "data" /\ ~DataAborts
        /\ OperationStep /\ NextInstructionStep /\ WordTime /\ DrumStep
        /\ operation' = operation /\ ~DataLoopEnded
    BY DEF DataWordTime, IInv, WordTime
  <1>2. op_end' = op_end
    BY <1>1 DEF op_end, op_seq
  <1>3. op_it \in 1 .. 5 /\ inst_it \in 1 .. 3 /\ op_end \in 1 .. 5
    BY <1>1, StepFacts DEF TypeOK
  <1>4. op_it' \in {op_it, op_it + 1} /\ op_it' <= op_end
    BY <1>1, OperationStepSignals
  <1>5. op_it = op_end => op_it' = op_end
    BY <1>1, OperationStepSignals
  <1>6. op_it' \in 1 .. 5
    BY <1>3, <1>4
  <1>7. address_register \in Addresses
    BY <1>1, DataAddress DEF IInv
  <1>8. inst_it' \in 1 .. 3
    BY <1>1, <1>7, SearchType
  <1>9. op_it = op_end => inst_it < 3
    BY <1>1, <1>3 DEF DataLoopEnded
  <1> QED  BY <1>1, <1>2, <1>3, <1>4, <1>5, <1>6, <1>7, <1>8, <1>9

(* Without the restart signal the search waits for the last step, and then    *)
(* takes a step in every word time.                                           *)
LEMMA SearchAdvances ==
    ASSUME IInv, DataWordTime, SearchComesLast, operation \notin ArithmeticOps
    PROVE  /\ SearchComesLast'
           /\ op_it' # op_end => inst_it' = inst_it /\ address_register' = SteppedAddress
           /\ op_it' = op_end => inst_it' = inst_it + 1
  <1>1. /\ NextInstructionStep /\ op_it \in 1 .. 5 /\ op_end \in 1 .. 5
        /\ inst_it \in 1 .. 3 /\ operation' = operation /\ op_end' = op_end
        /\ op_it' \in {op_it, op_it + 1} /\ op_it' <= op_end
        /\ op_it = op_end => inst_it < 3
    BY DataWordTimeFacts
  <1>2. ~restart'
    <2>1. RestartSchedule
      BY DataWordTimeFacts, RestartScheduled
    <2> QED  BY <2>1 DEF RestartSchedule
  <1>3. SearchEnabled <=> op_it' = op_end /\ inst_it < 3
    BY <1>2 DEF SearchEnabled
  <1>4. /\ op_it < op_end => inst_it = 1
        /\ op_it = op_end /\ op_end > 1 => inst_it >= 2
    BY DEF SearchComesLast
  <1>5. inst_it < 3
    BY <1>1, <1>4
  <1>6. CASE op_it' # op_end
    <2>1. inst_it' = inst_it /\ address_register' = SteppedAddress
      BY <1>3, <1>6, Zenon DEF NextInstructionStep, DataWordTime
    <2> QED  BY <1>1, <1>4, <1>6, <2>1 DEF SearchComesLast
  <1>7. CASE op_it' = op_end
    <2>1. Instruction_Address_to_Address_Register \/ Enable_Program_Register
      BY <1>1, <1>3, <1>5, <1>7, Zenon DEF NextInstructionStep
    <2>2. inst_it' = inst_it + 1
      BY <1>5, <2>1 DEF Instruction_Address_to_Address_Register, Enable_Program_Register
    <2> QED  BY <1>1, <1>4, <1>7, <2>2 DEF SearchComesLast
  <1> QED  BY <1>6, <1>7

----------------------------------------------------------------------------
(* The classes of LongestData do not overlap, and have these steps.           *)
LoadOps == {load_distributor, store_distributor} \cup StoreAddressOps

LEMMA DurationClasses ==
    /\ StepLessOps \cap (ArithmeticOps \cup LoadOps \cup StoreWordOps \cup ShiftOps
                           \cup DivideOps \cup {table_lookup, multiply}) = {}
    /\ ArithmeticOps \cap (LoadOps \cup StoreWordOps \cup ShiftOps
                             \cup DivideOps \cup {table_lookup, multiply}) = {}
    /\ LoadOps \cap (StoreWordOps \cup ShiftOps \cup DivideOps
                       \cup {table_lookup, multiply}) = {}
    /\ StoreWordOps \cap (ShiftOps \cup DivideOps \cup {table_lookup, multiply}) = {}
    /\ ShiftOps \cap (DivideOps \cup {table_lookup, multiply}) = {}
    /\ DivideOps \cap {table_lookup, multiply} = {}
    /\ table_lookup # multiply
    /\ StoreOps = StoreWordOps \cup StoreAddressOps \cup {store_distributor}
    /\ StoreAddressOps \cap {load_distributor, store_distributor} = {}
    /\ load_distributor # store_distributor
    /\ BranchOn8Ops \cap (ArithmeticOps \cup LoadOps \cup StoreWordOps \cup ShiftOps
                            \cup DivideOps \cup {table_lookup, multiply}) = {}
  <1> USE DEF AddOps, ResetAddOps, ArithmeticOps, ShiftOps, DivideOps, StoreWordOps,
              StoreAddressOps, StoreOps, LoadOps, TestOps,
              no_operation, stop, branch_on_nonzero_in_upper, branch_on_nonzero,
              branch_on_minus, branch_on_overflow,
              branch_on_8_in_distributor_position_10,
              add_to_upper, subtract_from_upper, add_to_lower, subtract_from_lower,
              add_absolute_to_lower, subtract_absolute_from_lower,
              reset_and_add_into_upper, reset_and_subtract_into_upper,
              reset_and_add_into_lower, reset_and_subtract_into_lower,
              reset_and_add_absolute_into_lower,
              reset_and_subtract_absolute_into_lower,
              shift_right, shift_and_round, shift_left, shift_left_and_count,
              divide, divide_and_reset_upper, multiply, table_lookup,
              load_distributor, store_distributor,
              store_lower_in_memory, store_upper_in_memory,
              store_lower_data_address, store_lower_instruction_address
  <1>1. \A op \in BranchOn8Ops : op \in Nat /\ op >= 90
    BY DEF BranchOn8Ops, OpCodes, OpBase, Base
  <1>2. BranchOn8Ops \cap (ArithmeticOps \cup LoadOps \cup StoreWordOps \cup ShiftOps
                             \cup DivideOps \cup {table_lookup, multiply}) = {}
    BY <1>1
  <1>3. StepLessOps \cap (ArithmeticOps \cup LoadOps \cup StoreWordOps \cup ShiftOps
                            \cup DivideOps \cup {table_lookup, multiply}) = {}
    BY <1>1 DEF StepLessOps
  <1>4. ArithmeticOps \cap (LoadOps \cup StoreWordOps \cup ShiftOps
                              \cup DivideOps \cup {table_lookup, multiply}) = {}
    OBVIOUS
  <1>5. LoadOps \cap (StoreWordOps \cup ShiftOps \cup DivideOps
                        \cup {table_lookup, multiply}) = {}
    OBVIOUS
  <1>6. /\ StoreWordOps \cap (ShiftOps \cup DivideOps \cup {table_lookup, multiply}) = {}
        /\ ShiftOps \cap (DivideOps \cup {table_lookup, multiply}) = {}
        /\ DivideOps \cap {table_lookup, multiply} = {}
    OBVIOUS
  <1>7. /\ table_lookup # multiply
        /\ StoreOps = StoreWordOps \cup StoreAddressOps \cup {store_distributor}
        /\ StoreAddressOps \cap {load_distributor, store_distributor} = {}
        /\ load_distributor # store_distributor
    OBVIOUS
  <1> QED  BY <1>2, <1>3, <1>4, <1>5, <1>6, <1>7

LEMMA ClassSteps ==
    /\ operation = load_distributor =>
          op_seq = <<"Enable_Distributor", "Data_to_Distributor">>
    /\ operation = store_distributor =>
          op_seq = <<"Enable_Position_Set", "Store_Distributor">>
    /\ operation \in StoreAddressOps =>
          op_seq = <<"Data_to_Distributor", "Store_Distributor">>
    /\ operation \in StoreWordOps =>
          op_seq = <<"Enable_Distributor", "Data_to_Distributor", "Store_Distributor">>
    /\ operation \in DivideOps =>
          op_seq = <<"Enable_Distributor", "Data_to_Distributor", "Divide",
                     "Remove_Interlock_A">>
    /\ operation = table_lookup =>
          op_seq = <<"Enable_Position_Set", "Look_Up_Address",
                     "Address_to_Program_Register", "Insert_Address_in_Lower">>
    /\ operation \in ArithmeticOps =>
          op_seq = <<"Enable_Distributor", "Data_to_Distributor",
                     "Distributor_to_Accumulator", "Remove_Interlock_A">>
    /\ operation \in ShiftOps =>
          op_seq = <<"Enable_Shift_Control", "Shift", "Remove_Interlock_A">>
    /\ operation = multiply =>
          op_seq = <<"Enable_Distributor", "Data_to_Distributor", "Multiply",
                     "Remove_Interlock_A">>
    /\ operation \in StepLessOps => op_seq = << >>
  BY DurationClasses DEF op_seq, operation_steps, ArithmeticOps, LoadOps

(* A step by its position.                                                    *)
LEMMA StepOfTwo ==
    ASSUME NEW a, NEW b, op_seq = <<a, b>>, op_it \in 1 .. 5
    PROVE  /\ op_end = 3
           /\ op_it = 1 => Step(a)
           /\ op_it = 2 => Step(b)
           /\ \A name : Step(name) => name \in {a, b}
  BY DEF op_end, Step

LEMMA StepOfThree ==
    ASSUME NEW a, NEW b, NEW c, op_seq = <<a, b, c>>, op_it \in 1 .. 5
    PROVE  /\ op_end = 4
           /\ op_it = 1 => Step(a)
           /\ op_it = 2 => Step(b)
           /\ op_it = 3 => Step(c)
           /\ \A name : Step(name) => name \in {a, b, c}
  BY DEF op_end, Step

LEMMA StepOfFour ==
    ASSUME NEW a, NEW b, NEW c, NEW d, op_seq = <<a, b, c, d>>, op_it \in 1 .. 5
    PROVE  /\ op_end = 5
           /\ op_it = 1 => Step(a)
           /\ op_it = 2 => Step(b)
           /\ op_it = 3 => Step(c)
           /\ op_it = 4 => Step(d)
           /\ \A name : Step(name) => name \in {a, b, c, d}
  BY DEF op_end, Step

LEMMA LoadSteps ==
    ASSUME operation \in LoadOps, op_it \in 1 .. 5
    PROVE  /\ op_end = 3 /\ ~Step("Look_Up_Address")
           /\ op_it = 1 =>
                 \/ Step("Enable_Distributor") \/ Step("Enable_Position_Set")
                 \/ operation \in StoreAddressOps /\ Step("Data_to_Distributor")
           /\ op_it = 2 => Step("Data_to_Distributor") \/ Step("Store_Distributor")
  <1>1. CASE operation = load_distributor
    <2>1. op_seq = <<"Enable_Distributor", "Data_to_Distributor">>
      BY <1>1, ClassSteps
    <2> QED  BY <2>1, StepOfTwo
  <1>2. CASE operation = store_distributor
    <2>1. op_seq = <<"Enable_Position_Set", "Store_Distributor">>
      BY <1>2, ClassSteps
    <2> QED  BY <2>1, StepOfTwo
  <1>3. CASE operation \in StoreAddressOps
    <2>1. op_seq = <<"Data_to_Distributor", "Store_Distributor">>
      BY <1>3, ClassSteps
    <2> QED  BY <1>3, <2>1, StepOfTwo
  <1> QED  BY <1>1, <1>2, <1>3 DEF LoadOps

(* Steps that wait for the address in the address register.                   *)
LEMMA WaitingStep ==
    ASSUME Data_to_Distributor \/ Store_Distributor
    PROVE  /\ \/ op_it' = op_it + 1
              \/ op_it' = op_it /\ ~UnderHead(address_register)
           /\ Data_to_Distributor /\ operation \in StoreOps => op_it' = op_it + 1
  BY DEF Data_to_Distributor, Store_Distributor, Done, Again

LEMMA AddressStays ==
    ASSUME ~Step("Look_Up_Address")
    PROVE  SteppedAddress = address_register
  BY DEF SteppedAddress

----------------------------------------------------------------------------
(* The classes of operations, one by one.  One more word time:                *)
Counted == word_times \in Nat /\ word_times' = word_times + 1

LEMMA StepLessKeeps ==
    ASSUME IInv, DataWordTime, Counted, SearchComesLast, operation \in StepLessOps,
           word_times <= inst_it - 1
    PROVE  word_times' <= inst_it' - 1
  <1>1. op_end = 1
    BY ClassSteps DEF op_end
  <1>2. operation \notin ArithmeticOps
    BY DurationClasses
  <1>3. op_it' = op_end /\ inst_it \in 1 .. 3
    BY <1>1, DataWordTimeFacts
  <1>4. inst_it' = inst_it + 1
    BY <1>2, <1>3, SearchAdvances
  <1> QED  BY <1>3, <1>4 DEF Counted

LEMMA LoadKeepsPace ==
    ASSUME IInv, DataWordTime, Counted, SearchComesLast, operation \in LoadOps,
           LoadProgress
    PROVE  LoadProgress'
  <1>1. op_end = 3 /\ ~Step("Look_Up_Address")
    <2>1. op_it \in 1 .. 5
      BY DataWordTimeFacts
    <2> QED  BY <2>1, LoadSteps
  <1>2. /\ TypeOK /\ OperationStep /\ DrumStep
        /\ op_it \in 1 .. 3 /\ inst_it \in 1 .. 3 /\ address_register \in Addresses
        /\ op_it' \in {op_it, op_it + 1}
        /\ op_it = op_end => op_it' = op_end
    BY <1>1, DataWordTimeFacts
  <1>3. /\ op_it' # op_end => address_register' = address_register
        /\ op_it' = op_end => inst_it' = inst_it + 1
        /\ op_it < op_end => inst_it = 1
    <2>1. operation \notin ArithmeticOps
      BY DurationClasses
    <2> QED  BY <1>1, <2>1, SearchAdvances, AddressStays DEF SearchComesLast
  <1>4. BandSize \in Nat \ {0}
    BY SizesAssumption
  <1>5. /\ Wait(address_register) \in 0 .. BandSize - 1
        /\ address_register' = address_register =>
              /\ Wait(address_register)' \in 0 .. BandSize - 1
              /\ ~UnderHead(address_register) =>
                    Wait(address_register)' = Wait(address_register) - 1
    BY <1>2, WaitRange, WaitAfter
  <1>6. CASE op_it = 1
    <2>1. /\ word_times = 0 /\ word_times' = 1
      BY <1>6 DEF LoadProgress, Counted
    <2>2. op_it' = 2
      <3>1. CASE Step("Enable_Distributor") \/ Step("Enable_Position_Set")
        <4>1. Enable
          BY <1>1, <1>6, <3>1, DataWordTimeFacts, StepTaken
        <4> QED  BY <1>6, <4>1 DEF Enable, Done
      <3>2. CASE operation \in StoreAddressOps /\ Step("Data_to_Distributor")
        <4>1. Data_to_Distributor
          BY <1>1, <1>6, <3>2, DataWordTimeFacts, StepTaken
        <4> QED  BY <1>6, <3>2, <4>1, WaitingStep DEF StoreOps
      <3> QED  BY <1>2, <1>6, <3>1, <3>2, LoadSteps
    <2> QED  BY <1>1, <1>3, <1>4, <1>5, <2>1, <2>2 DEF LoadProgress
  <1>7. CASE op_it = 2
    <2>1. word_times + Wait(address_register) <= BandSize
      BY <1>7 DEF LoadProgress
    <2>2. Step("Data_to_Distributor") \/ Step("Store_Distributor")
      BY <1>7, LoadSteps
    <2>3. \/ op_it' = op_it + 1
          \/ op_it' = op_it /\ ~UnderHead(address_register)
      BY <1>1, <1>2, <1>7, <2>2, StepTaken, WaitingStep
    <2> HIDE DEF Wait
    <2> QED
      BY <1>1, <1>3, <1>4, <1>5, <1>7, <2>1, <2>3 DEF LoadProgress, Counted
  <1>8. CASE op_it = 3
    BY <1>1, <1>2, <1>3, <1>4, <1>8 DEF LoadProgress, Counted
  <1> QED  BY <1>2, <1>6, <1>7, <1>8

LEMMA WaitFacts ==
    ASSUME IInv, DataWordTime
    PROVE  /\ Wait(address_register) \in 0 .. BandSize - 1
           /\ address_register' = address_register =>
                 /\ Wait(address_register)' \in 0 .. BandSize - 1
                 /\ ~UnderHead(address_register) =>
                       Wait(address_register)' = Wait(address_register) - 1
  BY DataWordTimeFacts, WaitRange, WaitAfter

LEMMA StoreWordKeepsPace ==
    ASSUME IInv, DataWordTime, Counted, SearchComesLast, operation \in StoreWordOps,
           StoreWordProgress
    PROVE  StoreWordProgress'
  <1>1. /\ op_end = 4 /\ ~Step("Look_Up_Address")
        /\ op_it = 1 => Step("Enable_Distributor")
        /\ op_it = 2 => Step("Data_to_Distributor")
        /\ op_it = 3 => Step("Store_Distributor")
    <2>1. op_seq = <<"Enable_Distributor", "Data_to_Distributor", "Store_Distributor">>
      BY ClassSteps
    <2> QED  BY <2>1, DataWordTimeFacts, StepOfThree
  <1>2. /\ op_it \in 1 .. 4 /\ inst_it \in 1 .. 3
        /\ op_it' \in {op_it, op_it + 1}
        /\ op_it = op_end => op_it' = op_end
    BY <1>1, DataWordTimeFacts
  <1>3. /\ op_it' # op_end => address_register' = address_register
        /\ op_it' = op_end => inst_it' = inst_it + 1
        /\ op_it < op_end => inst_it = 1
    <2>1. operation \notin ArithmeticOps
      BY DurationClasses
    <2> QED  BY <1>1, <2>1, SearchAdvances, AddressStays DEF SearchComesLast
  <1>4. BandSize \in Nat \ {0}
    BY SizesAssumption
  <1> HIDE DEF Wait
  <1>5. CASE op_it = 1
    <2>1. Enable
      BY <1>1, <1>5, DataWordTimeFacts, StepTaken
    <2>2. op_it' = 2
      BY <1>5, <2>1 DEF Enable, Done
    <2> QED  BY <1>5, <2>2 DEF StoreWordProgress, Counted
  <1>6. CASE op_it = 2
    <2>1. Data_to_Distributor
      BY <1>1, <1>6, DataWordTimeFacts, StepTaken
    <2>2. op_it' = 3
      BY <1>6, <2>1, WaitingStep DEF StoreOps
    <2>3. Wait(address_register)' \in 0 .. BandSize - 1
      BY <1>1, <1>3, <2>2, WaitFacts
    <2> QED  BY <1>4, <1>6, <2>2, <2>3 DEF StoreWordProgress, Counted
  <1>7. CASE op_it = 3
    <2>1. \/ op_it' = op_it + 1
          \/ op_it' = op_it /\ ~UnderHead(address_register)
      BY <1>1, <1>7, DataWordTimeFacts, StepTaken, WaitingStep
    <2>2. word_times + Wait(address_register) <= BandSize + 1
      BY <1>7 DEF StoreWordProgress
    <2> QED
      BY <1>1, <1>3, <1>4, <1>7, <2>1, <2>2, WaitFacts DEF StoreWordProgress, Counted
  <1>8. CASE op_it = 4
    BY <1>1, <1>2, <1>3, <1>4, <1>8 DEF StoreWordProgress, Counted
  <1> QED  BY <1>2, <1>5, <1>6, <1>7, <1>8

(* While an operation fills the accumulator the search may begin.             *)
LEMMA ArithmeticKeepsPace ==
    ASSUME IInv, DataWordTime, Counted, operation \in ArithmeticOps, ArithmeticProgress
    PROVE  ArithmeticProgress'
  <1>1. /\ op_end = 5 /\ ~Step("Look_Up_Address")
        /\ op_it = 1 => Step("Enable_Distributor")
        /\ op_it = 2 => Step("Data_to_Distributor")
        /\ op_it = 3 => Step("Distributor_to_Accumulator")
    <2>1. op_seq = <<"Enable_Distributor", "Data_to_Distributor",
                     "Distributor_to_Accumulator", "Remove_Interlock_A">>
      BY ClassSteps
    <2> QED  BY <2>1, DataWordTimeFacts, StepOfFour
  <1>2. /\ op_it \in 1 .. 5 /\ inst_it \in 1 .. 3 /\ inst_it' \in 1 .. 3
        /\ op_it' \in {op_it, op_it + 1}
        /\ op_it = 5 => inst_it < 3
        /\ restart \in BOOLEAN
    BY <1>1, DataWordTimeFacts DEF TypeOK
  <1>3. \/ op_it \in {1, 2} /\ op_it' \in {1, 2, 3} /\ ~restart /\ ~restart'
        \/ op_it = 3 /\ op_it' = 3 /\ ~restart /\ ~restart'
        \/ op_it = 3 /\ op_it' = 3 /\ ~restart /\ restart' /\ run_time % 2 = 0
        \/ op_it = 3 /\ op_it' = 4 /\ restart /\ restart'
        \/ op_it = 4 /\ op_it' = 5 /\ restart /\ ~restart'
        \/ op_it = 5 /\ op_it' = 5 /\ ~restart /\ ~restart'
    <2>1. RestartSchedule
      BY DataWordTimeFacts, RestartScheduled
    <2> QED  BY <2>1, Zenon DEF RestartSchedule
  <1>4. BandSize \in Nat \ {0}
    BY SizesAssumption
  <1>5. /\ run_time % 2 \in {0, 1} /\ (run_time % 2)' = 1 - (run_time % 2)
    <2>1. run_time \in Nat
      BY DataWordTimeFacts, RunTimeAssumption DEF TypeOK
    <2>2. (run_time % 2)' = 1 - (run_time % 2)
      BY DataWordTimeFacts, WordTimeType
    <2> QED  BY <2>1, <2>2
  <1>6. NextInstructionStep
    BY DataWordTimeFacts
  <1> HIDE DEF Wait
  <1>7. CASE op_it \in {1, 2}
    <2>1. op_it' # op_end /\ ~restart'
      BY <1>1, <1>3, <1>7
    <2>2. address_register' = address_register
      BY <1>1, <1>6, <2>1, AddressStays DEF NextInstructionStep, SearchEnabled
    <2>3. CASE op_it = 1
      <3>1. Enable
        BY <1>1, <2>3, DataWordTimeFacts, StepTaken
      <3>2. op_it' = 2
        BY <2>3, <3>1 DEF Enable, Done
      <3> QED  BY <1>4, <2>2, <2>3, <3>2, WaitFacts DEF ArithmeticProgress, Counted
    <2>4. CASE op_it = 2
      <3>1. \/ op_it' = op_it + 1
            \/ op_it' = op_it /\ ~UnderHead(address_register)
        BY <1>1, <2>4, DataWordTimeFacts, StepTaken, WaitingStep
      <3>2. word_times + Wait(address_register) <= BandSize
        BY <2>4 DEF ArithmeticProgress
      <3>3. word_times' <= BandSize + 1 /\ (op_it' = 2 => word_times' + Wait(address_register)' <= BandSize)
        BY <1>4, <2>2, <2>4, <3>1, <3>2, WaitFacts DEF Counted
      <3>4. op_it' = 2 \/ (op_it' = 3 /\ ~restart')
        BY <2>1, <2>4, <3>1
      <3> QED  BY <1>4, <1>5, <3>3, <3>4 DEF ArithmeticProgress, Counted
    <2> QED  BY <1>7, <2>3, <2>4
  <1>8. CASE op_it = 3
    <2>1. IF restart THEN word_times <= BandSize + 3 /\ restarted
          ELSE word_times <= BandSize + 2 - (run_time % 2)
      BY <1>8 DEF ArithmeticProgress
    <2>2. CASE ~restart /\ op_it' = 3
      <3>1. restart' => restarted' /\ run_time % 2 = 0
        <4>1. restart' => SearchEnabled
          <5>1. inst_it < 3
            <6>1. op_it # op_end /\ ~Step("Remove_Interlock_A")
              BY <1>1, <1>8 DEF Step
            <6> QED  BY <1>2, <6>1, DataWordTimeFacts DEF IInv, SearchPosition
          <5> QED  BY <5>1 DEF SearchEnabled
        <4> QED  BY <1>3, <1>6, <1>8, <2>2, <4>1 DEF NextInstructionStep
      <3>2. CASE restart'
        <4>1. word_times' <= BandSize + 3
          BY <1>4, <2>1, <2>2, <3>1, <3>2 DEF Counted
        <4> QED  BY <2>2, <3>1, <3>2, <4>1 DEF ArithmeticProgress
      <3>3. CASE ~restart'
        <4>1. Distributor_to_Accumulator
          BY <1>1, <1>8, DataWordTimeFacts, StepTaken
        <4>2. run_time % 2 = 1
          BY <1>5, <2>2, <3>3, <4>1 DEF Distributor_to_Accumulator
        <4>3. word_times' <= BandSize + 2 - (run_time % 2)'
          BY <1>4, <1>5, <2>1, <2>2, <4>2 DEF Counted
        <4> QED  BY <2>2, <3>3, <4>3 DEF ArithmeticProgress
      <3> QED  BY <3>2, <3>3
    <2>3. CASE restart /\ op_it' = 4 /\ restart'
      <3>1. inst_it' >= 2
        <4>1. CASE inst_it = 3
          BY <1>2, <1>6, <4>1 DEF NextInstructionStep, SearchEnabled
        <4>2. CASE inst_it < 3
          <5>1. SearchEnabled /\ restarted
            BY <2>1, <2>3, <4>2 DEF SearchEnabled
          <5>2. Instruction_Address_to_Address_Register \/ Enable_Program_Register
            BY <1>6, <5>1, Zenon DEF NextInstructionStep
          <5> QED
            BY <5>2 DEF Instruction_Address_to_Address_Register, Enable_Program_Register
        <4> QED  BY <1>2, <4>1, <4>2
      <3> QED  BY <1>4, <2>1, <2>3, <3>1 DEF ArithmeticProgress, Counted
    <2> QED  BY <1>3, <1>8, <2>2, <2>3
  <1>9. CASE op_it \in {4, 5}
    <2>1. op_it = 4 /\ op_it' = 5 /\ inst_it >= 2
      BY <1>2, <1>3, <1>9 DEF ArithmeticProgress
    <2>2. inst_it' = 3
      <3>1. CASE inst_it = 3
        BY <1>2, <1>6, <3>1 DEF NextInstructionStep, SearchEnabled
      <3>2. CASE inst_it = 2
        <4>1. SearchEnabled /\ op_it' = op_end
          BY <1>1, <2>1, <3>2 DEF SearchEnabled
        <4>2. Instruction_Address_to_Address_Register \/ Enable_Program_Register
          BY <1>6, <4>1, Zenon DEF NextInstructionStep
        <4> QED
          BY <3>2, <4>2 DEF Instruction_Address_to_Address_Register, Enable_Program_Register
      <3> QED  BY <1>2, <2>1, <3>1, <3>2
    <2> QED  BY <1>4, <2>1, <2>2 DEF ArithmeticProgress, Counted
  <1> QED  BY <1>2, <1>7, <1>8, <1>9

(* A shift waits for an even word time, and counts.                           *)
LEMMA ShiftKeepsPace ==
    ASSUME IInv, DataWordTime, Counted, SearchComesLast, operation \in ShiftOps,
           ShiftProgress
    PROVE  ShiftProgress'
  <1>1. /\ op_end = 4
        /\ op_it = 1 => Step("Enable_Shift_Control")
        /\ op_it = 2 => Step("Shift")
        /\ op_it = 3 => Step("Remove_Interlock_A")
    <2>1. op_seq = <<"Enable_Shift_Control", "Shift", "Remove_Interlock_A">>
      BY ClassSteps
    <2> QED  BY <2>1, DataWordTimeFacts, StepOfThree
  <1>2. /\ op_it \in 1 .. 4 /\ inst_it \in 1 .. 3
        /\ op_it' \in {op_it, op_it + 1}
        /\ op_it = op_end => op_it' = op_end
        /\ shift_count \in Nat
    BY <1>1, DataWordTimeFacts DEF TypeOK
  <1>3. /\ op_it' = op_end => inst_it' = inst_it + 1
        /\ op_it < op_end => inst_it = 1
    <2>1. operation \notin ArithmeticOps
      BY DurationClasses
    <2> QED  BY <1>1, <2>1, SearchAdvances DEF SearchComesLast
  <1>4. run_time % 2 \in {0, 1} /\ (run_time % 2)' = 1 - (run_time % 2)
    <2>1. run_time \in Nat
      BY DataWordTimeFacts, RunTimeAssumption DEF TypeOK
    <2>2. (run_time % 2)' = 1 - (run_time % 2)
      BY DataWordTimeFacts, WordTimeType
    <2> QED  BY <2>1, <2>2
  <1>5. shift_count <= Base
    BY DataWordTimeFacts DEF IInv, ShiftCounts
  <1>6. CASE op_it = 1
    <2>1. Enable_Shift_Control
      BY <1>1, <1>6, DataWordTimeFacts, StepTaken
    <2>2. /\ run_time % 2 = 0 => op_it' = 2
          /\ run_time % 2 = 1 => op_it' = 1
          /\ shift_count' = shift_count
      BY <1>6, <2>1 DEF Enable_Shift_Control, Done, Again, step_vars, member_vars
    <2> QED  BY <1>2, <1>4, <1>6, <2>2 DEF ShiftProgress, Counted
  <1>7. CASE op_it = 2
    <2>1. Shift
      BY <1>1, <1>7, DataWordTimeFacts, StepTaken
    <2>2. op_it' = op_it + 1 \/ (op_it' = op_it /\ shift_count' = shift_count + 1)
      BY <2>1, Zenon DEF Shift, InsertShiftCount, ShiftOnePlace, Done, Again
    <2> QED  BY <1>2, <1>5, <1>7, <2>2 DEF ShiftProgress, Counted, Base
  <1>8. CASE op_it = 3
    <2>1. op_it' = 4
      BY <1>1, <1>8, DataWordTimeFacts, OperationStepSignals
    <2> QED  BY <1>1, <1>3, <1>8, <2>1 DEF ShiftProgress, Counted, Base
  <1>9. CASE op_it = 4
    BY <1>1, <1>2, <1>3, <1>9 DEF ShiftProgress, Counted, Base
  <1> QED  BY <1>2, <1>6, <1>7, <1>8, <1>9

----------------------------------------------------------------------------
(* Division.                                                                  *)

(* The units digit of the lower half counts the subtractions: a shift clears  *)
(* it, a subtraction adds 1.                                                  *)
LEMMA ShiftClearsUnits ==
    ASSUME NEW u \in Word, NEW l \in Word
    PROVE  Mag(ShiftLeft(u, l).lower) % Base = 0
  <1> DEFINE m == (Mag(l) * Base) % WordBase
             q == (Mag(l) * Base) \div WordBase
  <1>1. Mag(l) \in 0 .. WordBase - 1 /\ l.sign \in Signs
    BY WordFields
  <1>2. WordBase \in Nat \ {0} /\ HighBase \in Nat \ {0} /\ WordBase = 10 * HighBase
    BY BaseFacts DEF Base
  <1>3. Mag(l) * Base \in Nat
    BY <1>1, <1>2 DEF Base
  <1>4. m \in 0 .. WordBase - 1 /\ q \in Nat /\ Mag(l) * Base = WordBase * q + m
    BY <1>2, <1>3, DivMod, Zenon
  <1>5. m % Base = 0
    <2> DEFINE x == Mag(l)
    <2>1. x \in Nat /\ m \in Nat /\ q \in Nat /\ HighBase * q \in Int
      BY <1>1, <1>2, <1>4
    <2>2. WordBase * q = 10 * (HighBase * q)
      BY <1>2, <1>4
    <2> HIDE DEF m, q, x
    <2>3. m = 10 * (x - HighBase * q)
      BY <1>4, <2>1, <2>2 DEF Base, x
    <2> DEFINE y == x - HighBase * q
    <2>4. y \in Int
      BY <2>1
    <2> HIDE DEF y
    <2> QED  BY <2>1, <2>3, <2>4 DEF Base, y
  <1>6. Mag(WordOf(m, l.sign)) = m
    <2> HIDE DEF m
    <2> QED  BY <1>1, <1>4, MagOfWordOf
  <1>7. ShiftLeft(u, l).lower = WordOf(m, l.sign)
    BY DEF ShiftLeft
  <1> HIDE DEF m
  <1> QED  BY <1>5, <1>6, <1>7

LEMMA QuotientCounts ==
    ASSUME NEW l \in Word, Mag(l) % Base # Base - 1
    PROVE  Mag(WordOf(Mag(l) + 1, l.sign)) % Base = (Mag(l) % Base) + 1
  <1> DEFINE m == Mag(l)
  <1>1. m \in 0 .. WordBase - 1 /\ l.sign \in Signs
    BY WordFields
  <1>2. HighBase \in Nat \ {0} /\ WordBase = 10 * HighBase
    BY BaseFacts DEF Base
  <1> HIDE DEF m
  <1>3. m + 1 \in 0 .. WordBase - 1
    <2>1. m % 10 # 9 /\ m \in Nat /\ m <= 10 * HighBase - 1
      BY <1>1, <1>2 DEF m, Base
    <2>2. m # 10 * HighBase - 1
      <3>1. (10 * HighBase - 1) % 10 = 9
        BY <1>2
      <3> QED  BY <2>1, <3>1
    <2> QED  BY <1>1, <1>2, <2>1, <2>2
  <1>4. Mag(WordOf(m + 1, l.sign)) = m + 1
    BY <1>1, <1>3, MagOfWordOf
  <1>5. (m + 1) % 10 = (m % 10) + 1
    BY <1>1, <1>2 DEF m, Base
  <1> QED  BY <1>4, <1>5 DEF m, Base

(* What a word time of the division does to its counters.                     *)
LEMMA DivideCounts ==
    ASSUME TypeOK, Divide
    PROVE  \/ /\ shift_next /\ ~shift_next'
              /\ shift_count' = CountedShift
              /\ Mag(lower_accumulator') % Base = 0
              /\ op_it' = op_it
           \/ /\ ~shift_next /\ ~shift_next'
              /\ shift_count' = shift_count
              /\ Mag(lower_accumulator) % Base # Base - 1
              /\ Mag(lower_accumulator') % Base = (Mag(lower_accumulator) % Base) + 1
              /\ op_it' = op_it
           \/ /\ ~shift_next /\ shift_next'
              /\ shift_count' = shift_count
              /\ op_it' = IF shift_count < WordSize THEN op_it ELSE op_it + 1
           \/ ~shift_next /\ op_it' = op_it + 1
  <1>1. upper_accumulator \in Word /\ lower_accumulator \in Word /\ distributor \in Word
    BY DEF TypeOK
  <1>2. CASE DividendShift
    <2> DEFINE l == Signed(lower_accumulator,
                           IF distributor.sign = lower_accumulator.sign
                           THEN "+" ELSE "-")
    <2>1. l \in Word
      BY <1>1 DEF Signed, Word, Signs
    <2>2. lower_accumulator' = ShiftLeft(upper_accumulator, l).lower
      BY <1>2, Zenon DEF DividendShift
    <2> HIDE DEF l
    <2>3. Mag(lower_accumulator') % Base = 0
      BY <1>1, <2>1, <2>2, ShiftClearsUnits
    <2> QED  BY <1>2, <2>3, Zenon DEF DividendShift, Again
  <1>3. CASE DivisorSubtract
    <2>1. ~shift_next /\ shift_next' = shift_next
      BY <1>3, Zenon DEF DivisorSubtract
    <2>2. CASE QuotientDigitFull
      BY <1>3, <2>1, <2>2, Zenon DEF DivisorSubtract, Done
    <2>3. CASE ~QuotientDigitFull
      <3>1. /\ lower_accumulator' = WordOf(Mag(lower_accumulator) + 1,
                                           lower_accumulator.sign)
            /\ op_it' = op_it /\ shift_count' = shift_count
        BY <1>3, <2>3, Zenon DEF DivisorSubtract, Again
      <3>2. Mag(lower_accumulator) % Base # Base - 1
        BY <2>3 DEF QuotientDigitFull
      <3>3. Mag(lower_accumulator') % Base = (Mag(lower_accumulator) % Base) + 1
        BY <1>1, <3>1, <3>2, QuotientCounts
      <3> QED  BY <2>1, <3>1, <3>2, <3>3
    <2> QED  BY <2>2, <2>3
  <1>4. CASE QuotientDigitDone
    BY <1>4, Zenon DEF QuotientDigitDone, Done, Again
  <1> QED  BY <1>2, <1>3, <1>4 DEF Divide

LEMMA DivideKeepsPace ==
    ASSUME IInv, DataWordTime, Counted, SearchComesLast, operation \in DivideOps,
           DivideProgress
    PROVE  DivideProgress'
  <1>1. /\ op_end = 5 /\ ~Step("Look_Up_Address")
        /\ op_it = 1 => Step("Enable_Distributor")
        /\ op_it = 2 => Step("Data_to_Distributor")
        /\ op_it = 3 => Step("Divide")
        /\ op_it = 4 => Step("Remove_Interlock_A")
    <2>1. op_seq = <<"Enable_Distributor", "Data_to_Distributor", "Divide",
                     "Remove_Interlock_A">>
      BY ClassSteps
    <2> QED  BY <2>1, DataWordTimeFacts, StepOfFour
  <1>2. /\ TypeOK /\ op_it \in 1 .. 5 /\ inst_it \in 1 .. 3
        /\ op_it' \in {op_it, op_it + 1}
        /\ op_it = op_end => op_it' = op_end
        /\ shift_count \in Nat
    BY <1>1, DataWordTimeFacts DEF TypeOK
  <1>3. /\ op_it' # op_end => address_register' = address_register
        /\ op_it' = op_end => inst_it' = inst_it + 1
        /\ op_it < op_end => inst_it = 1
    <2>1. operation \notin ArithmeticOps
      BY DurationClasses
    <2> QED  BY <1>1, <2>1, SearchAdvances, AddressStays DEF SearchComesLast
  <1>4. BandSize \in Nat \ {0} /\ WordSize \in Nat \ {0}
    BY SizesAssumption
  <1> HIDE DEF Wait
  <1>5. CASE op_it = 1
    <2>1. Enable
      BY <1>1, <1>5, DataWordTimeFacts, StepTaken
    <2>2. op_it' = 2 /\ UNCHANGED <<shift_count, shift_next>>
      BY <1>5, <2>1 DEF Enable, Done, step_vars, member_vars
    <2>3. Wait(address_register)' \in 0 .. BandSize - 1
      BY <1>1, <1>3, <2>2, WaitFacts
    <2> QED  BY <1>4, <1>5, <2>2, <2>3 DEF DivideProgress, Counted
  <1>6. CASE op_it = 2
    <2>1. Data_to_Distributor
      BY <1>1, <1>6, DataWordTimeFacts, StepTaken
    <2>2. \/ op_it' = op_it + 1
          \/ op_it' = op_it /\ ~UnderHead(address_register)
      BY <2>1, WaitingStep
    <2>3. UNCHANGED <<shift_count, shift_next>>
      BY <2>1 DEF Data_to_Distributor, member_vars
    <2>4. /\ word_times + Wait(address_register) <= BandSize
          /\ shift_count = 0 /\ shift_next
      BY <1>6 DEF DivideProgress
    <2>5. word_times' <= BandSize + 1 /\ (op_it' = 2 => word_times' + Wait(address_register)' <= BandSize)
      BY <1>1, <1>3, <1>4, <1>6, <2>2, <2>4, WaitFacts DEF Counted
    <2>6. op_it' = 2 \/ op_it' = 3
      BY <1>6, <2>2
    <2> QED  BY <1>4, <2>3, <2>4, <2>5, <2>6 DEF DivideProgress, Counted, Base
  <1>7. CASE op_it = 3
    <2> DEFINE q == Mag(lower_accumulator) % Base
               W == BandSize + 1 + 11 * shift_count
    <2>1. Divide
      BY <1>1, <1>7, DataWordTimeFacts, StepTaken
    <2>2. q \in 0 .. 9
      <3>1. Mag(lower_accumulator) \in Nat
        BY <1>2, WordFields, BaseFacts DEF TypeOK
      <3> QED  BY <3>1 DEF Base
    <2> HIDE DEF q
    <2>3. /\ shift_next => shift_count < WordSize /\ word_times <= W
          /\ ~shift_next => /\ shift_count <= WordSize
                            /\ word_times <= (W + q) - 10
      BY <1>2, <1>4, <1>7, <2>2 DEF DivideProgress, Base, q
    <2>4. ~shift_next => word_times' <= W /\ W <= BandSize + 1 + 11 * WordSize
      BY <1>2, <1>4, <2>2, <2>3 DEF Counted
    <2>5. CASE /\ shift_next /\ ~shift_next'
               /\ shift_count' = CountedShift
               /\ Mag(lower_accumulator') % Base = 0
               /\ op_it' = op_it
      <3>1. shift_count' = shift_count + 1 /\ shift_count + 1 <= WordSize
        BY <1>2, <1>4, <2>3, <2>5 DEF CountedShift
      <3>2. word_times' <= BandSize + 2 + 11 * (shift_count' - 1) + 0
        BY <1>2, <1>4, <2>3, <2>5, <3>1 DEF Counted
      <3> QED  BY <1>7, <2>5, <3>1, <3>2 DEF DivideProgress, Base
    <2>6. CASE /\ ~shift_next /\ ~shift_next'
               /\ shift_count' = shift_count
               /\ Mag(lower_accumulator) % Base # Base - 1
               /\ Mag(lower_accumulator') % Base = (Mag(lower_accumulator) % Base) + 1
               /\ op_it' = op_it
      <3>1. word_times' <= BandSize + 2 + 11 * (shift_count' - 1) + (q + 1)
        BY <1>2, <1>4, <2>2, <2>3, <2>6 DEF Counted
      <3> QED  BY <1>7, <2>3, <2>6, <3>1 DEF DivideProgress, Base, q
    <2>7. CASE /\ ~shift_next /\ shift_next'
               /\ shift_count' = shift_count
               /\ op_it' = IF shift_count < WordSize THEN op_it ELSE op_it + 1
      <3>1. CASE shift_count < WordSize
        <4>1. op_it' = 3 /\ word_times' <= BandSize + 1 + 11 * shift_count'
          BY <1>7, <2>4, <2>7, <3>1
        <4> QED  BY <2>7, <3>1, <4>1 DEF DivideProgress, Base
      <3>2. CASE ~(shift_count < WordSize)
        <4>1. op_it' = 4 /\ word_times' <= BandSize + 1 + 11 * WordSize
          BY <1>2, <1>4, <1>7, <2>3, <2>4, <2>7, <3>2 DEF Counted
        <4> QED  BY <4>1 DEF DivideProgress, Base
      <3> QED  BY <3>1, <3>2
    <2>8. CASE ~shift_next /\ op_it' = op_it + 1
      <3>1. op_it' = 4 /\ word_times' <= BandSize + 1 + 11 * WordSize
        BY <1>2, <1>4, <1>7, <2>4, <2>8 DEF Counted
      <3> QED  BY <3>1 DEF DivideProgress, Base
    <2> QED  BY <1>2, <2>1, <2>5, <2>6, <2>7, <2>8, DivideCounts
  <1>8. CASE op_it = 4
    <2>1. op_it' = 5
      BY <1>1, <1>8, DataWordTimeFacts, OperationStepSignals
    <2>2. word_times <= BandSize + 1 + (Base + 1) * WordSize
      BY <1>8 DEF DivideProgress
    <2> QED
      BY <1>1, <1>3, <1>4, <1>8, <2>1, <2>2 DEF DivideProgress, Counted, Base
  <1>9. CASE op_it = 5
    <2>1. word_times <= BandSize + (Base + 1) * WordSize + inst_it
      BY <1>9 DEF DivideProgress
    <2> QED
      BY <1>1, <1>2, <1>3, <1>4, <1>9, <2>1 DEF DivideProgress, Counted, Base
  <1> QED  BY <1>2, <1>5, <1>6, <1>7, <1>8, <1>9

----------------------------------------------------------------------------
(* Table lookup.                                                              *)

(* The bands, counted in words.                                               *)
LEMMA BandProducts ==
    ASSUME NEW b \in Nat
    PROVE  /\ BandSize * b \in Nat
           /\ BandSize * (b + 1) = BandSize * b + BandSize
           /\ BandSize * (1 + b) = BandSize * b + BandSize
           /\ BandSize * (b + 2) = BandSize * b + 2 * BandSize
           /\ BandSize * (1 + (b + 1)) = BandSize * b + 2 * BandSize
           /\ BandSize * (NBands + 1) \in Nat
           /\ b < NBands => BandSize * b + 2 * BandSize <= BandSize * (NBands + 1)
  <1>1. BandSize \in Nat /\ NBands \in Nat
    BY SizesAssumption
  <1>2. /\ BandSize * b \in Nat
        /\ BandSize * (b + 1) = BandSize * b + BandSize
        /\ BandSize * (1 + b) = BandSize * b + BandSize
        /\ BandSize * (b + 2) = BandSize * b + 2 * BandSize
        /\ BandSize * (1 + (b + 1)) = BandSize * b + 2 * BandSize
        /\ BandSize * (NBands + 1) \in Nat
    BY <1>1
  <1>3. ASSUME b < NBands
        PROVE  BandSize * b + 2 * BandSize <= BandSize * (NBands + 1)
    <2>1. PICK k \in Nat : NBands = b + 1 + k
      <3>1. NBands - (b + 1) \in Nat /\ NBands = b + 1 + (NBands - (b + 1))
        BY <1>1, <1>3
      <3> QED  BY <3>1
    <2>2. BandSize * (NBands + 1) = BandSize * b + 2 * BandSize + BandSize * k
      BY <1>1, <2>1
    <2>3. BandSize * k \in Nat
      BY <1>1
    <2> QED  BY <1>1, <1>2, <2>2, <2>3
  <1> QED  BY <1>2, <1>3

(* An address lies in its band.                                               *)
LEMMA BandOfAddress ==
    ASSUME NEW a \in Addresses
    PROVE  /\ band_of_address(a) \in Nat
           /\ BandSize * band_of_address(a) <= a
           /\ a < BandSize * band_of_address(a) + BandSize
           /\ \A b \in Nat : BandSize * b <= a => band_of_address(a) >= b
  <1> DEFINE q == a \div BandSize
             r == a % BandSize
  <1>1. a \in Nat /\ BandSize \in Nat \ {0}
    BY SizesAssumption DEF Addresses
  <1>2. q \in Nat /\ r \in 0 .. BandSize - 1 /\ a = BandSize * q + r
    BY <1>1, DivMod, Zenon
  <1>3. BandSize * q \in Nat
    BY <1>1, <1>2
  <1> HIDE DEF q, r
  <1>4. \A b \in Nat : BandSize * b <= a => q >= b
    <2> SUFFICES ASSUME NEW b \in Nat, BandSize * b <= a, q < b PROVE FALSE
      BY <1>2
    <2>1. PICK k \in Nat : b = q + 1 + k
      <3>1. b - (q + 1) \in Nat /\ b = q + 1 + (b - (q + 1))
        BY <1>2
      <3> QED  BY <3>1
    <2>2. BandSize * b = BandSize * q + BandSize + BandSize * k
      BY <1>1, <1>2, <2>1
    <2>3. BandSize * k \in Nat
      BY <1>1
    <2> QED  BY <1>1, <1>2, <1>3, <2>2, <2>3
  <1>5. BandSize * q <= a /\ a < BandSize * q + BandSize
    BY <1>1, <1>2, <1>3
  <1> QED  BY <1>2, <1>4, <1>5 DEF band_of_address, q

(* Waiting for a band to begin: one word time more, and a drum one place on.  *)
LEMMA LookUpWaits ==
    ASSUME IInv, DataWordTime, Counted, Look_Up_Address,
           drum_index > 0, lookup_band = -1, word_times <= drum_index
    PROVE  /\ lookup_band' = -1 /\ op_it' = op_it
           /\ SteppedAddress = address_register
           /\ drum_index' = 0 =>
                 word_times' <= BandSize * (1 + band_of_address(address_register))
           /\ drum_index' > 0 => word_times' <= drum_index'
  <1> DEFINE b == band_of_address(address_register)
  <1>1. LookupBand = -1
    BY DEF LookupBand
  <1>2. lookup_band' = -1 /\ op_it' = op_it /\ SteppedAddress = address_register
    BY <1>1 DEF Look_Up_Address, Again, SteppedAddress
  <1>3. /\ drum_index' = IF drum_index = BandSize - 1 THEN 0 ELSE drum_index + 1
        /\ drum_index \in 0 .. BandSize - 1 /\ BandSize \in Nat \ {0}
    BY DataWordTimeFacts, DrumTurns, SizesAssumption DEF TypeOK, DrumTypeOK, Indices
  <1>4. b \in Nat
    BY DataWordTimeFacts, BandOfAddress
  <1> HIDE DEF b
  <1>5. BandSize * (1 + b) = BandSize * b + BandSize /\ BandSize * b \in Nat
    BY <1>4, BandProducts
  <1>6. drum_index' = 0 => word_times' <= BandSize * (1 + b)
    BY <1>3, <1>5 DEF Counted
  <1>7. drum_index' > 0 => word_times' <= drum_index'
    BY <1>3 DEF Counted
  <1> QED  BY <1>2, <1>6, <1>7 DEF b

(* A comparison in band b, begun at the address start: the next address lies  *)
(* as far behind the drum as this one.                                        *)
LEMMA LookUpCompares ==
    ASSUME IInv, DataWordTime, Counted, Look_Up_Address,
           NEW b \in Nat, b = LookupBand, b < NBands,
           BandSize * b <= address_register - drum_index,
           address_register - drum_index < BandSize * b + BandSize,
           word_times <= BandSize * b + BandSize + drum_index
    PROVE  /\ lookup_band' = b
           /\ word_times' <= BandSize * (NBands + 1)
           /\ op_it' = op_it => SteppedAddress = address_register + 1
           /\ op_it' \in {op_it, op_it + 1}
  <1>1. lookup_band' = b /\ op_it' \in {op_it, op_it + 1}
    BY DEF Look_Up_Address, Done, Again
  <1>2. /\ drum_index \in 0 .. BandSize - 1 /\ BandSize \in Nat \ {0}
        /\ address_register \in Nat
    BY DataWordTimeFacts, SizesAssumption DEF TypeOK, DrumTypeOK, Indices, Addresses
  <1>3. /\ BandSize * b \in Nat
        /\ BandSize * b + 2 * BandSize <= BandSize * (NBands + 1)
        /\ BandSize * (NBands + 1) \in Nat
    BY BandProducts
  <1>4. word_times' <= BandSize * (NBands + 1)
    BY <1>2, <1>3 DEF Counted
  <1>5. op_it' = op_it => SteppedAddress = address_register + 1
    <2> SUFFICES ASSUME op_it' = op_it PROVE SteppedAddress = address_register + 1
      OBVIOUS
    <2>1. op_it \in Nat
      BY DataWordTimeFacts
    <2>2. Step("Look_Up_Address") /\ LookupBand >= 0 /\ LookupPasses
      BY <2>1 DEF Look_Up_Address, Done
    <2>3. address_register + 1 < AddressBase /\ AddressBase \in Nat \ {0}
      BY <1>2, <1>3, LookUpAssumption, SizesAssumption
    <2>4. (address_register + 1) % AddressBase = address_register + 1
      BY <1>2, <2>3
    <2> QED  BY <2>2, <2>4 DEF SteppedAddress
  <1> QED  BY <1>1, <1>4, <1>5

(* The band that is compared is on the drum, or the program has aborted.      *)
LEMMA LookUpOnDrum ==
    ASSUME IInv, DataWordTime, Look_Up_Address, drum_index = 0
    PROVE  LookupBand \in Nat /\ LookupBand < NBands
  <1>1. LookupBand \in Nat
    BY DataWordTimeFacts, BandOfAddress DEF LookupBand
  <1>2. Step("Look_Up_Address") /\ ~DataAborts
    BY DataWordTimeFacts DEF Look_Up_Address
  <1>3. BandSize - drum_index > 2
    BY LookUpAssumption, SizesAssumption
  <1>4. NBands \in Nat
    BY SizesAssumption
  <1> QED  BY <1>1, <1>2, <1>3, <1>4 DEF DataAborts

(* In a band the comparison goes on: to the next address, at the end of the   *)
(* band to the first of the next one.                                         *)
LEMMA LookUpGoesOn ==
    ASSUME IInv, DataWordTime, Counted, Look_Up_Address, op_it' = op_it,
           address_register' = SteppedAddress,
           NEW b \in Nat, b = LookupBand, b < NBands,
           BandSize * b <= address_register - drum_index,
           address_register - drum_index < BandSize * b + BandSize,
           word_times <= BandSize * b + BandSize + drum_index
    PROVE  LookingUp'
  <1>1. /\ lookup_band' = b /\ address_register' = address_register + 1
        /\ word_times' <= BandSize * (NBands + 1)
    BY LookUpCompares
  <1>2. /\ drum_index' = IF drum_index = BandSize - 1 THEN 0 ELSE drum_index + 1
        /\ drum_index \in 0 .. BandSize - 1 /\ BandSize \in Nat \ {0}
        /\ address_register \in Nat
    BY DataWordTimeFacts, DrumTurns, SizesAssumption
       DEF TypeOK, DrumTypeOK, Indices, Addresses
  <1>3. /\ BandSize * b \in Nat
        /\ BandSize * (b + 1) = BandSize * b + BandSize
        /\ BandSize * (1 + b) = BandSize * b + BandSize
        /\ BandSize * (1 + (b + 1)) = BandSize * b + 2 * BandSize
    BY BandProducts
  <1>4. CASE drum_index = BandSize - 1
    <2> DEFINE c == band_of_address(address_register')
    <2>1. drum_index' = 0
      BY <1>2, <1>4
    <2>2. BandSize * (b + 1) <= address_register'
      BY <1>1, <1>2, <1>3, <1>4
    <2>3. address_register' \in Addresses
      <3>1. SteppedAddress \in Addresses
        BY DataWordTimeFacts, SteppedAddressType
      <3> QED  BY <3>1
    <2>4. c \in Nat /\ c >= b + 1
      BY <2>2, <2>3, BandOfAddress
    <2>5. band_of_address(address_register)' = c
      BY DEF band_of_address
    <2> HIDE DEF c
    <2>6. BandSize * (1 + (b + 1)) <= BandSize * (1 + c)
      <3>1. PICK k \in Nat : c = b + 1 + k
        <4>1. c - (b + 1) \in Nat /\ c = b + 1 + (c - (b + 1))
          BY <2>4
        <4> QED  BY <4>1
      <3>2. BandSize * (1 + c) = BandSize * (1 + (b + 1)) + BandSize * k
        BY <1>2, <3>1
      <3>3. BandSize * k \in Nat
        BY <1>2
      <3> QED  BY <1>2, <1>3, <3>2, <3>3
    <2>7. word_times' <= BandSize * (1 + c)
      <3>1. word_times' <= BandSize * (1 + (b + 1))
        BY <1>2, <1>3, <1>4 DEF Counted
      <3>2. BandSize * (1 + c) \in Nat
        BY <1>2, <2>4
      <3> QED  BY <1>2, <1>3, <2>6, <3>1, <3>2 DEF Counted
    <2> QED  BY <1>1, <2>1, <2>5, <2>7 DEF LookingUp
  <1>5. CASE drum_index # BandSize - 1
    <2>1. drum_index' = drum_index + 1
      BY <1>2, <1>5
    <2>2. address_register' - drum_index' = address_register - drum_index
      BY <1>1, <1>2, <2>1
    <2>3. word_times' <= BandSize * (1 + b) + drum_index'
      BY <1>2, <1>3, <2>1 DEF Counted
    <2> QED  BY <1>1, <1>2, <1>3, <2>1, <2>2, <2>3 DEF LookingUp
  <1> QED  BY <1>4, <1>5

LEMMA LookUpPlace ==
    ASSUME IInv, DataWordTime, Look_Up_Address, LookingUp,
           ~(drum_index > 0 /\ lookup_band = -1)
    PROVE  /\ LookupBand \in Nat /\ LookupBand < NBands
           /\ BandSize * LookupBand <= address_register - drum_index
           /\ address_register - drum_index < BandSize * LookupBand + BandSize
           /\ word_times <= BandSize * LookupBand + BandSize + drum_index
  <1> DEFINE b == LookupBand
  <1> SUFFICES /\ b \in Nat /\ b < NBands
               /\ BandSize * b <= address_register - drum_index
               /\ address_register - drum_index < BandSize * b + BandSize
               /\ word_times <= BandSize * b + BandSize + drum_index
    OBVIOUS
  <1>1. /\ drum_index \in 0 .. BandSize - 1 /\ BandSize \in Nat \ {0}
        /\ address_register \in Nat /\ lookup_band \in Int
    BY DataWordTimeFacts, SizesAssumption DEF TypeOK, DrumTypeOK, Indices, Addresses
  <1>2. ~(drum_index > 0 /\ lookup_band = -1)
    OBVIOUS
  <1>3. CASE drum_index = 0
    <2>1. b = band_of_address(address_register)
      BY <1>3 DEF LookupBand
    <2>2. b \in Nat /\ b < NBands
      BY <1>3, LookUpOnDrum
    <2>3. BandSize * b <= address_register /\ address_register < BandSize * b + BandSize
      BY <2>1, DataWordTimeFacts, BandOfAddress
    <2>4. word_times <= BandSize * (1 + b)
      BY <1>3, <2>1 DEF LookingUp
    <2> HIDE DEF b
    <2>5. BandSize * (1 + b) = BandSize * b + BandSize /\ BandSize * b \in Nat
      BY <2>2, BandProducts
    <2> QED  BY <1>1, <1>3, <2>2, <2>3, <2>4, <2>5
  <1>4. CASE drum_index # 0
    <2>1. b = lookup_band /\ drum_index > 0 /\ lookup_band >= 0 /\ b \in Nat
      BY <1>1, <1>2, <1>4 DEF LookupBand, LookingUp
    <2>2. /\ b < NBands
          /\ BandSize * b <= address_register - drum_index
          /\ address_register - drum_index < BandSize * (b + 1)
          /\ word_times <= BandSize * (1 + b) + drum_index
      BY <2>1 DEF LookingUp
    <2> HIDE DEF b
    <2>3. /\ BandSize * (1 + b) = BandSize * b + BandSize
          /\ BandSize * (b + 1) = BandSize * b + BandSize
          /\ BandSize * b \in Nat
      BY <2>1, BandProducts
    <2> QED  BY <1>1, <2>1, <2>2, <2>3
  <1> QED  BY <1>3, <1>4

LEMMA LookUpStep ==
    ASSUME IInv, DataWordTime, Counted, Look_Up_Address, LookingUp,
           op_it' = op_it => address_register' = SteppedAddress
    PROVE  /\ op_it' \in {op_it, op_it + 1}
           /\ op_it' = op_it => LookingUp'
           /\ op_it' = op_it + 1 => word_times' <= BandSize * (NBands + 1)
  <1>1. /\ drum_index \in 0 .. BandSize - 1 /\ BandSize \in Nat \ {0}
        /\ address_register \in Nat /\ lookup_band \in Int /\ op_it \in Nat
    BY DataWordTimeFacts, SizesAssumption DEF TypeOK, DrumTypeOK, Indices, Addresses
  <1>2. CASE drum_index > 0 /\ lookup_band = -1
    <2>1. word_times <= drum_index
      BY <1>2 DEF LookingUp
    <2>2. /\ lookup_band' = -1 /\ op_it' = op_it
          /\ SteppedAddress = address_register
          /\ drum_index' = 0 =>
                word_times' <= BandSize * (1 + band_of_address(address_register))
          /\ drum_index' > 0 => word_times' <= drum_index'
      BY <1>2, <2>1, LookUpWaits
    <2>3. band_of_address(address_register)' = band_of_address(address_register)
      BY <2>2 DEF band_of_address
    <2>4. word_times' <= BandSize * (NBands + 1)
      <3>1. /\ BandSize * 0 + 2 * BandSize <= BandSize * (NBands + 1)
            /\ BandSize * (NBands + 1) \in Nat
        BY BandProducts, SizesAssumption
      <3> QED  BY <1>1, <2>1, <3>1 DEF Counted
    <2> QED  BY <1>1, <2>2, <2>3, <2>4 DEF LookingUp
  <1>3. CASE ~(drum_index > 0 /\ lookup_band = -1)
    <2> DEFINE b == LookupBand
    <2>1. /\ b \in Nat /\ b < NBands
          /\ BandSize * b <= address_register - drum_index
          /\ address_register - drum_index < BandSize * b + BandSize
          /\ word_times <= BandSize * b + BandSize + drum_index
      BY <1>3, LookUpPlace
    <2> HIDE DEF b
    <2>2. b = LookupBand
      BY DEF b
    <2>3. op_it' \in {op_it, op_it + 1}
      BY <2>1, <2>2, LookUpCompares
    <2>4. op_it' = op_it + 1 => word_times' <= BandSize * (NBands + 1)
      BY <2>1, <2>2, LookUpCompares
    <2>5. op_it' = op_it => LookingUp'
      BY <2>1, <2>2, LookUpGoesOn
    <2> QED  BY <2>3, <2>4, <2>5
  <1> QED  BY <1>2, <1>3

LEMMA LookUpKeepsPace ==
    ASSUME IInv, DataWordTime, Counted, SearchComesLast, operation = table_lookup,
           LookUpProgress
    PROVE  LookUpProgress'
  <1> DEFINE N == BandSize * (NBands + 1)
  <1>1. /\ op_end = 5
        /\ op_it = 1 => Step("Enable_Position_Set")
        /\ op_it = 2 => Step("Look_Up_Address")
        /\ op_it = 3 => Step("Address_to_Program_Register")
        /\ op_it = 4 => Step("Insert_Address_in_Lower")
    <2>1. op_seq = <<"Enable_Position_Set", "Look_Up_Address",
                     "Address_to_Program_Register", "Insert_Address_in_Lower">>
      BY ClassSteps
    <2> QED  BY <2>1, DataWordTimeFacts, StepOfFour
  <1>2. /\ op_it \in 1 .. 5 /\ inst_it \in 1 .. 3
        /\ op_it' \in {op_it, op_it + 1}
        /\ op_it = op_end => op_it' = op_end
    BY <1>1, DataWordTimeFacts
  <1>3. /\ op_it' # op_end => address_register' = SteppedAddress
        /\ op_it' = op_end => inst_it' = inst_it + 1
        /\ op_it < op_end => inst_it = 1
    <2>1. operation \notin ArithmeticOps
      BY DurationClasses
    <2> QED  BY <1>1, <2>1, SearchAdvances DEF SearchComesLast
  <1>4. N \in Nat
    BY SizesAssumption
  <1> HIDE DEF N
  <1>5. CASE op_it = 1
    <2>1. Enable
      BY <1>1, <1>5, DataWordTimeFacts, StepTaken
    <2>2. op_it' = 2 /\ lookup_band' = -1 /\ word_times' = 1
      BY <1>5, <2>1 DEF LookUpProgress, Counted, Enable, Done, step_vars, member_vars
    <2>3. address_register' \in Addresses /\ drum_index' \in Nat
      <3>1. SteppedAddress \in Addresses
        BY DataWordTimeFacts, SteppedAddressType
      <3>2. drum_index' \in Indices
        BY DataWordTimeFacts, WordTimeType
      <3> QED  BY <1>1, <1>3, <2>2, <3>1, <3>2, SizesAssumption DEF Indices
    <2>4. 1 <= BandSize * (1 + band_of_address(address_register'))
      <3> DEFINE c == band_of_address(address_register')
      <3>1. c \in Nat
        BY <2>3, BandOfAddress
      <3> HIDE DEF c
      <3>2. BandSize * (1 + c) = BandSize * c + BandSize /\ BandSize * c \in Nat
        BY <3>1, BandProducts
      <3> QED  BY <3>2, SizesAssumption DEF c
    <2>5. 1 <= BandSize * (NBands + 1)
      <3>1. /\ BandSize * 0 + 2 * BandSize <= BandSize * (NBands + 1)
            /\ BandSize * (NBands + 1) \in Nat
        BY BandProducts, SizesAssumption
      <3> QED  BY <3>1, SizesAssumption
    <2>6. LookingUp'
      BY <2>2, <2>3, <2>4, <2>5 DEF LookingUp, band_of_address
    <2> QED  BY <2>2, <2>6 DEF LookUpProgress
  <1>6. CASE op_it = 2
    <2>1. Look_Up_Address
      BY <1>1, <1>6, DataWordTimeFacts, StepTaken
    <2>2. LookingUp
      BY <1>6 DEF LookUpProgress
    <2>3. op_it' = op_it => address_register' = SteppedAddress
      BY <1>1, <1>3, <1>6
    <2>4. /\ op_it' = op_it => LookingUp'
          /\ op_it' = op_it + 1 => word_times' <= N
      BY <2>1, <2>2, <2>3, LookUpStep DEF N
    <2>5. CASE op_it' = 2
      BY <1>6, <2>4, <2>5 DEF LookUpProgress
    <2>6. CASE op_it' = 3
      BY <1>6, <2>4, <2>6 DEF LookUpProgress, N
    <2> QED  BY <1>2, <1>6, <2>5, <2>6
  <1>7. CASE op_it = 3
    <2>1. Enable
      BY <1>1, <1>7, DataWordTimeFacts, StepTaken
    <2>2. op_it' = 4
      BY <1>7, <2>1 DEF Enable, Done
    <2>3. word_times' <= N + 1
      BY <1>4, <1>7 DEF LookUpProgress, Counted, N
    <2> QED  BY <2>2, <2>3 DEF LookUpProgress, N
  <1>8. CASE op_it = 4
    <2>1. Insert_Address_in_Lower
      BY <1>1, <1>8, DataWordTimeFacts, StepTaken
    <2>2. op_it' = 5 /\ inst_it' = 2
      BY <1>1, <1>3, <1>8, <2>1 DEF Insert_Address_in_Lower, Done
    <2>3. word_times <= N + 1
      BY <1>8 DEF LookUpProgress, N
    <2>4. word_times' <= N + inst_it'
      BY <1>4, <2>2, <2>3 DEF Counted
    <2> QED  BY <2>2, <2>4 DEF LookUpProgress, N
  <1>9. CASE op_it = 5
    <2>1. op_it' = 5 /\ inst_it' = inst_it + 1
      BY <1>1, <1>2, <1>3, <1>9
    <2>2. word_times <= N + inst_it
      BY <1>9 DEF LookUpProgress, N
    <2>3. word_times' <= N + inst_it'
      BY <1>2, <1>4, <2>1, <2>2 DEF Counted
    <2> QED  BY <2>1, <2>3 DEF LookUpProgress, N
  <1> QED  BY <1>2, <1>5, <1>6, <1>7, <1>8, <1>9

----------------------------------------------------------------------------
(* The instruction half-cycle, and the steps between the half-cycles.         *)

LEMMA FetchKeepsPace ==
    ASSUME IInv, InstructionWordTime, Counted, FetchProgress
    PROVE  FetchProgress'
  <1>1. /\ TypeOK /\ DrumStep /\ ~InstructionAborts /\ BandSize \in Nat \ {0}
        /\ address_register \in Addresses \cup {Blank} /\ inst_it \in 1 .. 3
    BY SizesAssumption DEF IInv, TypeOK, InstructionWordTime, WordTime
  <1> HIDE DEF Wait
  <1>2. CASE Instruction_to_Program_Register
    <2>1. inst_it = 1 /\ address_register' = address_register
      BY <1>2 DEF Instruction_to_Program_Register
    <2>2. address_register \in Addresses
      BY <1>1, <2>1 DEF InstructionAborts, InstructionAtHead, Readable
    <2>3. address_register # Blank
      BY <2>2, BlankAssumption
    <2>4. /\ Wait(address_register) \in 0 .. BandSize - 1
          /\ word_times + Wait(address_register) <= BandSize - 1
      BY <1>1, <2>1, <2>2, <2>3, WaitRange DEF FetchProgress
    <2>5. CASE InstructionAtHead
      <3>1. inst_it' = 2
        BY <1>2, <2>5 DEF Instruction_to_Program_Register
      <3> QED  BY <1>1, <2>4, <3>1 DEF FetchProgress, Counted
    <2>6. CASE ~InstructionAtHead
      <3>1. inst_it' = 1 /\ ~UnderHead(address_register)
        BY <1>2, <2>1, <2>6 DEF Instruction_to_Program_Register, InstructionAtHead
      <3>2. Wait(address_register)' = Wait(address_register) - 1
        BY <1>1, <2>1, <2>2, <3>1, WaitAfter
      <3>3. word_times' + Wait(address_register)' <= BandSize - 1
        BY <1>1, <2>4, <3>2 DEF Counted
      <3> QED  BY <2>1, <2>3, <3>1, <3>3 DEF FetchProgress
    <2> QED  BY <2>5, <2>6
  <1>3. CASE Op_and_Address_to_Registers
    <2>1. inst_it = 2 /\ inst_it' = 3
      BY <1>3 DEF Op_and_Address_to_Registers
    <2> QED  BY <1>1, <2>1 DEF FetchProgress, Counted
  <1> QED  BY <1>2, <1>3 DEF InstructionWordTime

(* A half-cycle that begins has the longest wait before it.                   *)
LEMMA FetchBegins ==
    ASSUME TypeOK', pc' = "instruction", inst_it' = 1, word_times' = 0
    PROVE  FetchProgress'
  <1>1. /\ drum_index' \in 0 .. BandSize - 1 /\ BandSize \in Nat \ {0}
        /\ address_register' \in Addresses \cup {Blank}
    BY SizesAssumption DEF TypeOK, DrumTypeOK, Indices
  <1>2. CASE address_register' = Blank
    BY <1>2 DEF FetchProgress
  <1>3. CASE address_register' # Blank
    <2> DEFINE w(d, i) == IF d <= i THEN i - d ELSE (i + BandSize) - d
    <2>1. index_of_address(address_register') \in 0 .. BandSize - 1
      BY <1>1, <1>3, DrumFacts DEF Indices
    <2>2. \A d, i \in 0 .. BandSize - 1 : w(d, i) \in 0 .. BandSize - 1
      BY <1>1
    <2>3. Wait(address_register)' = w(drum_index', index_of_address(address_register'))
      BY DEF Wait, index_of_address
    <2> HIDE DEF w
    <2>4. Wait(address_register)' \in 0 .. BandSize - 1
      BY <1>1, <2>1, <2>2, <2>3
    <2> QED  BY <1>1, <1>3, <2>4 DEF FetchProgress
  <1> QED  BY <1>2, <1>3

LEMMA DataBegins ==
    ASSUME IInv', BeginData, word_times' = 0
    PROVE  DataProgress'
  <1>1. /\ op_it' = 1 /\ inst_it' = 1 /\ operation' = operation_register
        /\ shift_next' = TRUE /\ lookup_band' = -1 /\ run_time' = run_time
        /\ operation_register \notin ShiftOps => shift_count' = 0
    BY DEF BeginData
  <1>2. BandSize \in Nat \ {0} /\ WordSize \in Nat \ {0} /\ NBands \in Nat \ {0}
    BY SizesAssumption
  <1>3. SearchComesLast'
    BY <1>1 DEF SearchComesLast
  <1>4. ArithmeticProgress' /\ LoadProgress' /\ StoreWordProgress'
    BY <1>1 DEF ArithmeticProgress, LoadProgress, StoreWordProgress
  <1>5. ShiftProgress'
    <2>1. run_time' \in Nat
      BY RunTimeAssumption DEF IInv, TypeOK
    <2>2. \A t \in Nat : t % 2 \in {0, 1}
      OBVIOUS
    <2>3. run_time' % 2 \in {0, 1}
      BY <2>1, <2>2
    <2> QED  BY <1>1, <2>3 DEF ShiftProgress
  <1>6. operation' \in DivideOps => DivideProgress'
    BY <1>1, DurationClasses DEF DivideProgress
  <1>7. LookUpProgress'
    BY <1>1 DEF LookUpProgress
  <1> QED  BY <1>1, <1>3, <1>4, <1>5, <1>6, <1>7 DEF DataProgress

(* The data half-cycle, whatever its operation.                               *)
LEMMA DataKeepsPace ==
    ASSUME IInv, DataWordTime, Counted, DataProgress
    PROVE  DataProgress'
  <1>1. operation' = operation
    BY DataWordTimeFacts
  <1>2. SearchComesLast'
    <2>1. CASE operation \in ArithmeticOps
      BY <1>1, <2>1 DEF SearchComesLast
    <2>2. CASE operation \notin ArithmeticOps
      BY <2>2, SearchAdvances DEF DataProgress
    <2> QED  BY <2>1, <2>2
  <1>3. operation \in StepLessOps => word_times' <= inst_it' - 1
    BY StepLessKeeps DEF DataProgress
  <1>4. operation \in ArithmeticOps => ArithmeticProgress'
    BY ArithmeticKeepsPace DEF DataProgress
  <1>5. operation \in {load_distributor, store_distributor} \cup StoreAddressOps =>
           LoadProgress'
    BY LoadKeepsPace DEF DataProgress, LoadOps
  <1>6. operation \in StoreWordOps => StoreWordProgress'
    BY StoreWordKeepsPace DEF DataProgress
  <1>7. operation \in ShiftOps => ShiftProgress'
    BY ShiftKeepsPace DEF DataProgress
  <1>8. operation \in DivideOps => DivideProgress'
    BY DivideKeepsPace DEF DataProgress
  <1>9. operation = table_lookup => LookUpProgress'
    BY LookUpKeepsPace DEF DataProgress
  <1> QED  BY <1>1, <1>2, <1>3, <1>4, <1>5, <1>6, <1>7, <1>8, <1>9 DEF DataProgress

LEMMA InitProgress == HInit => Progress
  BY DEF HInit, Init, Progress

LEMMA NextProgress ==
    ASSUME IInv, IInv', Progress, [HNext]_hvars
    PROVE  Progress'
  <1>1. word_times \in Nat
    BY DEF Progress
  <1>2. CASE InstructionWordTime /\ HNext
    <2>1. Counted /\ pc = "instruction" /\ pc' = "instruction"
      BY <1>1, <1>2, WordTimeCounted DEF IInv, InstructionWordTime, Counted
    <2>2. FetchProgress'
      BY <1>2, <2>1, FetchKeepsPace DEF Progress
    <2> QED  BY <2>1, <2>2 DEF Progress, Counted
  <1>3. CASE DataWordTime /\ HNext
    <2>1. Counted /\ pc = "data" /\ pc' = "data"
      BY <1>1, <1>3, DataWordTimeFacts, WordTimeCounted DEF Counted
    <2>2. DataProgress'
      BY <1>3, <2>1, DataKeepsPace DEF Progress
    <2> QED  BY <2>1, <2>2 DEF Progress, Counted
  <1>4. CASE (Run \/ EndData) /\ HNext
    <2>1. /\ pc' # pc /\ run_time' = run_time
          /\ pc' \in {"idle", "instruction", "decode"}
          /\ inst_it' = 1
      BY <1>4 DEF Run, EndData, IInv, SearchPosition, machine_vars, local_vars
    <2>2. word_times' = 0
      BY <1>4, <2>1 DEF HNext
    <2>3. pc' = "instruction" => FetchProgress'
      BY <2>1, <2>2, FetchBegins DEF IInv
    <2> QED  BY <2>1, <2>2, <2>3 DEF Progress
  <1>5. CASE EndInstruction /\ HNext
    <2>1. pc' # pc /\ run_time' = run_time /\ pc' \in {"idle", "decode"}
      BY <1>5 DEF EndInstruction, machine_vars
    <2>2. word_times' = 0
      BY <1>5, <2>1 DEF HNext
    <2> QED  BY <2>1, <2>2 DEF Progress
  <1>6. CASE BeginData /\ HNext
    <2>1. pc' = "data" /\ pc' # pc /\ run_time' = run_time
      BY <1>6 DEF BeginData
    <2>2. word_times' = 0
      BY <1>6, <2>1 DEF HNext
    <2>3. DataProgress'
      BY <1>6, <2>2, DataBegins
    <2> QED  BY <2>1, <2>2, <2>3 DEF Progress
  <1>7. CASE (InstructionAbort \/ DecodeAbort \/ DataAbort \/ ManualAbort) /\ HNext
    <2>1. pc' = "aborted" /\ run_time' = run_time
      BY <1>7 DEF InstructionAbort, DecodeAbort, DataAbort, ManualAbort, Abort,
                  machine_vars
    <2>2. word_times' \in Nat
      BY <1>1, <1>7, <2>1 DEF HNext
    <2> QED  BY <2>1, <2>2 DEF Progress
  <1>8. CASE ManualStart /\ HNext
    <2>1. pc' = "idle" /\ run_time' = run_time
      BY <1>8 DEF ManualStart
    <2>2. word_times' \in Nat
      BY <1>1, <1>8, <2>1 DEF HNext
    <2> QED  BY <2>1, <2>2 DEF Progress
  <1>9. CASE UNCHANGED hvars
    <2>1. UNCHANGED <<word_times, pc, operation, op_it, inst_it, restart, restarted,
                      run_time, drum_index, address_register, lower_accumulator,
                      shift_count, shift_next, lookup_band>>
      BY <1>9 DEF hvars, vars, machine_vars, drum_vars, register_vars, local_vars,
                  member_vars
    <2>2. FetchProgress' = FetchProgress
      BY <2>1 DEF FetchProgress, Wait, index_of_address
    <2>3. DataProgress' = DataProgress
      BY <2>1 DEF DataProgress, SearchComesLast, ArithmeticProgress, LoadProgress,
                  StoreWordProgress, ShiftProgress, DivideProgress, LookUpProgress,
                  LookingUp, Wait, index_of_address, band_of_address, op_end, op_seq,
                  Mag
    <2> QED  BY <2>1, <2>2, <2>3 DEF Progress
  <1>10. HNext => Next
    BY DEF HNext
  <1> QED
    BY <1>2, <1>3, <1>4, <1>5, <1>6, <1>7, <1>8, <1>9, <1>10, Zenon
       DEF Next, ProgramStart, RunStep

----------------------------------------------------------------------------
(* The theorem.                                                               *)

LEMMA FetchDuration ==
    ASSUME IInv, Progress, pc = "instruction"
    PROVE  word_times <= BandSize + 1
  <1>1. /\ BandSize \in Nat \ {0} /\ word_times \in Nat /\ inst_it \in 1 .. 3
        /\ address_register \in Addresses \cup {Blank}
    BY SizesAssumption DEF IInv, TypeOK, Progress
  <1>2. CASE inst_it = 1
    <2>1. CASE address_register = Blank
      BY <1>1, <1>2, <2>1 DEF Progress, FetchProgress
    <2>2. CASE address_register # Blank
      <3>1. Wait(address_register) \in 0 .. BandSize - 1
        BY <1>1, <2>2, WaitRange DEF IInv
      <3>2. word_times + Wait(address_register) <= BandSize - 1
        BY <1>2, <2>2 DEF Progress, FetchProgress
      <3> HIDE DEF Wait
      <3> QED  BY <1>1, <3>1, <3>2
    <2> QED  BY <2>1, <2>2
  <1>3. CASE inst_it > 1
    BY <1>1, <1>3 DEF Progress, FetchProgress
  <1> QED  BY <1>1, <1>2, <1>3

LEMMA DataDuration ==
    ASSUME IInv, Progress, pc = "data", operation # multiply
    PROVE  word_times <= LongestData(operation)
  <1> HIDE DEF Wait
  <1>1. /\ BandSize \in Nat \ {0} /\ WordSize \in Nat \ {0} /\ NBands \in Nat \ {0}
        /\ word_times \in Nat /\ inst_it \in 1 .. 3 /\ op_it \in 1 .. 5
        /\ run_time \in Nat /\ restart \in BOOLEAN /\ shift_count \in Nat
        /\ DataProgress
    BY SizesAssumption, RunTimeAssumption DEF IInv, TypeOK, Progress
  <1>2. op_it <= op_end /\ operation \in ValidOperations
    BY DEF IInv, SearchPosition
  <1>3. Wait(address_register) \in 0 .. BandSize - 1
    BY DataAddress, WaitRange DEF IInv
  <1>4. run_time % 2 \in {0, 1}
    BY <1>1
  <1>5. CASE operation \in StepLessOps
    <2>1. LongestData(operation) = 2
      BY <1>5, DurationClasses DEF LongestData, LoadOps
    <2> QED  BY <1>1, <1>5, <2>1 DEF DataProgress
  <1>6. CASE operation \in ArithmeticOps
    <2>1. LongestData(operation) = BandSize + 5
      BY <1>6, DurationClasses DEF LongestData, LoadOps
    <2>2. word_times <= BandSize + 5
      BY <1>1, <1>3, <1>4, <1>6 DEF DataProgress, ArithmeticProgress
    <2> QED  BY <2>1, <2>2
  <1>7. CASE operation \in LoadOps
    <2>1. LongestData(operation) = BandSize + 2
      BY <1>7, DurationClasses DEF LongestData, LoadOps
    <2>2. op_it \in 1 .. 3 /\ LoadProgress
      BY <1>1, <1>2, <1>7, LoadSteps DEF DataProgress, LoadOps
    <2>3. word_times <= BandSize + 2
      BY <1>1, <1>3, <2>2 DEF LoadProgress
    <2> QED  BY <2>1, <2>3
  <1>8. CASE operation \in StoreWordOps
    <2>1. LongestData(operation) = BandSize + 3
      BY <1>8, DurationClasses DEF LongestData, LoadOps
    <2>2. op_end = 4
      <3>1. op_seq = <<"Enable_Distributor", "Data_to_Distributor", "Store_Distributor">>
        BY <1>8, ClassSteps
      <3> QED  BY <1>1, <3>1, StepOfThree
    <2>3. word_times <= BandSize + 3
      BY <1>1, <1>2, <1>3, <1>8, <2>2 DEF DataProgress, StoreWordProgress
    <2> QED  BY <2>1, <2>3
  <1>9. CASE operation \in ShiftOps
    <2>1. LongestData(operation) = Base + 5
      BY <1>9, DurationClasses DEF LongestData, LoadOps
    <2>2. op_end = 4
      <3>1. op_seq = <<"Enable_Shift_Control", "Shift", "Remove_Interlock_A">>
        BY <1>9, ClassSteps
      <3> QED  BY <1>1, <3>1, StepOfThree
    <2>3. shift_count <= Base
      BY <1>9 DEF IInv, ShiftCounts
    <2>4. word_times <= Base + 5
      BY <1>1, <1>2, <1>4, <1>9, <2>2, <2>3 DEF DataProgress, ShiftProgress, Base
    <2> QED  BY <2>1, <2>4
  <1>10. CASE operation \in DivideOps
    <2>1. LongestData(operation) = BandSize + (Base + 1) * WordSize + 3
      BY <1>10, DurationClasses DEF LongestData, LoadOps
    <2>2. Mag(lower_accumulator) % Base \in 0 .. 9
      <3>1. Mag(lower_accumulator) \in Nat
        BY WordFields, BaseFacts DEF IInv, TypeOK
      <3> QED  BY <3>1 DEF Base
    <2> DEFINE q == Mag(lower_accumulator) % Base
    <2>3. DivideProgress
      BY <1>1, <1>10 DEF DataProgress
    <2>4. q \in 0 .. 9
      BY <2>2
    <2>5. op_it = 3 /\ ~shift_next =>
             /\ shift_count <= WordSize
             /\ word_times <= BandSize + 2 + (Base + 1) * (shift_count - 1) + q
      BY <2>3 DEF DivideProgress
    <2> HIDE DEF q
    <2>6. op_it = 3 => word_times <= BandSize + 11 * WordSize + 3
      BY <1>1, <2>3, <2>4, <2>5 DEF DivideProgress, Base
    <2>7. op_it # 3 => word_times <= BandSize + 11 * WordSize + 3
      BY <1>1, <1>3, <2>3 DEF DivideProgress, Base
    <2> QED  BY <2>1, <2>6, <2>7 DEF Base
  <1>11. CASE operation = table_lookup
    <2> DEFINE N == BandSize * (NBands + 1)
    <2>1. LongestData(operation) = (NBands + 2) * BandSize
      BY <1>11, DurationClasses DEF LongestData, LoadOps
    <2>2. (NBands + 2) * BandSize = N + BandSize /\ N \in Nat
      BY <1>1
    <2>3. LookUpProgress /\ BandSize > 2
      BY <1>1, <1>11, LookUpAssumption DEF DataProgress
    <2>4. op_it = 1 => word_times <= N + BandSize
      BY <1>1, <2>2, <2>3 DEF LookUpProgress
    <2>5. op_it = 2 => word_times <= N + BandSize
      BY <1>1, <2>2, <2>3 DEF LookUpProgress, LookingUp
    <2>6. op_it \in 3 .. 5 => word_times <= N + BandSize
      <3> HIDE DEF N
      <3>1. /\ op_it = 3 => word_times <= N
            /\ op_it = 4 => word_times <= N + 1
            /\ op_it = 5 => word_times <= N + inst_it
        BY <2>3 DEF LookUpProgress, N
      <3> QED  BY <1>1, <2>2, <2>3, <3>1
    <2> QED  BY <1>1, <2>1, <2>2, <2>4, <2>5, <2>6
  <1>12. operation \in StepLessOps \cup ArithmeticOps \cup LoadOps \cup StoreWordOps
                         \cup ShiftOps \cup DivideOps \cup {table_lookup}
    <2> HIDE DEF LoadOps
    <2>1. StoreOps \cup {load_distributor} = StoreWordOps \cup LoadOps
      BY DurationClasses DEF LoadOps
    <2> QED  BY <1>2, <2>1, Zenon DEF ValidOperations, ArithmeticOps
  <1> QED
    BY <1>5, <1>6, <1>7, <1>8, <1>9, <1>10, <1>11, <1>12

(* No half-cycle takes longer than the drum, the even word times and the      *)
(* digits of its operation justify: at most one revolution to fetch, and      *)
(* the time of LongestData to execute, whatever program_start executes.       *)
THEOREM DurationBounded == HSpec => []DurationBound
  <1>1. HInit => IInv /\ Progress
    BY InitInvariant, InitProgress DEF HInit
  <1>2. IInv /\ Progress /\ [HNext]_hvars => IInv' /\ Progress'
    <2> SUFFICES ASSUME IInv, Progress, [HNext]_hvars PROVE IInv' /\ Progress'
      OBVIOUS
    <2>1. [ConsoleNext]_vars
      BY DEF HNext, ConsoleNext, hvars
    <2>2. IInv'
      BY <2>1, NextInvariant
    <2> QED  BY <2>2, NextProgress
  <1>3. IInv /\ Progress => DurationBound
    BY FetchDuration, DataDuration DEF DurationBound
  <1> QED  BY <1>1, <1>2, <1>3, PTL DEF HSpec
=============================================================================
