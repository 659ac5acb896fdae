--------------------------- MODULE ComputerProofs ---------------------------
(***************************************************************************)
(* The control unit under any use of the console, for every size of the     *)
(* machine, every program and every setting of the switches.                *)
(*                                                                          *)
(* TypeOK, RestartInterlock, OperationPending and SearchPosition are each   *)
(* too weak to be inductive; together with ShiftCounts they are (IInv).     *)
(* The proof that a step keeps IInv goes action by action.  The hard one is *)
(* DataWordTime, where an operation step and a step of the search for the   *)
(* next instruction happen in the same word time: its proof first settles   *)
(* the types (OperationStepType), then how the restart signal moves         *)
(* (RestartScheduled), then how the search moves with it (SearchMoves).     *)
(***************************************************************************)
EXTENDS Display, AccumulatorProofs

USE DEF machine_vars, step_vars

(* The sequences of steps, by the class of the operation.                     *)
OtherSequences ==
    {<<"Enable_Distributor", "Data_to_Distributor">>,
     <<"Enable_Position_Set", "Store_Distributor">>,
     <<"Enable_Distributor", "Data_to_Distributor", "Store_Distributor">>,
     <<"Data_to_Distributor", "Store_Distributor">>,
     <<"Enable_Distributor", "Data_to_Distributor", "Multiply",
       "Remove_Interlock_A">>,
     <<"Enable_Distributor", "Data_to_Distributor", "Divide",
       "Remove_Interlock_A">>,
     <<"Enable_Position_Set", "Look_Up_Address",
       "Address_to_Program_Register", "Insert_Address_in_Lower">>,
     << >>}

(* No operation belongs to two of the classes operation_steps tells apart.    *)
LEMMA OperationClasses ==
    /\ AddOps \cap ResetAddOps = {}
    /\ \A op \in ShiftOps : op \notin AddOps \cup ResetAddOps
    /\ \A op \in AddOps \cup ResetAddOps \cup ShiftOps :
          /\ op \notin StoreWordOps \cup StoreAddressOps \cup DivideOps
          /\ op # load_distributor /\ op # store_distributor
          /\ op # multiply /\ op # table_lookup
<1> USE DEF AddOps, ResetAddOps, ShiftOps, DivideOps, StoreWordOps, StoreAddressOps,
        add_to_upper, subtract_from_upper, add_to_lower, subtract_from_lower,
        add_absolute_to_lower, subtract_absolute_from_lower,
        reset_and_add_into_upper, reset_and_subtract_into_upper,
        reset_and_add_into_lower, reset_and_subtract_into_lower,
        reset_and_add_absolute_into_lower,
        reset_and_subtract_absolute_into_lower,
        shift_right, shift_and_round, shift_left, shift_left_and_count,
        divide, divide_and_reset_upper, multiply, table_lookup,
        load_distributor, store_distributor,
        store_lower_in_memory, store_upper_in_memory,
        store_lower_data_address, store_lower_instruction_address
<1>1. AddOps \cap ResetAddOps = {}
    BY SMT
<1>2. \A op \in ShiftOps : op \notin AddOps \cup ResetAddOps
    BY SMT
<1>3. \A op \in AddOps \cup ResetAddOps \cup ShiftOps :
         /\ op \notin StoreWordOps \cup StoreAddressOps \cup DivideOps
         /\ op # load_distributor /\ op # store_distributor
         /\ op # multiply /\ op # table_lookup
    BY SMT
<1> QED
    BY <1>1, <1>2, <1>3

(* operation_steps, by the class of the operation.                           *)
LEMMA StepSequences ==
    ASSUME NEW op
    PROVE  /\ op \in AddOps \cup ResetAddOps =>
                operation_steps(op) =
                   <<"Enable_Distributor", "Data_to_Distributor",
                     "Distributor_to_Accumulator", "Remove_Interlock_A">>
           /\ op \in ShiftOps =>
                operation_steps(op) =
                   <<"Enable_Shift_Control", "Shift", "Remove_Interlock_A">>
           /\ op \notin AddOps \cup ResetAddOps \cup ShiftOps =>
                operation_steps(op) \in OtherSequences
<1>1. ASSUME op \in AddOps \cup ResetAddOps
      PROVE  operation_steps(op) =
                   <<"Enable_Distributor", "Data_to_Distributor",
                     "Distributor_to_Accumulator", "Remove_Interlock_A">>
    BY <1>1, OperationClasses, SMT DEF operation_steps
<1>2. ASSUME op \in ShiftOps
      PROVE  operation_steps(op) =
                   <<"Enable_Shift_Control", "Shift", "Remove_Interlock_A">>
    BY <1>2, OperationClasses, SMT DEF operation_steps
<1>3. ASSUME op \notin AddOps \cup ResetAddOps \cup ShiftOps
      PROVE  operation_steps(op) \in OtherSequences
    BY <1>3, SMT DEF operation_steps, OtherSequences
<1> QED
    BY <1>1, <1>2, <1>3

(* In the remaining sequences only the last step may be Remove_Interlock_A,  *)
(* and none is an addition or a shift.                                       *)
LEMMA OtherSequenceFacts ==
    ASSUME NEW s \in OtherSequences
    PROVE  /\ Len(s) \in 0 .. 4
           /\ \A i \in 1 .. Len(s) :
                 /\ s[i] # "Distributor_to_Accumulator"
                 /\ s[i] # "Shift"
                 /\ s[i] = "Remove_Interlock_A" => i = Len(s)
<1>1. CASE s = <<"Enable_Distributor", "Data_to_Distributor">>
    BY <1>1, SMT
<1>2. CASE s = <<"Enable_Position_Set", "Store_Distributor">>
    BY <1>2, SMT
<1>3. CASE s = <<"Enable_Distributor", "Data_to_Distributor", "Store_Distributor">>
    BY <1>3, SMT
<1>4. CASE s = <<"Data_to_Distributor", "Store_Distributor">>
    BY <1>4, SMT
<1>5. CASE s = <<"Enable_Distributor", "Data_to_Distributor", "Multiply",
              "Remove_Interlock_A">>
    BY <1>5, SMT
<1>6. CASE s = <<"Enable_Distributor", "Data_to_Distributor", "Divide",
              "Remove_Interlock_A">>
    BY <1>6, SMT
<1>7. CASE s = <<"Enable_Position_Set", "Look_Up_Address",
              "Address_to_Program_Register", "Insert_Address_in_Lower">>
    BY <1>7, SMT
<1>8. CASE s = << >>
    BY <1>8, SMT
<1> QED
    BY <1>1, <1>2, <1>3, <1>4, <1>5, <1>6, <1>7, <1>8, Zenon DEF OtherSequences

(* No operation has more than four steps.                                    *)
LEMMA SequenceLengths ==
    ASSUME NEW op
    PROVE  Len(operation_steps(op)) \in 0 .. 4
<1>1. CASE op \in AddOps \cup ResetAddOps
    BY <1>1, StepSequences, SMT
<1>2. CASE op \in ShiftOps
    BY <1>2, StepSequences, SMT
<1>3. CASE op \notin AddOps \cup ResetAddOps \cup ShiftOps
    BY <1>3, StepSequences, OtherSequenceFacts, Zenon
<1> QED
    BY <1>1, <1>2, <1>3

(* Where the steps stand in their sequences.                                  *)
LEMMA StepFacts ==
    ASSUME op_it \in 1 .. 5
    PROVE  /\ op_end \in 1 .. 5
           /\ \A name : Step(name) => op_it < op_end
           /\ operation \in ArithmeticOps =>
                 /\ op_end = 5
                 /\ Step("Distributor_to_Accumulator") <=> op_it = 3
                 /\ Step("Remove_Interlock_A") <=> op_it = 4
                 /\ op_seq[4] = "Remove_Interlock_A"
           /\ operation \in ShiftOps =>
                 /\ op_end = 4
                 /\ Step("Shift") <=> op_it = 2
                 /\ ~Step("Multiply") /\ ~Step("Divide")
           /\ Step("Distributor_to_Accumulator") => operation \in ArithmeticOps
           /\ Step("Remove_Interlock_A") => op_it + 1 = op_end
           /\ Step("Shift") => operation \in ShiftOps
<1>1. CASE operation \in ArithmeticOps
    <2>1. operation_steps(operation) =
             <<"Enable_Distributor", "Data_to_Distributor",
               "Distributor_to_Accumulator", "Remove_Interlock_A">>
        BY <1>1, StepSequences DEF ArithmeticOps
    <2>2. operation \notin ShiftOps
        BY <1>1, OperationClasses DEF ArithmeticOps
    <2> QED
        BY <1>1, <2>1, <2>2, SMT DEF op_end, op_seq, Step
<1>2. CASE operation \in ShiftOps /\ operation \notin ArithmeticOps
    <2>1. operation_steps(operation) =
             <<"Enable_Shift_Control", "Shift", "Remove_Interlock_A">>
        BY <1>2, StepSequences
    <2> QED
        BY <1>2, <2>1, SMT DEF op_end, op_seq, Step
<1>3. CASE operation \notin ArithmeticOps \cup ShiftOps
    <2>1. op_seq \in OtherSequences
        BY <1>3, StepSequences DEF op_seq, ArithmeticOps
    <2>2. /\ Len(op_seq) \in 0 .. 4
          /\ \A i \in 1 .. Len(op_seq) :
                /\ op_seq[i] # "Distributor_to_Accumulator"
                /\ op_seq[i] # "Shift"
                /\ op_seq[i] = "Remove_Interlock_A" => i = Len(op_seq)
        BY <2>1, OtherSequenceFacts, Zenon
    <2> QED
        BY <1>3, <2>2, SMT DEF op_end, Step
<1> QED
    BY <1>1, <1>2, <1>3

(* The parity of the run time survives its overflow.                          *)
LEMMA Parity ==
    ASSUME run_time \in 0 .. RunTimeModulus - 1, WordTime
    PROVE  /\ run_time' \in 0 .. RunTimeModulus - 1
           /\ run_time' % 2 = 1 - (run_time % 2)
<1>1. /\ RunTimeModulus \in Nat \ {0} /\ RunTimeModulus % 2 = 0
      /\ run_time' = (run_time + 1) % RunTimeModulus
    BY RunTimeAssumption DEF WordTime
<1>2. CASE run_time + 1 < RunTimeModulus
    <2>1. run_time' = run_time + 1
        BY <1>1, <1>2, SMT
    <2> QED
        BY <1>1, <1>2, <2>1, SMT
<1>3. CASE run_time + 1 = RunTimeModulus
    <2>1. run_time' = 0
        BY <1>1, <1>3, SMT
    <2> QED
        BY <1>1, <1>3, <2>1, SMT
<1> QED
    BY <1>1, <1>2, <1>3, SMT

----------------------------------------------------------------------------
(* The inductive invariant.  RestartInterlock, OperationPending and          *)
(* SearchPosition need one another: the search can only start early under    *)
(* the restart signal, and ends the half-cycle that clears it.  A shift      *)
(* count past 10 would spoil the digits it is inserted into.                 *)
ShiftCounts ==
    pc = "data" /\ operation \in ShiftOps =>
        /\ shift_count <= Base
        /\ op_it <= 2 /\ operation # shift_left_and_count => shift_count < Base

IInv ==
    /\ TypeOK
    /\ RestartInterlock
    /\ OperationPending
    /\ SearchPosition
    /\ ShiftCounts

(* Places of an address on the drum.                                         *)
LEMMA DrumFacts ==
    ASSUME NEW addr \in Addresses
    PROVE  /\ band_of_address(addr) \in Nat
           /\ index_of_address(addr) \in Indices
           /\ OnDrum(addr) => band_of_address(addr) \in Bands
<1>1. addr \in Nat /\ BandSize \in Nat \ {0} /\ NBands \in Nat \ {0}
    BY SizesAssumption, SMT DEF Addresses
<1>2. addr \div BandSize \in Nat /\ addr % BandSize \in 0 .. BandSize - 1
    BY <1>1, DivMod, Zenon
<1> DEFINE band == addr \div BandSize
<1>3. band < NBands => band \in 0 .. NBands - 1
    <2> HIDE DEF band
    <2> QED
        BY <1>1, <1>2, SMT DEF band
<1> QED
    BY <1>2, <1>3, Zenon DEF band_of_address, index_of_address, OnDrum, Indices, Bands

(* A word found in storage is a word.                                         *)
LEMMA StorageType ==
    ASSUME TypeOK, address_register \in Addresses, Readable(address_register)
    PROVE  get_storage(address_register) \in Word
<1>1. CASE address_register \in SpecialAddresses
    <2>1. address_register \in {StorageEntryAddress, distributor_address,
                                lower_accumulator_address, upper_accumulator_address}
        BY <1>1, SizesAssumption, SMT
           DEF SpecialAddresses, distributor_address,
               lower_accumulator_address, upper_accumulator_address
    <2>2. /\ storage_entry \in Word /\ distributor \in Word
          /\ lower_accumulator \in Word /\ upper_accumulator \in Word
        BY DEF TypeOK
    <2>3. get_storage(address_register) \in
             {storage_entry, distributor, lower_accumulator, upper_accumulator}
        BY <2>1, SizesAssumption, SMT
           DEF get_storage, distributor_address,
               lower_accumulator_address, upper_accumulator_address
    <2> QED
        BY <2>2, <2>3
<1>2. CASE address_register \notin SpecialAddresses
    <2>1. get_storage(address_register) = DrumRead(band_of_address(address_register))
        BY <1>2, SizesAssumption, SMT
           DEF get_storage, SpecialAddresses, distributor_address,
               lower_accumulator_address, upper_accumulator_address
    <2>2. band_of_address(address_register) \in Bands
        BY <1>2, DrumFacts DEF Readable
    <2>3. DrumRead(band_of_address(address_register)) \in Word
        BY <2>2 DEF TypeOK, DrumTypeOK, DrumRead
    <2> QED
        BY <2>1, <2>3
<1> QED
    BY <1>1, <1>2

(* A high digit is a number.                                                 *)
LEMMA HighDigitType ==
    ASSUME NEW w \in Word
    PROVE  HighDigit(Mag(w)) \in Nat
<1>1. Mag(w) \in Nat /\ HighBase \in Nat \ {0}
    BY WordFields, BaseFacts, SMT
<1> QED
    BY <1>1, DivMod, Zenon DEF HighDigit

----------------------------------------------------------------------------
(* The operation steps leave words in the registers and on the drum.         *)

(* The types an operation step has to establish.                              *)
StepTypeOK ==
    /\ drum_storage' \in [Bands -> [Indices -> Word]]
    /\ distributor' \in Word
    /\ upper_accumulator' \in Word
    /\ lower_accumulator' \in Word
    /\ overflow' \in BOOLEAN
    /\ storage_selection_error' \in BOOLEAN
    /\ restart' \in BOOLEAN
    /\ op_it' \in {op_it, op_it + 1}
    /\ shift_count' \in Nat
    /\ upper_overflow' \in Nat
    /\ shift_next' \in BOOLEAN
    /\ lookup_band' \in Int

(* Data_to_Distributor, with the assertions of its read out of the way.      *)
LEMMA DataToDistributorType ==
    ASSUME TypeOK, address_register \in Addresses, ~DataAborts, Data_to_Distributor
    PROVE  StepTypeOK
<1>1. CASE operation \in StoreOps
    <2>1. StoredWord \in Word
        BY DEF TypeOK, StoredWord, Word
    <2> QED
        BY <1>1, <2>1 DEF TypeOK, DrumTypeOK, StepTypeOK, Data_to_Distributor,
                         Done, Again, accumulator_vars, member_vars
<1>2. CASE operation \notin StoreOps /\ UnderHead(address_register)
    <2>1. get_storage(address_register) \in Word
        BY <1>2, StorageType DEF DataAborts, Data_to_Distributor
    <2> QED
        BY <1>2, <2>1 DEF TypeOK, DrumTypeOK, StepTypeOK, Data_to_Distributor,
                         Done, Again, accumulator_vars, member_vars
<1>3. CASE operation \notin StoreOps /\ ~UnderHead(address_register)
    BY <1>3 DEF TypeOK, DrumTypeOK, StepTypeOK, Data_to_Distributor,
                Done, Again, accumulator_vars, member_vars
<1> QED
    BY <1>1, <1>2, <1>3

(* Store_Distributor.                                                        *)
LEMMA StoreDistributorType ==
    ASSUME TypeOK, address_register \in Addresses, Store_Distributor
    PROVE  StepTypeOK
<1> USE DEF Done, Again, accumulator_vars, member_vars
<1>1. CASE ~OnDrum(address_register)
    BY <1>1 DEF TypeOK, DrumTypeOK, StepTypeOK, Store_Distributor
<1>2. CASE OnDrum(address_register) /\ UnderHead(address_register)
    <2>1. band_of_address(address_register) \in Bands /\ drum_index \in Indices
        BY <1>2, DrumFacts DEF TypeOK, DrumTypeOK
    <2>2. DrumWritten(band_of_address(address_register), distributor)
             \in [Bands -> [Indices -> Word]]
        BY <2>1 DEF TypeOK, DrumTypeOK, DrumWritten
    <2> QED
        BY <1>2, <2>2 DEF TypeOK, DrumTypeOK, StepTypeOK, Store_Distributor
<1>3. CASE OnDrum(address_register) /\ ~UnderHead(address_register)
    BY <1>3 DEF TypeOK, DrumTypeOK, StepTypeOK, Store_Distributor
<1> QED
    BY <1>1, <1>2, <1>3

(* A register filled with zeros is a word.                                   *)
LEMMA ZeroType ==
    ASSUME NEW s \in Signs
    PROVE  Zero(s) \in Word
<1>1. 0 \in OpCodes /\ 0 \in Addresses
    BY SizesAssumption, SMT DEF OpCodes, Addresses, OpBase, Base
<1> QED
    BY <1>1 DEF Zero, Word

(* Distributor_to_Accumulator: sums, and the distributor itself, are words.  *)
LEMMA DistributorToAccumulatorType ==
    ASSUME TypeOK, Distributor_to_Accumulator
    PROVE  StepTypeOK
<1> USE DEF Done, Again, accumulator_vars, member_vars
<1>1. /\ upper_accumulator \in Word /\ lower_accumulator \in Word
      /\ Operand \in Word
    BY WordFields DEF TypeOK, Operand
<1>2. Zero(Operand.sign) \in Word
    BY <1>1, WordFields, ZeroType
<1>3. /\ Accumulated.upper \in Word /\ Accumulated.lower \in Word
      /\ Accumulated.carry \in {0, 1}
    <2>1. CASE operation \in AddOps
        <3>1. Accumulated = add_to_accumulator(upper_accumulator, lower_accumulator,
                                               Operand, operation \in UpperOps)
            BY <2>1, OperationClasses DEF Accumulated
        <3>2. (operation \in UpperOps) \in BOOLEAN
            OBVIOUS
        <3> QED
            BY <1>1, <3>1, <3>2, AdditionExact, Zenon
    <2>2. CASE operation \notin AddOps
        BY <1>1, <1>2, <2>2, SMT DEF Accumulated
    <2> QED
        BY <2>1, <2>2
<1>4. (Accumulated.carry > 0) \in BOOLEAN
    BY <1>3, SMT
<1>5. /\ upper_accumulator' \in Word /\ lower_accumulator' \in Word
      /\ overflow' \in BOOLEAN /\ restart' \in BOOLEAN
      /\ op_it' \in {op_it, op_it + 1}
    BY <1>3, <1>4, Zenon DEF TypeOK, Distributor_to_Accumulator
<1> QED
    BY <1>5, Zenon DEF TypeOK, DrumTypeOK, StepTypeOK, Distributor_to_Accumulator

(* A word time of a multiplication.                                          *)
LEMMA MultiplyType ==
    ASSUME TypeOK, Multiply
    PROVE  StepTypeOK
<1> USE DEF Done, Again
<1>1. /\ upper_accumulator \in Word /\ lower_accumulator \in Word
      /\ distributor \in Word /\ distributor.sign \in Signs
      /\ shift_count \in Nat /\ upper_overflow \in Nat /\ op_it \in 1 .. 5
      /\ overflow \in BOOLEAN
    BY WordFields DEF TypeOK
<1>2. /\ upper_accumulator' \in Word /\ lower_accumulator' \in Word
      /\ overflow' \in BOOLEAN /\ op_it' \in {op_it, op_it + 1}
      /\ shift_count' \in Nat /\ upper_overflow' \in Nat
    <2>1. CASE MultiplierShift
        <3> DEFINE u == Signed(upper_accumulator, distributor.sign)
                   l == Signed(lower_accumulator, distributor.sign)
        <3>1. u \in Word /\ l \in Word
            BY <1>1 DEF Signed, Word
        <3>2. CountedShift \in Nat
            BY <1>1, SizesAssumption, SMT DEF CountedShift
        <3> HIDE DEF u, l
        <3>3. /\ ShiftLeft(u, l).upper \in Word /\ ShiftLeft(u, l).lower \in Word
              /\ HighDigit(Mag(u)) \in Nat
            BY <3>1, ShiftType, HighDigitType
        <3> QED
            BY <1>1, <2>1, <3>2, <3>3, Zenon DEF MultiplierShift, u, l
    <2>2. CASE MultiplierAdd
        <3> DEFINE sum == add_to_accumulator(upper_accumulator, lower_accumulator,
                                             distributor, FALSE)
        <3>1. sum.upper \in Word /\ sum.lower \in Word
            BY <1>1, AdditionExact
        <3>2. upper_overflow' \in Nat
            BY <1>1, <2>2, SMT DEF MultiplierAdd
        <3>3. overflow' \in BOOLEAN
            BY <1>1, <2>2, Zenon DEF MultiplierAdd
        <3> QED
            BY <1>1, <2>2, <3>1, <3>2, <3>3, Zenon DEF MultiplierAdd
    <2> QED
        BY <2>1, <2>2 DEF Multiply
<1> QED
    BY <1>2, Zenon DEF TypeOK, DrumTypeOK, StepTypeOK, Multiply

(* A word time of a division: neither the difference nor the quotient leaves *)
(* its register.                                                             *)
LEMMA DivideType ==
    ASSUME TypeOK, Divide
    PROVE  StepTypeOK
<1> USE DEF Done, Again
<1>1. /\ upper_accumulator \in Word /\ lower_accumulator \in Word
      /\ distributor \in Word
      /\ upper_accumulator.sign \in Signs /\ lower_accumulator.sign \in Signs
      /\ Mag(upper_accumulator) \in 0 .. WordBase - 1
      /\ Mag(lower_accumulator) \in 0 .. WordBase - 1
      /\ Mag(distributor) \in 0 .. WordBase - 1
      /\ shift_count \in Nat /\ upper_overflow \in Nat /\ op_it \in 1 .. 5
      /\ overflow \in BOOLEAN /\ shift_next \in BOOLEAN
    BY WordFields DEF TypeOK
<1>2. WordBase \in Nat \ {0} /\ HighBase \in Nat \ {0} /\ WordBase = 10 * HighBase
    BY BaseFacts DEF Base
<1>3. /\ upper_accumulator' \in Word /\ lower_accumulator' \in Word
      /\ overflow' \in BOOLEAN /\ op_it' \in {op_it, op_it + 1}
      /\ shift_count' \in Nat /\ upper_overflow' \in Nat /\ shift_next' \in BOOLEAN
    <2>1. CASE DividendShift
        <3> DEFINE l == Signed(lower_accumulator,
                               IF distributor.sign = lower_accumulator.sign
                               THEN "+" ELSE "-")
        <3>1. l \in Word
            BY <1>1 DEF Signed, Word, Signs
        <3>2. CountedShift \in Nat
            BY <1>1, SizesAssumption, SMT DEF CountedShift
        <3> HIDE DEF l
        <3>3. /\ ShiftLeft(upper_accumulator, l).upper \in Word
              /\ ShiftLeft(upper_accumulator, l).lower \in Word
              /\ HighDigit(Mag(upper_accumulator)) \in Nat
            BY <1>1, <3>1, ShiftType, HighDigitType
        <3> QED
            BY <1>1, <2>1, <3>2, <3>3, Zenon DEF DividendShift, l
    <2>2. CASE DivisorSubtract
        <3>1. Mag(upper_accumulator) - Mag(distributor) \in 0 .. WordBase - 1
            BY <1>1, <1>2, <2>2, SMT DEF DivisorSubtract, DivisorFits
        <3>2. upper_accumulator' \in Word
            BY <1>1, <2>2, <3>1, WordOfType, Zenon DEF DivisorSubtract
        <3>3. CASE QuotientDigitFull
            BY <1>1, <2>2, <3>2, <3>3, SMT DEF DivisorSubtract
        <3>4. CASE ~QuotientDigitFull
            <4>1. Mag(lower_accumulator) + 1 \in 0 .. WordBase - 1
                BY <1>1, <1>2, <3>4, SMT DEF QuotientDigitFull, Base
            <4>2. lower_accumulator' \in Word
                BY <1>1, <2>2, <3>4, <4>1, WordOfType, Zenon DEF DivisorSubtract
            <4> QED
                BY <1>1, <2>2, <3>2, <3>4, <4>2, Zenon DEF DivisorSubtract
        <3> QED
            BY <3>3, <3>4
    <2>3. CASE QuotientDigitDone
        <3>1. Zero(lower_accumulator.sign) \in Word
            BY <1>1, ZeroType
        <3> QED
            BY <1>1, <2>3, <3>1, Zenon DEF QuotientDigitDone
    <2> QED
        BY <2>1, <2>2, <2>3 DEF Divide
<1> QED
    BY <1>3, Zenon DEF TypeOK, DrumTypeOK, StepTypeOK, Divide

(* The two lowest digits are free for the shift count.                        *)
LEMMA CountFits ==
    ASSUME NEW m \in 0 .. WordBase - 1, NEW k \in 0 .. Base
    PROVE  (m - (m % OpBase)) + k \in 0 .. WordBase - 1
<1> DEFINE A == AddressBase * AddressBase
<1>1. A \in Nat \ {0}
    BY SizesAssumption, SMT
<1>2. WordBase = 100 * A
    BY SizesAssumption, SMT DEF WordBase, OpBase, Base
<1> HIDE DEF A
<1> QED
    BY <1>1, <1>2, SMT DEF OpBase, Base

(* A word time of a shift, with the shift count it leaves.                    *)
LEMMA ShiftStepType ==
    ASSUME TypeOK, ShiftCounts, pc = "data", Shift
    PROVE  /\ StepTypeOK
           /\ shift_count' <= Base
           /\ operation # shift_left_and_count /\ op_it' = op_it => shift_count' < Base
<1> USE DEF Done, Again
<1>1. /\ upper_accumulator \in Word /\ lower_accumulator \in Word
      /\ lower_accumulator.sign \in Signs
      /\ Mag(lower_accumulator) \in 0 .. WordBase - 1
      /\ shift_count \in Nat /\ op_it \in 1 .. 5
      /\ overflow \in BOOLEAN
    BY WordFields DEF TypeOK
<1>2. /\ shift_count <= Base
      /\ operation # shift_left_and_count => shift_count < Base
    BY StepFacts, <1>1, SMT DEF ShiftCounts, Shift, Base
<1>3. CASE InsertShiftCount
    <2>1. shift_count \in 0 .. Base
        BY <1>1, <1>2, SMT DEF Base
    <2>2. lower_accumulator' \in Word
        BY <1>1, <1>3, <2>1, CountFits, WordOfType, Zenon DEF InsertShiftCount
    <2>3. overflow' \in BOOLEAN
        BY <1>3, Zenon DEF InsertShiftCount
    <2>4. operation = shift_left_and_count
        BY <1>3 DEF InsertShiftCount, CountStops
    <2>5. /\ upper_accumulator' = upper_accumulator
          /\ shift_count' = shift_count /\ op_it' = op_it + 1
        BY <1>3 DEF InsertShiftCount
    <2>6. StepTypeOK
        BY <1>1, <2>2, <2>3, <2>5, Zenon DEF TypeOK, DrumTypeOK, StepTypeOK, Shift
    <2> QED
        BY <1>2, <2>4, <2>5, <2>6, Zenon
<1>4. CASE ShiftOnePlace
    <2> DEFINE shifted == IF operation \in {shift_right, shift_and_round}
                          THEN ShiftRight(upper_accumulator, lower_accumulator)
                          ELSE ShiftLeft(upper_accumulator, lower_accumulator)
               five == WordOf(5, lower_accumulator.sign)
               result == IF Rounds
                         THEN add_to_accumulator(shifted.upper, shifted.lower,
                                                 five, FALSE)
                         ELSE shifted
    <2>1. shifted.upper \in Word /\ shifted.lower \in Word
        BY <1>1, ShiftType
    <2>2. five \in Word
        <3>1. 5 \in 0 .. WordBase - 1
            BY BaseFacts, SMT DEF Base
        <3> QED
            BY <1>1, <3>1, WordOfType
    <2>3. result.upper \in Word /\ result.lower \in Word
        <3> HIDE DEF shifted, five
        <3> QED
            BY <2>1, <2>2, AdditionExact
    <2>4. /\ upper_accumulator' \in Word /\ lower_accumulator' \in Word
          /\ overflow' = overflow
          /\ shift_count' = shift_count + 1
          /\ op_it' \in {op_it, op_it + 1}
          /\ operation # shift_left_and_count /\ op_it' = op_it =>
                 shift_count + 1 # Base
        <3> HIDE DEF result
        <3>1. op_it + 1 # op_it
            BY <1>1, SMT
        <3>2. /\ upper_accumulator' = result.upper
              /\ lower_accumulator' = result.lower
              /\ overflow' = overflow
              /\ shift_count' = shift_count + 1
              /\ IF operation # shift_left_and_count /\ shift_count + 1 = Base
                 THEN op_it' = op_it + 1 ELSE op_it' = op_it
            BY <1>4, Zenon DEF ShiftOnePlace, result
        <3> QED
            BY <2>3, <3>1, <3>2, Zenon
    <2>5. shift_count # Base
        BY <1>1, <1>2, <1>4, SMT DEF ShiftOnePlace, CountStops, Base
    <2>6. /\ shift_count' \in Nat
          /\ shift_count' <= Base
          /\ operation # shift_left_and_count /\ op_it' = op_it => shift_count' < Base
        BY <1>1, <1>2, <2>4, <2>5, SMT DEF Base
    <2>7. StepTypeOK
        BY <1>1, <2>4, <2>6, Zenon DEF TypeOK, DrumTypeOK, StepTypeOK, Shift
    <2> QED
        BY <2>6, <2>7
<1> QED
    BY <1>3, <1>4 DEF Shift

(* Look_Up_Address only moves its own band and the address.                  *)
LEMMA LookUpType ==
    ASSUME TypeOK, address_register \in Addresses, Look_Up_Address
    PROVE  StepTypeOK /\ LookupBand \in Int
<1>1. LookupBand \in Int
    BY DrumFacts, SMT DEF TypeOK, LookupBand
<1> QED
    BY <1>1, Zenon DEF TypeOK, DrumTypeOK, StepTypeOK, Look_Up_Address, Done, Again,
                       accumulator_vars

(* Insert_Address_in_Lower: an address fits in its place.                    *)
LEMMA InsertAddressType ==
    ASSUME TypeOK, address_register \in Addresses, Insert_Address_in_Lower
    PROVE  StepTypeOK
<1>1. lower_accumulator' \in Word
    BY DEF TypeOK, Insert_Address_in_Lower, Word
<1> QED
    BY <1>1, Zenon DEF TypeOK, DrumTypeOK, StepTypeOK, Insert_Address_in_Lower, Done,
                       member_vars

(* The steps that change nothing but their position or the interlock.        *)
LEMMA IdleStepTypes ==
    ASSUME TypeOK,
           \/ Enable \/ Remove_Interlock_A \/ Enable_Shift_Control
           \/ op_it = op_end
              /\ UNCHANGED <<drum_storage, distributor, accumulator_vars, overflow,
                             storage_selection_error, restart, op_it, member_vars>>
    PROVE  StepTypeOK
<1> USE DEF TypeOK, DrumTypeOK, StepTypeOK, Done, Again, accumulator_vars, member_vars
<1>1. CASE Enable
    BY <1>1, Zenon DEF Enable
<1>2. CASE Remove_Interlock_A
    BY <1>2, Zenon DEF Remove_Interlock_A
<1>3. CASE Enable_Shift_Control
    BY <1>3, Zenon DEF Enable_Shift_Control
<1>4. CASE UNCHANGED <<drum_storage, distributor, accumulator_vars, overflow,
                       storage_selection_error, restart, op_it, member_vars>>
    BY <1>4, Zenon
<1> QED
    BY <1>1, <1>2, <1>3, <1>4

(* Data half-cycles never begin with a blank address register.               *)
LEMMA DataAddress ==
    ASSUME TypeOK, OperationPending, pc = "data"
    PROVE  address_register \in Addresses
BY DEF TypeOK, OperationPending

(* Whatever step of the operation a word time takes, the types hold, and a   *)
(* shift counts to 10 and no further.                                        *)
LEMMA OperationStepType ==
    ASSUME IInv, pc = "data", ~DataAborts, OperationStep
    PROVE  /\ StepTypeOK
           /\ operation \in ShiftOps /\ op_it = 2 =>
                 /\ shift_count' <= Base
                 /\ operation # shift_left_and_count /\ op_it' = op_it =>
                       shift_count' < Base
           /\ operation \in ShiftOps /\ op_it # 2 => shift_count' = shift_count
<1>1. TypeOK /\ ShiftCounts /\ address_register \in Addresses
    BY DataAddress DEF IInv
<1>2. op_it \in 1 .. 5
    BY <1>1 DEF TypeOK
<1>3. CASE Shift
    <2>1. operation \in ShiftOps /\ op_it # 2 => FALSE
        BY <1>2, <1>3, StepFacts DEF Shift
    <2> QED
        BY <1>1, <1>3, <2>1, ShiftStepType
<1>4. CASE ~Shift
    <2>1. StepTypeOK
        BY <1>1, <1>4, DataToDistributorType, StoreDistributorType,
           DistributorToAccumulatorType, MultiplyType, DivideType, LookUpType,
           InsertAddressType, IdleStepTypes, Zenon DEF OperationStep
    <2>2. operation \in ShiftOps /\ op_it = 2 => FALSE
        <3> SUFFICES ASSUME operation \in ShiftOps, op_it = 2 PROVE FALSE
            OBVIOUS
        <3>1. Step("Shift") /\ op_end = 4
            BY <1>2, StepFacts
        <3>2. \A name : Step(name) => name = "Shift"
            BY <3>1 DEF Step
        <3> QED
            BY <1>4, <3>1, <3>2, SMT
               DEF OperationStep, Enable, Data_to_Distributor, Store_Distributor,
                   Distributor_to_Accumulator, Remove_Interlock_A, Multiply, Divide,
                   Enable_Shift_Control, Look_Up_Address, Insert_Address_in_Lower
    <2>3. operation \in ShiftOps => ~Multiply /\ ~Divide
        BY <1>2, StepFacts DEF Multiply, Divide
    <2>4. operation \in ShiftOps => shift_count' = shift_count
        BY <1>4, <2>3, Zenon
           DEF OperationStep, Enable, Data_to_Distributor, Store_Distributor,
               Distributor_to_Accumulator, Remove_Interlock_A,
               Enable_Shift_Control, Look_Up_Address, Insert_Address_in_Lower,
               member_vars
    <2> QED
        BY <2>1, <2>2, <2>4
<1> QED
    BY <1>3, <1>4

(* What a word time of the operation does to the restart signal.              *)
LEMMA OperationStepSignals ==
    ASSUME IInv, pc = "data", ~DataAborts, OperationStep
    PROVE  /\ op_it' \in {op_it, op_it + 1} /\ op_it' <= op_end
           /\ op_it = op_end => op_it' = op_end
           /\ Step("Remove_Interlock_A") => op_it' = op_end /\ ~restart'
           /\ ~Step("Remove_Interlock_A") /\ ~Step("Distributor_to_Accumulator") =>
                 restart' = restart
           /\ Step("Distributor_to_Accumulator") =>
                 \/ ~restart /\ run_time % 2 # 0 /\ op_it' = op_it /\ ~restart'
                 \/ run_time % 2 = 0 /\ op_it' = op_it /\ restart'
                 \/ restart /\ run_time % 2 # 0 /\ op_it' = op_it + 1 /\ restart'
<1>1. /\ op_it \in 1 .. 5 /\ op_end \in 1 .. 5
      /\ \A name : Step(name) => op_it < op_end
      /\ Step("Remove_Interlock_A") => op_it + 1 = op_end
    BY StepFacts DEF IInv, TypeOK
<1>2. op_it' \in {op_it, op_it + 1}
    BY OperationStepType DEF StepTypeOK
<1>3. restart \in BOOLEAN
    BY DEF IInv, TypeOK
<1>4. CASE op_it = op_end
    <2>1. \A name : ~Step(name)
        BY <1>1, <1>4, SMT
    <2>2. op_it' = op_it /\ restart' = restart
        BY <2>1, Zenon
           DEF OperationStep, Enable, Data_to_Distributor, Store_Distributor,
               Distributor_to_Accumulator, Remove_Interlock_A, Multiply, Divide,
               Enable_Shift_Control, Shift, Look_Up_Address, Insert_Address_in_Lower
    <2> QED
        BY <1>1, <1>4, <2>1, <2>2, SMT
<1>5. CASE op_it # op_end
    <2>1. PICK name : Step(name)
        BY <1>5, Zenon
           DEF OperationStep, Enable, Data_to_Distributor, Store_Distributor,
               Distributor_to_Accumulator, Remove_Interlock_A, Multiply, Divide,
               Enable_Shift_Control, Shift, Look_Up_Address, Insert_Address_in_Lower
    <2>2. op_it' <= op_end
        BY <1>1, <1>2, <2>1, SMT
    <2>3. \A other : Step(other) => other = name
        BY <2>1 DEF Step
    <2>4. CASE name = "Distributor_to_Accumulator"
        <3>1. Distributor_to_Accumulator
            BY <1>5, <2>3, <2>4, SMT
               DEF OperationStep, Enable, Data_to_Distributor, Store_Distributor,
                   Remove_Interlock_A, Multiply, Divide, Enable_Shift_Control,
                   Shift, Look_Up_Address, Insert_Address_in_Lower
        <3>2. \/ ~restart /\ run_time % 2 # 0 /\ op_it' = op_it /\ ~restart'
              \/ run_time % 2 = 0 /\ op_it' = op_it /\ restart'
              \/ restart /\ run_time % 2 # 0 /\ op_it' = op_it + 1 /\ restart'
            BY <1>3, <3>1, Zenon DEF Distributor_to_Accumulator, Done, Again
        <3>3. ~Step("Remove_Interlock_A")
            BY <2>3, <2>4
        <3> QED
            BY <1>2, <1>5, <2>1, <2>2, <2>4, <3>2, <3>3, Zenon
    <2>5. CASE name = "Remove_Interlock_A"
        <3>1. Remove_Interlock_A
            BY <1>5, <2>3, <2>5, SMT
               DEF OperationStep, Enable, Data_to_Distributor, Store_Distributor,
                   Distributor_to_Accumulator, Multiply, Divide, Enable_Shift_Control,
                   Shift, Look_Up_Address, Insert_Address_in_Lower
        <3>2. op_it' = op_end /\ ~restart'
            BY <1>1, <3>1 DEF Remove_Interlock_A, Done
        <3>3. ~Step("Distributor_to_Accumulator") /\ Step("Remove_Interlock_A")
            BY <2>1, <2>3, <2>5
        <3> QED
            BY <1>2, <1>5, <2>2, <3>2, <3>3
    <2>6. CASE name \notin {"Distributor_to_Accumulator", "Remove_Interlock_A"}
        <3>1. ~Step("Distributor_to_Accumulator") /\ ~Step("Remove_Interlock_A")
            BY <2>3, <2>6
        <3>2. restart' = restart
            BY <1>5, <3>1, Zenon
               DEF OperationStep, Enable, Data_to_Distributor, Store_Distributor,
                   Distributor_to_Accumulator, Remove_Interlock_A, Multiply, Divide,
                   Enable_Shift_Control, Shift, Look_Up_Address,
                   Insert_Address_in_Lower
        <3> QED
            BY <1>2, <1>5, <2>2, <3>1, <3>2
    <2> QED
        BY <2>4, <2>5, <2>6
<1> QED
    BY <1>4, <1>5

----------------------------------------------------------------------------
(* A word time of the data half-cycle.                                       *)

(* A word time changes the parity of the run time.                           *)
LEMMA WordTimeType ==
    ASSUME TypeOK, WordTime
    PROVE  /\ run_time' \in 0 .. RunTimeModulus - 1
           /\ run_time' % 2 = 1 - (run_time % 2)
           /\ drum_index' \in Indices
<1>1. run_time \in 0 .. RunTimeModulus - 1 /\ drum_index \in Indices
    BY DEF TypeOK, DrumTypeOK
<1>2. drum_index + 1 \in Nat /\ BandSize \in Nat \ {0}
    BY <1>1, SizesAssumption, SMT DEF Indices
<1>3. (drum_index + 1) % BandSize \in 0 .. BandSize - 1
    BY <1>2, DivMod, Zenon
<1> QED
    BY <1>1, <1>3, Parity, Zenon DEF WordTime, DrumStep, Indices

(* Table lookup steps from address to address.                               *)
LEMMA SteppedAddressType ==
    ASSUME address_register \in Addresses
    PROVE  SteppedAddress \in Addresses
<1>1. address_register + 1 \in Nat /\ AddressBase \in Nat \ {0}
    BY SizesAssumption, SMT DEF Addresses
<1>2. (address_register + 1) % AddressBase \in 0 .. AddressBase - 1
    BY <1>1, DivMod, Zenon
<1> QED
    BY <1>2, Zenon DEF SteppedAddress, Addresses

(* The search for the next instruction: what it leaves, and when it moves.    *)
LEMMA SearchType ==
    ASSUME TypeOK, address_register \in Addresses, NextInstructionStep
    PROVE  /\ address_register' \in Addresses
           /\ error_stop' \in BOOLEAN
           /\ half_cycle' \in HalfCycles
           /\ restarted' \in BOOLEAN
           /\ inst_it' \in 1 .. 3
<1>1. /\ SteppedAddress \in Addresses
      /\ program_register.ia \in Addresses
      /\ inst_it \in 1 .. 3 /\ restarted \in BOOLEAN
      /\ error_stop \in BOOLEAN /\ half_cycle \in HalfCycles
    BY SteppedAddressType DEF TypeOK, UWord
<1>2. inst_it < 3 => inst_it + 1 \in 1 .. 3
    BY <1>1, SMT
<1>3. 2 \in 1 .. 3 /\ 3 \in 1 .. 3
    BY SMT
<1>4. CASE Instruction_Address_to_Address_Register /\ restarted'
    BY <1>1, <1>3, <1>4, Zenon DEF Instruction_Address_to_Address_Register, HalfCycles
<1>5. CASE Enable_Program_Register /\ restarted'
    BY <1>1, <1>3, <1>5, Zenon DEF Enable_Program_Register
<1>6. CASE ~Instruction_Address_to_Address_Register /\ ~Enable_Program_Register
    BY <1>1, <1>6, Zenon DEF NextInstructionStep
<1> QED
    BY <1>1, <1>4, <1>5, <1>6, Zenon DEF NextInstructionStep

(* The search moves only when the restart signal, or the end of the operation,*)
(* lets it, and the half-cycle lights move with its first step.              *)
LEMMA SearchMoves ==
    ASSUME TypeOK, NextInstructionStep, op_it' \in {op_it, op_it + 1}
    PROVE  /\ inst_it' # inst_it =>
                 /\ restart' \/ op_it' = op_end
                 /\ restarted \/ op_it' = op_end
                 /\ restarted'
           /\ \/ inst_it' = inst_it /\ half_cycle' = half_cycle
              \/ inst_it = 1 /\ inst_it' = 2 /\ half_cycle' = "instruction"
              \/ inst_it = 2 /\ inst_it' = 3 /\ half_cycle' = half_cycle
           /\ ~restart' /\ op_it' # op_end => restarted' = restarted
<1>1. /\ inst_it \in 1 .. 3 /\ restarted \in BOOLEAN
    BY DEF TypeOK
<1>2. CASE ~SearchEnabled
    BY <1>1, <1>2, SMT DEF NextInstructionStep, SearchEnabled
<1>3. CASE SearchEnabled /\ ~restarted /\ op_it' # op_end
    BY <1>1, <1>3, SMT DEF NextInstructionStep, SearchEnabled
<1>4. CASE SearchEnabled /\ (restarted \/ op_it' = op_end)
    <2>1. restarted' /\ (Instruction_Address_to_Address_Register \/ Enable_Program_Register)
        BY <1>4, Zenon DEF NextInstructionStep
    <2>2. \/ inst_it = 1 /\ inst_it' = 2 /\ half_cycle' = "instruction"
          \/ inst_it = 2 /\ inst_it' = 3 /\ half_cycle' = half_cycle
        BY <2>1 DEF Instruction_Address_to_Address_Register, Enable_Program_Register
    <2>3. restart' \/ op_it' = op_end
        BY <1>4 DEF SearchEnabled
    <2>4. 1 # 2 /\ 2 # 3
        BY SMT
    <2> QED
        BY <1>4, <2>1, <2>2, <2>3, <2>4, Zenon
<1> QED
    BY <1>2, <1>3, <1>4

(* How the restart signal goes through a word time.                           *)
RestartSchedule ==
    \/ operation \notin ArithmeticOps /\ ~restart /\ ~restart'
    \/ /\ operation \in ArithmeticOps
       /\ \/ op_it \in {1, 2} /\ op_it' \in {1, 2, 3} /\ ~restart /\ ~restart'
          \/ op_it = 3 /\ op_it' = 3 /\ ~restart /\ ~restart'
          \/ op_it = 3 /\ op_it' = 3 /\ ~restart /\ restart' /\ run_time % 2 = 0
          \/ op_it = 3 /\ op_it' = 4 /\ restart /\ restart'
          \/ op_it = 4 /\ op_it' = 5 /\ restart /\ ~restart'
          \/ op_it = 5 /\ op_it' = 5 /\ ~restart /\ ~restart'

(* A word time of a data half-cycle follows the schedule.                    *)
LEMMA RestartScheduled ==
    ASSUME IInv, pc = "data", ~DataAborts, OperationStep
    PROVE  RestartSchedule
<1>1. /\ op_it' \in {op_it, op_it + 1} /\ op_it' <= op_end
      /\ op_it = op_end => op_it' = op_end
      /\ Step("Remove_Interlock_A") => op_it' = op_end /\ ~restart'
      /\ ~Step("Remove_Interlock_A") /\ ~Step("Distributor_to_Accumulator") =>
            restart' = restart
      /\ Step("Distributor_to_Accumulator") =>
            \/ ~restart /\ run_time % 2 # 0 /\ op_it' = op_it /\ ~restart'
            \/ run_time % 2 = 0 /\ op_it' = op_it /\ restart'
            \/ restart /\ run_time % 2 # 0 /\ op_it' = op_it + 1 /\ restart'
    BY OperationStepSignals
<1>2. op_it \in 1 .. 5 /\ restart \in BOOLEAN
    BY DEF IInv, TypeOK
<1>3. /\ operation \in ArithmeticOps =>
             /\ op_end = 5
             /\ Step("Distributor_to_Accumulator") <=> op_it = 3
             /\ Step("Remove_Interlock_A") <=> op_it = 4
      /\ Step("Distributor_to_Accumulator") => operation \in ArithmeticOps
    BY <1>2, StepFacts
<1>4. /\ restart => operation \in ArithmeticOps /\ op_it \in {3, 4}
      /\ operation \in ArithmeticOps =>
            /\ op_it = 4 => restart
            /\ op_it = 3 /\ restart => run_time % 2 = 1
    BY DEF IInv, RestartInterlock
<1>5. CASE operation \notin ArithmeticOps
    <2>1. ~restart /\ ~Step("Distributor_to_Accumulator")
        BY <1>3, <1>4, <1>5, Zenon
    <2>2. ~restart'
        BY <1>1, <2>1, Zenon
    <2> QED
        BY <1>5, <2>1, <2>2, Zenon DEF RestartSchedule
<1>6. CASE operation \in ArithmeticOps /\ op_it \in {1, 2}
    <2>1. op_it # 3 /\ op_it # 4 /\ op_it' \in {1, 2, 3}
        BY <1>1, <1>6, SMT
    <2>2. ~restart /\ ~Step("Distributor_to_Accumulator") /\ ~Step("Remove_Interlock_A")
        BY <1>3, <1>4, <1>6, <2>1, SMT
    <2>3. ~restart'
        BY <1>1, <2>2, Zenon
    <2> QED
        BY <1>6, <2>1, <2>2, <2>3, Zenon DEF RestartSchedule
<1>7. CASE operation \in ArithmeticOps /\ op_it = 3
    <2>1. op_it + 1 = 4 /\ (run_time % 2 = 1 => ~(run_time % 2 = 0))
        BY <1>7, SMT
    <2>2. \/ ~restart /\ op_it' = 3 /\ ~restart'
          \/ ~restart /\ run_time % 2 = 0 /\ op_it' = 3 /\ restart'
          \/ restart /\ op_it' = 4 /\ restart'
        BY <1>1, <1>3, <1>4, <1>7, <2>1, Zenon
    <2> QED
        BY <1>7, <2>2, Zenon DEF RestartSchedule
<1>8. CASE operation \in ArithmeticOps /\ op_it = 4
    BY <1>1, <1>3, <1>4, <1>8, Zenon DEF RestartSchedule
<1>9. CASE operation \in ArithmeticOps /\ op_it = 5
    <2>1. op_it # 3 /\ op_it # 4
        BY <1>9, SMT
    <2>2. ~restart /\ ~Step("Distributor_to_Accumulator") /\ ~Step("Remove_Interlock_A")
        BY <1>3, <1>4, <1>9, <2>1, SMT
    <2>3. ~restart'
        BY <1>1, <2>2, Zenon
    <2>4. op_end = 5
        BY <1>3, <1>9, Zenon
    <2>5. op_it' = 5
        BY <1>1, <1>9, <2>4
    <2> QED
        BY <1>9, <2>2, <2>3, <2>5, Zenon DEF RestartSchedule
<1>10. op_it \in {1, 2} \/ op_it = 3 \/ op_it = 4 \/ op_it = 5
    BY <1>2, SMT
<1> QED
    BY <1>5, <1>6, <1>7, <1>8, <1>9, <1>10, Zenon

(* A word time of a data half-cycle: the operation step and the search step  *)
(* together keep the invariant.                                              *)
LEMMA DataWordTimeInvariant ==
    ASSUME IInv, DataWordTime
    PROVE  IInv'
<1>1. /\ pc = "data" /\ pc' = "data" /\ ~DataAborts
      /\ OperationStep /\ NextInstructionStep /\ WordTime
      /\ operation' = operation
      /\ UNCHANGED <<program_register, operation_register, switch_vars>>
    BY DEF DataWordTime
<1>2. /\ TypeOK /\ address_register \in Addresses
      /\ op_it \in 1 .. 5 /\ inst_it \in 1 .. 3
      /\ restart \in BOOLEAN /\ restarted \in BOOLEAN
    BY <1>1, DataAddress DEF IInv, TypeOK
<1>3. op_end' = op_end /\ op_end \in 1 .. 5
    BY <1>1, <1>2, StepFacts DEF op_end, op_seq
<1>4. /\ StepTypeOK
      /\ operation \in ShiftOps /\ op_it = 2 =>
            /\ shift_count' <= Base
            /\ operation # shift_left_and_count /\ op_it' = op_it => shift_count' < Base
      /\ operation \in ShiftOps /\ op_it # 2 => shift_count' = shift_count
    BY <1>1, OperationStepType
<1>5. op_it' \in {op_it, op_it + 1} /\ op_it' <= op_end /\ op_it' \in 1 .. 5
    <2>1. op_it' \in {op_it, op_it + 1} /\ op_it' <= op_end
        BY <1>1, OperationStepSignals
    <2> QED
        BY <1>2, <1>3, <2>1, SMT
<1>6. /\ address_register' \in Addresses
      /\ error_stop' \in BOOLEAN
      /\ half_cycle' \in HalfCycles
      /\ restarted' \in BOOLEAN
      /\ inst_it' \in 1 .. 3
    BY <1>1, <1>2, SearchType
<1>7. TypeOK'
    <2>1. run_time' \in 0 .. RunTimeModulus - 1 /\ drum_index' \in Indices
        BY <1>1, <1>2, WordTimeType
    <2>2. pc' \in Pcs
        BY <1>1 DEF Pcs
    <2> QED
        BY <1>1, <1>2, <1>4, <1>5, <1>6, <2>1, <2>2, Zenon
           DEF TypeOK, DrumTypeOK, StepTypeOK, switch_vars
<1>8. /\ op_it = op_end => op_it' = op_end
      /\ Step("Remove_Interlock_A") => op_it' = op_end
      /\ RestartSchedule
    BY <1>1, OperationStepSignals, RestartScheduled
<1>9. /\ inst_it' # inst_it =>
            /\ restart' \/ op_it' = op_end
            /\ restarted \/ op_it' = op_end
            /\ restarted'
      /\ \/ inst_it' = inst_it /\ half_cycle' = half_cycle
         \/ inst_it = 1 /\ inst_it' = 2 /\ half_cycle' = "instruction"
         \/ inst_it = 2 /\ inst_it' = 3 /\ half_cycle' = half_cycle
      /\ ~restart' /\ op_it' # op_end => restarted' = restarted
    BY <1>1, <1>2, <1>5, SearchMoves
<1>10. /\ operation \in ArithmeticOps =>
             /\ op_end = 5
             /\ Step("Distributor_to_Accumulator") <=> op_it = 3
             /\ Step("Remove_Interlock_A") <=> op_it = 4
             /\ op_seq[4] = "Remove_Interlock_A"
       /\ Step("Distributor_to_Accumulator") => operation \in ArithmeticOps
       /\ operation \in ShiftOps => op_end = 4
    BY <1>2, StepFacts
<1>11. /\ restart => operation \in ArithmeticOps /\ op_it \in {3, 4}
       /\ operation \in ArithmeticOps =>
             /\ op_it = 4 => restart
             /\ op_it = 3 /\ restart => run_time % 2 = 1
             /\ op_it <= 3 /\ ~restart => ~restarted
    BY <1>1 DEF IInv, RestartInterlock
<1>12. RestartInterlock'
    <2>1. /\ 3 # 4 /\ 3 # 5 /\ 4 # 5 /\ ~(4 <= 3) /\ ~(5 <= 3) /\ 3 <= 3
          /\ op_it \in {1, 2} => op_it <= 3
          /\ op_it' \in {1, 2, 3} => op_it' # 4 /\ op_it' # 5
        BY SMT
    <2>2. restart' => operation \in ArithmeticOps /\ op_it' \in {3, 4}
        BY <1>8, Zenon DEF RestartSchedule
    <2>3. operation \in ArithmeticOps /\ op_it' = 4 => restart'
        BY <1>8, <2>1, Zenon DEF RestartSchedule
    <2>4. ASSUME operation \in ArithmeticOps, op_it' = 3, restart'
          PROVE  run_time' % 2 = 1
        <3>1. run_time % 2 = 0
            BY <1>8, <2>1, <2>4, Zenon DEF RestartSchedule
        <3>2. run_time' % 2 = 1 - (run_time % 2)
            BY <1>1, <1>2, WordTimeType
        <3> QED
            BY <3>1, <3>2, SMT
    <2>5. ASSUME operation \in ArithmeticOps, op_it' <= 3, ~restart'
          PROVE  ~restarted'
        <3>1. ~restart /\ op_it <= 3
            BY <1>8, <2>1, <2>5, Zenon DEF RestartSchedule
        <3>2. restarted' = restarted
            BY <1>5, <1>9, <1>10, <2>1, <2>5, Zenon
        <3> QED
            BY <1>11, <2>5, <3>1, <3>2, Zenon
    <2> QED
        BY <1>1, <2>2, <2>3, <2>4, <2>5, Zenon DEF RestartInterlock
<1>13. OperationPending'
    <2>1. address_register' # Blank
        BY <1>6, BlankAssumption
    <2> QED
        BY <1>1, <2>1 DEF IInv, OperationPending
<1>14. SearchPosition'
    <2>1. /\ operation \in ValidOperations
          /\ half_cycle = "data" <=> inst_it = 1
          /\ inst_it > 1 => op_it = op_end \/ Step("Remove_Interlock_A")
          /\ half_cycle \in HalfCycles
        BY <1>1, <1>2 DEF IInv, SearchPosition, TypeOK
    <2>2. half_cycle' = "data" <=> inst_it' = 1
        BY <1>2, <1>9, <2>1, SMT DEF HalfCycles
    <2>3. ASSUME inst_it' > 1
          PROVE  op_it' = op_end \/ Step("Remove_Interlock_A")'
        <3>1. CASE inst_it > 1
            BY <1>8, <2>1, <3>1
        <3>2. CASE inst_it' # inst_it /\ op_it' # op_end
            <4>1. restart' /\ restarted
                BY <1>9, <3>2
            <4>2. 3 <= 3 /\ (operation \in ArithmeticOps => op_end = 5)
                BY <1>10, SMT
            <4>3. operation \in ArithmeticOps /\ op_it' = 4
                BY <1>8, <1>11, <3>2, <4>1, <4>2, Zenon DEF RestartSchedule
            <4>4. op_seq' = op_seq
                BY <1>1 DEF op_seq
            <4> QED
                BY <1>3, <1>10, <4>3, <4>4, SMT DEF Step
        <3> QED
            BY <1>2, <2>3, <3>1, <3>2, SMT
    <2> QED
        BY <1>1, <1>3, <1>5, <2>1, <2>2, <2>3, Zenon DEF SearchPosition
<1>15. ShiftCounts'
    <2> SUFFICES ASSUME operation \in ShiftOps
                 PROVE  /\ shift_count' <= Base
                        /\ op_it' <= 2 /\ operation # shift_left_and_count =>
                              shift_count' < Base
        BY <1>1 DEF ShiftCounts
    <2>1. CASE op_it = 2
        BY <1>4, <1>5, <2>1, SMT
    <2>2. CASE op_it # 2
        <3>1. /\ shift_count <= Base
              /\ op_it <= 2 /\ operation # shift_left_and_count => shift_count < Base
            BY <1>1 DEF IInv, ShiftCounts
        <3> QED
            BY <1>2, <1>4, <1>5, <2>2, <3>1, SMT
    <2> QED
        BY <2>1, <2>2
<1> QED
    BY <1>7, <1>12, <1>13, <1>14, <1>15 DEF IInv

----------------------------------------------------------------------------
(* The other steps.                                                          *)

(* Outside a data half-cycle two conjuncts of the invariant hold at once.     *)
LEMMA NoOperation ==
    ASSUME pc' # "data", restart' = FALSE
    PROVE  RestartInterlock' /\ ShiftCounts'
BY DEF RestartInterlock, ShiftCounts

(* The signals have only two values.                                         *)
LEMMA Signals ==
    ASSUME IInv, pc # "data"
    PROVE  restart = FALSE
BY DEF IInv, TypeOK, RestartInterlock

(* A word time of an instruction half-cycle.                                 *)
LEMMA InstructionWordTimeInvariant ==
    ASSUME IInv, InstructionWordTime
    PROVE  IInv'
<1>1. /\ TypeOK /\ pc = "instruction" /\ pc' = "instruction"
      /\ restart' = restart /\ restart = FALSE
      /\ WordTime
    BY Signals, Zenon DEF IInv, InstructionWordTime
<1>2. run_time' \in 0 .. RunTimeModulus - 1 /\ drum_index' \in Indices
    BY <1>1, WordTimeType
<1>3. /\ half_cycle = "data" <=> inst_it = 3
      /\ operation_register = IF inst_it = 3 THEN program_register.op ELSE Blank
      /\ half_cycle = "data" => address_register # Blank
      /\ half_cycle \in HalfCycles
    BY <1>1, Zenon DEF IInv, OperationPending, SearchPosition, TypeOK
<1>4. RestartInterlock' /\ ShiftCounts'
    BY <1>1, NoOperation
<1>5. CASE Instruction_to_Program_Register
    <2>1. CASE InstructionAtHead
        <3>1. Readable(address_register) /\ address_register \in Addresses
            BY <1>5, <2>1, Zenon
               DEF InstructionWordTime, InstructionAborts, Readable,
                   Instruction_to_Program_Register, IInv, TypeOK
        <3>2. Unsigned(get_storage(address_register)) \in UWord
            BY <1>1, <3>1, StorageType, WordFields
        <3>3. /\ program_register' = Unsigned(get_storage(address_register))
              /\ inst_it = 1 /\ inst_it' = 2
              /\ UNCHANGED <<operation_register, address_register, half_cycle>>
            BY <1>5, <2>1 DEF Instruction_to_Program_Register
        <3>4. TypeOK'
            <4>1. inst_it' \in 1 .. 3
                BY <3>3, SMT
            <4> QED
                BY <1>1, <1>2, <3>2, <3>3, <4>1, Zenon
                   DEF TypeOK, DrumTypeOK, InstructionWordTime, switch_vars,
                       accumulator_vars, flag_vars, member_vars
        <3>5. OperationPending' /\ SearchPosition'
            <4>1. inst_it # 3 /\ inst_it' # 3
                BY <3>3, SMT
            <4> QED
                BY <1>1, <1>3, <3>3, <4>1 DEF OperationPending, SearchPosition
        <3> QED
            BY <1>4, <3>4, <3>5 DEF IInv
    <2>2. CASE ~InstructionAtHead
        <3>1. UNCHANGED <<program_register, inst_it, operation_register,
                          address_register, half_cycle>>
            BY <1>5, <2>2 DEF Instruction_to_Program_Register
        <3>2. TypeOK'
            BY <1>1, <1>2, <3>1, Zenon
               DEF TypeOK, DrumTypeOK, InstructionWordTime, switch_vars,
                   accumulator_vars, flag_vars, member_vars
        <3>3. OperationPending' /\ SearchPosition'
            BY <1>1, <1>3, <3>1 DEF OperationPending, SearchPosition
        <3> QED
            BY <1>4, <3>2, <3>3 DEF IInv
    <2> QED
        BY <2>1, <2>2
<1>6. CASE Op_and_Address_to_Registers
    <2>1. /\ operation_register' = program_register.op
          /\ address_register' = program_register.da
          /\ half_cycle' = "data" /\ inst_it' = 3
          /\ program_register' = program_register
          /\ program_register \in UWord
        BY <1>1, <1>6 DEF Op_and_Address_to_Registers, TypeOK
    <2>2. program_register.op \in OpCodes /\ program_register.da \in Addresses
        BY <2>1 DEF UWord
    <2>3. TypeOK'
        <3>1. inst_it' \in 1 .. 3 /\ half_cycle' \in HalfCycles
            BY <2>1, SMT DEF HalfCycles
        <3> QED
            BY <1>1, <1>2, <2>1, <2>2, <3>1, Zenon
               DEF TypeOK, DrumTypeOK, InstructionWordTime, switch_vars,
                   accumulator_vars, flag_vars, member_vars
    <2>4. address_register' # Blank
        BY <2>1, <2>2, BlankAssumption
    <2>5. OperationPending' /\ SearchPosition'
        BY <1>1, <2>1, <2>4 DEF OperationPending, SearchPosition
    <2> QED
        BY <1>4, <2>3, <2>5 DEF IInv
<1> QED
    BY <1>5, <1>6 DEF InstructionWordTime

(* A failed assertion leaves everything as it was.                           *)
LEMMA AbortInvariant ==
    ASSUME IInv, InstructionAbort \/ DecodeAbort \/ DataAbort \/ ManualAbort
    PROVE  IInv'
<1>1. Abort /\ TypeOK
    BY DEF IInv, InstructionAbort, DecodeAbort, DataAbort, ManualAbort
<1>2. pc' = "aborted" /\ restart' = restart
    BY <1>1 DEF Abort
<1>3. restart = FALSE
    <2>1. CASE pc # "data"
        BY <2>1, Signals
    <2>2. CASE pc = "data"
        <3>1. DataAborts
            BY <2>2 DEF InstructionAbort, DecodeAbort, DataAbort, ManualAbort
        <3>2. PICK name \in {"Data_to_Distributor", "Look_Up_Address"} : Step(name)
            BY <3>1 DEF DataAborts
        <3>3. ASSUME restart PROVE FALSE
            <4>1. operation \in ArithmeticOps /\ op_it \in {3, 4}
                BY <3>3 DEF IInv, RestartInterlock
            <4>2. Step("Distributor_to_Accumulator") \/ Step("Remove_Interlock_A")
                BY <1>1, <4>1, StepFacts, SMT DEF TypeOK
            <4> QED
                BY <3>2, <4>2 DEF Step
        <3> QED
            BY <1>1, <3>3 DEF TypeOK
    <2> QED
        BY <2>1, <2>2
<1>4. RestartInterlock' /\ ShiftCounts'
    BY <1>2, <1>3, NoOperation
<1>5. TypeOK'
    BY <1>1, Zenon
       DEF TypeOK, DrumTypeOK, Abort, Pcs, drum_vars, switch_vars, register_vars,
           flag_vars, local_vars, member_vars
<1>6. UNCHANGED <<half_cycle, address_register>>
    BY <1>1 DEF Abort, register_vars
<1>7. half_cycle = "data" => address_register # Blank
    BY DEF IInv, OperationPending
<1>8. OperationPending' /\ SearchPosition'
    BY <1>2, <1>6, <1>7 DEF OperationPending, SearchPosition
<1> QED
    BY <1>4, <1>5, <1>8 DEF IInv

(* The end of an instruction half-cycle leaves its operation waiting.        *)
LEMMA EndInstructionInvariant ==
    ASSUME IInv, EndInstruction
    PROVE  IInv'
<1>1. /\ TypeOK /\ pc = "instruction" /\ inst_it = 3 /\ inst_it' = 1
      /\ pc' \in {"idle", "decode"}
      /\ UNCHANGED <<half_cycle, operation_register, program_register,
                     address_register, restart>>
    BY DEF IInv, EndInstruction, register_vars
<1>2. RestartInterlock' /\ ShiftCounts'
    BY <1>1, Signals, NoOperation
<1>3. /\ half_cycle = "data" /\ operation_register = program_register.op
      /\ address_register # Blank
    BY <1>1 DEF IInv, OperationPending, SearchPosition
<1>4. TypeOK'
    <2>1. inst_it' \in 1 .. 3 /\ pc' \in Pcs
        BY <1>1, SMT DEF Pcs
    <2> QED
        BY <1>1, <2>1, Zenon
           DEF TypeOK, DrumTypeOK, EndInstruction, drum_vars, switch_vars,
               register_vars, flag_vars, member_vars
<1>5. OperationPending' /\ SearchPosition'
    BY <1>1, <1>3 DEF OperationPending, SearchPosition
<1> QED
    BY <1>2, <1>4, <1>5 DEF IInv

(* The complement of a digit is a digit.                                     *)
LEMMA InitialShiftCountRange ==
    ASSUME TypeOK, address_register \in Addresses
    PROVE  InitialShiftCount \in 0 .. Base - 1
<1>1. address_register \in Nat
    BY SizesAssumption, SMT DEF Addresses
<1> QED
    BY <1>1, SMT DEF InitialShiftCount, Base

(* A data half-cycle begins with the operation that waited.                  *)
LEMMA BeginDataInvariant ==
    ASSUME IInv, BeginData
    PROVE  IInv'
<1>1. /\ TypeOK /\ pc = "decode" /\ pc' = "data"
      /\ operation' = operation_register /\ operation_register \in ValidOperations
      /\ operation_register' = Blank
      /\ op_it' = 1 /\ inst_it' = 1 /\ restarted' = FALSE
      /\ UNCHANGED <<half_cycle, address_register, restart>>
    BY DEF IInv, BeginData
<1>2. restart = FALSE
    BY <1>1, Signals
<1>3. half_cycle = "data" /\ address_register \in Addresses
    BY <1>1 DEF IInv, OperationPending, TypeOK
<1>4. operation_register \in OpCodes
    <2>1. operation_register = program_register.op
        BY <1>1, <1>3 DEF IInv, OperationPending
    <2> QED
        BY <1>1, <2>1 DEF TypeOK, UWord
<1>5. shift_count' \in Nat /\ shift_count' < Base
    <2>1. InitialShiftCount \in 0 .. Base - 1
        BY <1>1, <1>3, InitialShiftCountRange
    <2>2. shift_count' \in {InitialShiftCount, 0}
        BY DEF BeginData
    <2> QED
        BY <2>1, <2>2, SMT DEF Base
<1>6. TypeOK'
    <2>1. /\ op_it' \in 1 .. 5 /\ inst_it' \in 1 .. 3 /\ 0 \in Nat /\ -1 \in Int
          /\ pc' \in Pcs
        BY <1>1, SMT DEF Pcs
    <2>2. upper_overflow' \in Nat /\ lookup_band' \in Int /\ shift_next' \in BOOLEAN
        BY <2>1 DEF BeginData
    <2> QED
        BY <1>1, <1>4, <1>5, <2>1, <2>2, Zenon
           DEF TypeOK, DrumTypeOK, BeginData, drum_vars, switch_vars,
               accumulator_vars, flag_vars
<1>7. RestartInterlock'
    BY <1>1, <1>2, SMT DEF RestartInterlock
<1>8. OperationPending'
    BY <1>1, <1>3, BlankAssumption DEF OperationPending
<1>9. SearchPosition'
    <2>1. 1 <= op_end'
        <3>1. Len(op_seq') \in Nat
            <4>1. op_seq' = operation_steps(operation_register)
                BY <1>1 DEF op_seq
            <4> QED
                BY <4>1, SequenceLengths
        <3> QED
            BY <3>1, SMT DEF op_end
    <2> QED
        BY <1>1, <1>3, <2>1, SMT DEF SearchPosition
<1>10. ShiftCounts'
    BY <1>5, SMT DEF ShiftCounts, Base
<1> QED
    BY <1>6, <1>7, <1>8, <1>9, <1>10 DEF IInv

(* A data half-cycle ends with its search over and the restart signal down.  *)
LEMMA EndDataInvariant ==
    ASSUME IInv, EndData
    PROVE  IInv'
<1>1. /\ TypeOK /\ pc = "data" /\ op_it = op_end /\ inst_it = 3
      /\ pc' \in {"idle", "instruction"}
      /\ op_it' = 1 /\ inst_it' = 1
      /\ UNCHANGED <<half_cycle, operation_register, program_register,
                     address_register, restart>>
    BY DEF IInv, EndData, DataLoopEnded, register_vars
<1>2. restart = FALSE
    <2>1. restart => operation \in ArithmeticOps /\ op_it \in {3, 4}
        BY DEF IInv, RestartInterlock
    <2>2. operation \in ArithmeticOps => op_end = 5
        BY <1>1, StepFacts DEF TypeOK
    <2>3. op_it = 5 => op_it \notin {3, 4}
        BY SMT
    <2>4. restart \in BOOLEAN
        BY <1>1 DEF TypeOK
    <2> QED
        BY <1>1, <2>1, <2>2, <2>3, <2>4, Zenon
<1>3. RestartInterlock' /\ ShiftCounts'
    <2>1. pc' # "data"
        BY <1>1
    <2> QED
        BY <1>1, <1>2, <2>1, NoOperation
<1>4. half_cycle = "instruction" /\ operation_register = Blank
    <2>1. half_cycle # "data"
        BY <1>1 DEF IInv, SearchPosition
    <2> QED
        BY <1>1, <2>1 DEF IInv, OperationPending, TypeOK, HalfCycles
<1>5. TypeOK'
    <2>1. /\ op_it' \in 1 .. 5 /\ inst_it' \in 1 .. 3 /\ 0 \in Nat /\ -1 \in Int
          /\ pc' \in Pcs /\ no_operation \in OpCodes
        BY <1>1, SMT DEF Pcs, no_operation, OpCodes, OpBase, Base
    <2>2. /\ shift_count' \in Nat /\ upper_overflow' \in Nat
          /\ lookup_band' \in Int /\ shift_next' \in BOOLEAN
          /\ operation' \in OpCodes /\ restarted' \in BOOLEAN
        BY <2>1, Zenon DEF EndData
    <2> QED
        BY <1>1, <2>1, <2>2, Zenon
           DEF TypeOK, DrumTypeOK, EndData, drum_vars, switch_vars,
               register_vars, flag_vars
<1>6. OperationPending' /\ SearchPosition'
    <2>1. inst_it' # 3
        BY <1>1, SMT
    <2> QED
        BY <1>1, <1>4, <2>1 DEF OperationPending, SearchPosition
<1> QED
    BY <1>3, <1>5, <1>6 DEF IInv

(* The start key goes on where the half-cycle lights say.                    *)
LEMMA RunInvariant ==
    ASSUME IInv, Run
    PROVE  IInv'
<1>1. /\ TypeOK /\ pc = "idle"
      /\ pc' = IF half_cycle = "instruction" THEN "instruction" ELSE "decode"
      /\ UNCHANGED <<half_cycle, operation_register, program_register,
                     address_register, restart, inst_it>>
    BY DEF IInv, Run, register_vars, local_vars
<1>2. RestartInterlock' /\ ShiftCounts'
    BY <1>1, Signals, NoOperation
<1>3. TypeOK'
    <2>1. pc' \in Pcs
        BY <1>1 DEF Pcs
    <2> QED
        BY <1>1, <2>1, Zenon
           DEF TypeOK, DrumTypeOK, Run, drum_vars, switch_vars, register_vars,
               flag_vars, local_vars, member_vars
<1>4. /\ inst_it = 1
      /\ operation_register =
            IF half_cycle = "data" THEN program_register.op ELSE Blank
      /\ half_cycle = "data" => address_register # Blank
      /\ half_cycle \in HalfCycles
    BY <1>1 DEF IInv, OperationPending, SearchPosition, TypeOK
<1>5. OperationPending' /\ SearchPosition'
    <2>1. inst_it # 3
        BY <1>4, SMT
    <2> QED
        BY <1>1, <1>4, <2>1 DEF OperationPending, SearchPosition, HalfCycles
<1> QED
    BY <1>2, <1>3, <1>5 DEF IInv

(* A step at the console that starts no run and sets no register of the      *)
(* control unit.                                                             *)
LEMMA ConsoleStepInvariant ==
    ASSUME IInv, pc = "idle", TypeOK',
           UNCHANGED <<pc, half_cycle, operation_register, program_register,
                       restart, inst_it>>,
           address_register' \in {address_register} \cup Addresses
    PROVE  IInv'
<1>1. RestartInterlock' /\ ShiftCounts'
    BY Signals, NoOperation
<1>2. address_register # Blank => address_register' # Blank
    BY BlankAssumption
<1>3. OperationPending' /\ SearchPosition'
    BY <1>2 DEF IInv, OperationPending, SearchPosition
<1> QED
    BY <1>1, <1>3 DEF IInv

(* The start key in the manual mode writes or reads one word.                *)
LEMMA ManualStartInvariant ==
    ASSUME IInv, ManualStart
    PROVE  IInv'
<1>1. TypeOK /\ address_entry \in Addresses
    BY DEF IInv, TypeOK
<1>2. /\ drum_storage' \in [Bands -> [Indices -> Word]]
      /\ drum_index' \in Indices
      /\ distributor' \in Word
    <2>1. CASE display_mode = "read_in_storage"
        <3>1. /\ OnDrum(address_entry)
              /\ drum_index' = index_of_address(address_entry)
              /\ drum_storage' =
                     [drum_storage EXCEPT ![band_of_address(address_entry)] =
                         [@ EXCEPT ![drum_index'] = storage_entry]]
              /\ distributor' = storage_entry
            BY <2>1, Zenon DEF ManualStart
        <3>2. band_of_address(address_entry) \in Bands /\ drum_index' \in Indices
            BY <1>1, <3>1, DrumFacts
        <3> QED
            BY <1>1, <3>1, <3>2 DEF TypeOK, DrumTypeOK
    <2>2. CASE display_mode = "read_out_storage"
        <3>1. /\ Readable(address_entry)
              /\ drum_index' = index_of_address(address_entry)
              /\ distributor' =
                    CASE address_entry \in {StorageEntryAddress, distributor_address}
                            -> storage_entry
                      [] address_entry \in {lower_accumulator_address,
                                            upper_accumulator_address}
                            -> get_storage(address_entry)
                      [] OTHER -> DrumWord(address_entry)
              /\ UNCHANGED drum_storage
            BY <2>2, Zenon DEF ManualStart, ReadOut
        <3>2. drum_index' \in Indices
            BY <1>1, <3>1, DrumFacts
        <3>3. distributor' \in Word
            <4>1. CASE address_entry \in SpecialAddresses
                <5>1. address_entry \in {StorageEntryAddress, distributor_address,
                             lower_accumulator_address, upper_accumulator_address}
                    BY <4>1, SizesAssumption, SMT
                       DEF SpecialAddresses, distributor_address,
                           lower_accumulator_address, upper_accumulator_address
                <5>2. distributor' \in {storage_entry, lower_accumulator,
                                        upper_accumulator}
                    BY <3>1, <5>1, SizesAssumption, SMT
                       DEF get_storage, distributor_address,
                           lower_accumulator_address, upper_accumulator_address
                <5> QED
                    BY <1>1, <5>2 DEF TypeOK
            <4>2. CASE address_entry \notin SpecialAddresses
                <5>1. distributor' = DrumWord(address_entry)
                    BY <3>1, <4>2, SizesAssumption, SMT
                       DEF SpecialAddresses, distributor_address,
                           lower_accumulator_address, upper_accumulator_address
                <5>2. /\ band_of_address(address_entry) \in Bands
                      /\ index_of_address(address_entry) \in Indices
                    BY <1>1, <3>1, <4>2, DrumFacts DEF Readable
                <5>3. DrumWord(address_entry) \in Word
                    BY <1>1, <5>2 DEF DrumWord, TypeOK, DrumTypeOK
                <5> QED
                    BY <5>1, <5>3
            <4> QED
                BY <4>1, <4>2
        <3> QED
            BY <1>1, <3>1, <3>2, <3>3 DEF TypeOK, DrumTypeOK
    <2>3. CASE display_mode \notin {"read_in_storage", "read_out_storage"}
        BY <1>1, <2>3, Zenon DEF ManualStart, TypeOK, DrumTypeOK, drum_vars
    <2> QED
        BY <2>1, <2>2, <2>3
<1>3. TypeOK'
    BY <1>1, <1>2, Zenon
       DEF TypeOK, DrumTypeOK, ManualStart, switch_vars, accumulator_vars,
           flag_vars, local_vars, member_vars
<1> QED
    BY <1>3, ConsoleStepInvariant, Zenon DEF ManualStart, local_vars

(* Switches are read, never written, by the program.                         *)
LEMMA SwitchInvariant ==
    ASSUME IInv, Switch
    PROVE  IInv'
<1>1. TypeOK /\ pc = "idle" /\ machine_unchanged
    BY DEF IInv, Switch
<1>2. /\ storage_entry' \in Word /\ address_entry' \in Addresses
      /\ control_mode' \in ControlModes /\ cycle_mode' \in CycleModes
      /\ display_mode' \in DisplayModes /\ overflow_mode' \in OverflowModes
    BY <1>1, InputsAssumption
       DEF TypeOK, Switch, set_storage_entry, set_address, set_control_mode,
           set_half_cycle_mode, set_display_mode, set_overflow_mode
<1>3. TypeOK'
    BY <1>1, <1>2, Zenon
       DEF TypeOK, DrumTypeOK, machine_unchanged, registers_unchanged, drum_vars,
           register_vars, flag_vars, local_vars, member_vars
<1> QED
    BY <1>1, <1>3, ConsoleStepInvariant, Zenon
       DEF machine_unchanged, registers_unchanged, register_vars, local_vars

(* A program reset leaves nothing waiting.                                   *)
LEMMA ProgramResetInvariant ==
    ASSUME IInv, pc = "idle", ProgramResetRegisters, TypeOK',
           UNCHANGED <<pc, restart, inst_it>>
    PROVE  IInv'
<1>1. RestartInterlock' /\ ShiftCounts'
    BY Signals, NoOperation
<1>2. /\ operation_register' = Blank /\ half_cycle' = "instruction"
      /\ pc' = "idle" /\ inst_it' = 1
    BY DEF ProgramResetRegisters, IInv, SearchPosition
<1>3. OperationPending' /\ SearchPosition'
    BY <1>2 DEF OperationPending, SearchPosition
<1> QED
    BY <1>1, <1>3 DEF IInv

(* The keys, one by one.                                                     *)
LEMMA KeyInvariant ==
    ASSUME IInv, Key
    PROVE  IInv'
<1>1. /\ TypeOK /\ Zero("+") \in Word /\ Unsigned(Zero("+")) \in UWord
      /\ StorageEntryAddress \in Addresses
    BY ZeroType, WordFields, SizesAssumption, SMT DEF IInv, Signs, Addresses
<1>2. ResetAddress \in Addresses \cup {Blank} /\ 0 \in 0 .. RunTimeModulus - 1
    BY <1>1, RunTimeAssumption, SMT DEF ResetAddress
<1> USE DEF TypeOK, DrumTypeOK, drum_vars, switch_vars, accumulator_vars,
            register_vars, flag_vars, local_vars, member_vars, HalfCycles
<1>3. CASE transfer
    <2>1. TypeOK'
        BY <1>1, <1>3, Zenon DEF transfer
    <2> QED
        BY <1>1, <1>3, <2>1, ConsoleStepInvariant, Zenon DEF transfer
<1>4. CASE program_reset
    <2>1. TypeOK'
        BY <1>1, <1>2, <1>4, Zenon DEF program_reset, ProgramResetRegisters
    <2> QED
        BY <1>4, <2>1, ProgramResetInvariant, Zenon DEF program_reset
<1>5. CASE accumulator_reset
    <2>1. TypeOK'
        BY <1>1, <1>5, Zenon DEF accumulator_reset, AccumulatorResetRegisters
    <2> QED
        BY <1>5, <2>1, ConsoleStepInvariant, Zenon DEF accumulator_reset
<1>6. CASE computer_reset
    <2>1. TypeOK'
        BY <1>1, <1>2, <1>6, Zenon
           DEF computer_reset, ProgramResetRegisters, AccumulatorResetRegisters
    <2> QED
        BY <1>6, <2>1, ProgramResetInvariant, Zenon DEF computer_reset
<1>7. CASE error_reset
    <2>1. TypeOK'
        BY <1>1, <1>7, Zenon DEF error_reset
    <2> QED
        BY <1>7, <2>1, ConsoleStepInvariant, Zenon DEF error_reset
<1> QED
    BY <1>3, <1>4, <1>5, <1>6, <1>7 DEF Key

----------------------------------------------------------------------------
(* The theorems.                                                             *)

(* A computer fresh from a program reset.                                    *)
LEMMA InitInvariant == Init => IInv
<1> SUFFICES ASSUME Init PROVE IInv
    OBVIOUS
<1>1. TypeOK
    <2>1. /\ Unsigned(Zero("+")) \in UWord /\ StorageEntryAddress \in Addresses
        BY ZeroType, WordFields, SizesAssumption, SMT DEF Signs, Addresses
    <2>2. /\ 0 \in 0 .. RunTimeModulus - 1 /\ 1 \in 1 .. 5 /\ 1 \in 1 .. 3
          /\ 0 \in Nat /\ -1 \in Int /\ no_operation \in OpCodes
        BY RunTimeAssumption, SMT DEF no_operation, OpCodes, OpBase, Base
    <2> QED
        BY <2>1, <2>2, InputsAssumption, Zenon
           DEF Init, TypeOK, DrumTypeOK, Bands, Indices, ControlModes, DisplayModes,
               HalfCycles, Pcs
<1>2. RestartInterlock /\ OperationPending /\ SearchPosition /\ ShiftCounts
    BY DEF Init, RestartInterlock, OperationPending, SearchPosition, ShiftCounts
<1> QED
    BY <1>1, <1>2 DEF IInv

(* Every step of the machine or the operator keeps the invariant.            *)
LEMMA NextInvariant == IInv /\ [ConsoleNext]_vars => IInv'
<1> SUFFICES ASSUME IInv, [ConsoleNext]_vars PROVE IInv'
    OBVIOUS
<1>1. CASE RunStep
    BY <1>1, InstructionWordTimeInvariant, EndInstructionInvariant,
       BeginDataInvariant, DataWordTimeInvariant, EndDataInvariant, AbortInvariant,
       Zenon DEF RunStep
<1>2. CASE ProgramStart
    BY <1>2, RunInvariant, ManualStartInvariant, AbortInvariant, Zenon
       DEF ProgramStart
<1>3. CASE Switch \/ Key
    BY <1>3, SwitchInvariant, KeyInvariant
<1>4. CASE UNCHANGED vars
    BY <1>4 DEF vars, drum_vars, switch_vars, register_vars, flag_vars, local_vars,
                member_vars, IInv, TypeOK, DrumTypeOK, RestartInterlock,
                OperationPending, SearchPosition, ShiftCounts, op_end, op_seq, Step
<1> QED
    BY <1>1, <1>2, <1>3, <1>4 DEF ConsoleNext, Next

(* Type correctness of the whole machine under any use of the console.        *)
THEOREM TypeCorrect == ConsoleSpec => []TypeOK
<1>1. IInv => TypeOK
    BY DEF IInv
<1> QED
    BY InitInvariant, NextInvariant, <1>1, PTL DEF ConsoleSpec

(* The restart signal never outlives the operation that gave it, whichever   *)
(* keys are pressed between half-cycles.                                     *)
THEOREM RestartInterlocked == ConsoleSpec => []RestartInterlock
<1>1. IInv => RestartInterlock
    BY DEF IInv
<1> QED
    BY InitInvariant, NextInvariant, <1>1, PTL DEF ConsoleSpec

(* No key can make the data half-cycle execute another operation than the    *)
(* one in the program register, or one that was executed before.             *)
THEOREM PendingOperation == ConsoleSpec => []OperationPending
<1>1. IInv => OperationPending
    BY DEF IInv
<1> QED
    BY InitInvariant, NextInvariant, <1>1, PTL DEF ConsoleSpec

(* The half-cycle lights follow the search for the next address, which never *)
(* ends before the operation has.                                            *)
THEOREM SearchPositioned == ConsoleSpec => []SearchPosition
<1>1. IInv => SearchPosition
    BY DEF IInv
<1> QED
    BY InitInvariant, NextInvariant, <1>1, PTL DEF ConsoleSpec

----------------------------------------------------------------------------
(* Action properties.                                                        *)

(* An address is found at one place of the drum only.                         *)
LEMMA PlaceOnDrum ==
    ASSUME NEW a \in Addresses, NEW b \in Addresses,
           band_of_address(a) = band_of_address(b),
           index_of_address(a) = index_of_address(b)
    PROVE  a = b
<1>1. a \in Nat /\ b \in Nat /\ BandSize \in Nat \ {0}
    BY SizesAssumption, SMT DEF Addresses
<1>2. /\ a = BandSize * (a \div BandSize) + (a % BandSize)
      /\ b = BandSize * (b \div BandSize) + (b % BandSize)
    BY <1>1, DivMod, Zenon
<1> QED
    BY <1>2, Zenon DEF band_of_address, index_of_address

(* The addresses of the drum are among those a register can hold.            *)
LEMMA DrumAddresses ==
    ASSUME NEW addr \in 0 .. NBands * BandSize - 1
    PROVE  addr \in Addresses
<1>1. NBands * BandSize \in Nat
    BY SizesAssumption, SMT
<1> QED
    BY <1>1, SizesAssumption, SMT DEF Addresses

(* One word written at the place of an address is the word of that address.   *)
LEMMA OneWordWritten ==
    ASSUME TypeOK, NEW a \in Addresses, NEW w, NEW addr \in Addresses,
           drum_storage' = [drum_storage EXCEPT
               ![band_of_address(a)] = [@ EXCEPT ![index_of_address(a)] = w]],
           DrumWord(addr)' # DrumWord(addr)
    PROVE  addr = a
<1>1. DrumWord(addr)' = drum_storage'[band_of_address(addr)][index_of_address(addr)]
    BY DEF DrumWord
<1>2. CASE band_of_address(addr) # band_of_address(a)
    BY <1>1, <1>2 DEF TypeOK, DrumTypeOK, DrumWord
<1>3. CASE index_of_address(addr) # index_of_address(a)
    BY <1>1, <1>3 DEF TypeOK, DrumTypeOK, DrumWord
<1> QED
    BY <1>2, <1>3, PlaceOnDrum

(* The drum is written at the address the program or the operator gives, and  *)
(* nowhere else: a word that was under the heads at another moment of the    *)
(* search, or a neighbour, is never lost.                                    *)
THEOREM OneWordPerStep == ConsoleSpec => OnlyAddressedWordChanges
<1>1. ASSUME IInv, ConsoleNext, NEW addr \in 0 .. NBands * BandSize - 1,
             DrumWord(addr)' # DrumWord(addr)
      PROVE  addr = IF pc = "idle" THEN address_entry ELSE address_register
    <2>1. drum_storage' # drum_storage
        BY <1>1 DEF DrumWord
    <2>2. TypeOK /\ addr \in Addresses /\ address_entry \in Addresses
        BY <1>1, DrumAddresses DEF IInv, TypeOK
    <2>3. CASE DataWordTime
        <3>1. pc = "data" /\ OperationStep
            BY <2>3 DEF DataWordTime
        <3>2. Store_Distributor
            BY <2>1, <3>1, Zenon
               DEF OperationStep, Enable, Data_to_Distributor,
                   Distributor_to_Accumulator, Remove_Interlock_A, Multiply, Divide,
                   Enable_Shift_Control, Shift, Look_Up_Address,
                   Insert_Address_in_Lower
        <3>3. /\ UnderHead(address_register)
              /\ drum_storage' =
                     DrumWritten(band_of_address(address_register), distributor)
            BY <2>1, <3>2, Zenon DEF Store_Distributor
        <3>4. drum_storage' = [drum_storage EXCEPT
                  ![band_of_address(address_register)] =
                      [@ EXCEPT ![index_of_address(address_register)] = distributor]]
            BY <3>3, Zenon DEF UnderHead, DrumWritten
        <3>5. address_register \in Addresses
            BY <1>1, <3>1, DataAddress DEF IInv
        <3>6. addr = address_register
            BY <1>1, <2>2, <3>4, <3>5, OneWordWritten
        <3> QED
            BY <3>1, <3>6
    <2>4. CASE ManualStart
        <3>1. /\ pc = "idle"
              /\ drum_storage' = [drum_storage EXCEPT
                    ![band_of_address(address_entry)] =
                       [@ EXCEPT ![index_of_address(address_entry)] = storage_entry]]
            BY <2>1, <2>4, Zenon DEF ManualStart, drum_vars
        <3>2. addr = address_entry
            BY <1>1, <2>2, <3>1, OneWordWritten
        <3> QED
            BY <3>1, <3>2
    <2>5. CASE ~DataWordTime /\ ~ManualStart
        BY <1>1, <2>1, <2>5, Zenon
           DEF ConsoleNext, Next, RunStep, ProgramStart, Switch, Key, Run,
               InstructionWordTime, InstructionAbort, EndInstruction, BeginData,
               DecodeAbort, DataAbort, EndData, ManualAbort, Abort, drum_vars,
               machine_unchanged, transfer, program_reset, accumulator_reset,
               computer_reset, error_reset
    <2> QED
        BY <2>3, <2>4, <2>5
<1>2. IInv /\ [ConsoleNext]_vars => [AddressedWordChanges]_vars
    BY <1>1, Zenon DEF AddressedWordChanges
<1> QED
    BY InitInvariant, NextInvariant, <1>2, PTL
       DEF ConsoleSpec, OnlyAddressedWordChanges

(* Once the next address is in the address register, nothing of the operation *)
(* but the interlock is left.                                                 *)
LEMMA NothingLeft ==
    ASSUME IInv, ConsoleNext, pc = "data", half_cycle = "instruction"
    PROVE  UNCHANGED <<drum_storage, distributor, accumulator_vars, overflow,
                       storage_selection_error, address_register, error_stop>>
<1>1. /\ TypeOK /\ op_it \in 1 .. 5 /\ inst_it \in 1 .. 3
      /\ inst_it > 1 /\ (op_it = op_end \/ Step("Remove_Interlock_A"))
    <2>1. /\ TypeOK /\ op_it \in 1 .. 5 /\ inst_it \in 1 .. 3 /\ inst_it # 1
          /\ inst_it > 1 => op_it = op_end \/ Step("Remove_Interlock_A")
        BY DEF IInv, TypeOK, SearchPosition
    <2> QED
        BY <2>1, SMT
<1>2. CASE DataWordTime
    <2>1. OperationStep /\ NextInstructionStep
        BY <1>2 DEF DataWordTime
    <2>2. \A name : Step(name) => name = "Remove_Interlock_A"
        <3>1. \A name : Step(name) => op_it < op_end
            BY <1>1, StepFacts
        <3>2. CASE op_it = op_end
            BY <1>1, <3>1, <3>2, StepFacts, SMT
        <3>3. CASE Step("Remove_Interlock_A")
            BY <3>3 DEF Step
        <3> QED
            BY <1>1, <3>2, <3>3
    <2>3. UNCHANGED <<drum_storage, distributor, accumulator_vars, overflow,
                      storage_selection_error>>
        BY <2>1, <2>2, SMT
           DEF OperationStep, Enable, Data_to_Distributor, Store_Distributor,
               Distributor_to_Accumulator, Remove_Interlock_A, Multiply, Divide,
               Enable_Shift_Control, Shift, Look_Up_Address,
               Insert_Address_in_Lower
    <2>4. SteppedAddress = address_register
        BY <2>2 DEF SteppedAddress
    <2>5. UNCHANGED <<address_register, error_stop>>
        <3>1. ~Instruction_Address_to_Address_Register
            BY <1>1, SMT DEF Instruction_Address_to_Address_Register
        <3> QED
            BY <2>1, <2>4, <3>1, Zenon
               DEF NextInstructionStep, Enable_Program_Register
    <2> QED
        BY <2>3, <2>5
<1>3. CASE DataAbort \/ EndData
    BY <1>3 DEF DataAbort, EndData, Abort, drum_vars, register_vars, flag_vars,
                accumulator_vars
<1>4. CASE ~DataWordTime /\ ~DataAbort /\ ~EndData
    BY <1>4
       DEF ConsoleNext, Next, RunStep, ProgramStart, Switch, Key, Run,
           InstructionWordTime, InstructionAbort, EndInstruction, BeginData,
           DecodeAbort, ManualStart, ManualAbort, transfer, program_reset,
           accumulator_reset, computer_reset, error_reset
<1> QED
    BY <1>2, <1>3, <1>4

(* Once the next address is in the address register, nothing of the operation *)
(* but the interlock is left: the overlap of operation and search is invisible. *)
THEOREM SearchEndsOperation == ConsoleSpec => SearchIsLast
<1>1. IInv /\ [ConsoleNext]_vars => [NothingButTheInterlock]_vars
    BY NothingLeft, Zenon DEF NothingButTheInterlock
<1> QED
    BY InitInvariant, NextInvariant, <1>1, PTL DEF ConsoleSpec, SearchIsLast

----------------------------------------------------------------------------
(* The display and the storage-selection light.  Both properties speak of one *)
(* step, and need of the invariant the types only.                           *)
(* The addresses of the drum and the four others, without gap or overlap.     *)
LEMMA AddressKinds ==
    ASSUME NEW addr \in Addresses
    PROVE  /\ OnDrum(addr) <=> addr <= LastDrumAddress
           /\ addr \in SpecialAddresses <=>
                 addr >= StorageEntryAddress /\ addr <= upper_accumulator_address
           /\ OnDrum(addr) => addr \notin SpecialAddresses
           /\ addr \in SpecialAddresses <=>
                 addr \in {StorageEntryAddress, distributor_address,
                           lower_accumulator_address, upper_accumulator_address}
  <1>1. addr \in Nat /\ BandSize \in Nat \ {0} /\ NBands \in Nat \ {0}
    BY SizesAssumption DEF Addresses
  <1> DEFINE b == addr \div BandSize
             i == addr % BandSize
  <1>2. b \in Nat /\ i \in 0 .. BandSize - 1 /\ addr = BandSize * b + i
    BY <1>1, DivMod, Zenon
  <1>3. b < NBands <=> addr < NBands * BandSize
    <2> HIDE DEF b, i
    <2>1. CASE b < NBands
      <3>1. BandSize * (b + 1) <= BandSize * NBands
        BY <1>1, <1>2, <2>1
      <3> QED  BY <1>1, <1>2, <2>1, <3>1
    <2>2. CASE b >= NBands
      <3>1. BandSize * b >= BandSize * NBands
        BY <1>1, <1>2, <2>2
      <3> QED  BY <1>1, <1>2, <2>2, <3>1
    <2> QED  BY <1>1, <1>2, <2>1, <2>2
  <1>4. NBands * BandSize \in Nat
    BY <1>1
  <1>5. OnDrum(addr) <=> addr <= LastDrumAddress
    <2> HIDE DEF b
    <2>1. OnDrum(addr) <=> b < NBands
      BY DEF OnDrum, band_of_address, b
    <2> QED  BY <1>1, <1>3, <1>4, <2>1, LightAssumption
  <1>6. addr \in SpecialAddresses <=>
           addr >= StorageEntryAddress /\ addr <= upper_accumulator_address
    BY <1>1, SizesAssumption DEF SpecialAddresses, upper_accumulator_address
  <1>7. OnDrum(addr) => addr \notin SpecialAddresses
    BY <1>1, <1>4, <1>5, <1>6, SizesAssumption, LightAssumption
  <1>8. addr \in SpecialAddresses <=>
           addr \in {StorageEntryAddress, distributor_address,
                     lower_accumulator_address, upper_accumulator_address}
    BY <1>1, SizesAssumption
       DEF SpecialAddresses, distributor_address, lower_accumulator_address,
           upper_accumulator_address
  <1> QED  BY <1>5, <1>6, <1>7, <1>8

(* What can neither be read nor is blank is what the light calls unassigned.  *)
LEMMA UnreadableIsUnassigned ==
    ASSUME NEW addr \in Addresses, ~Readable(addr)
    PROVE  Unassigned(addr)
  <1>1. addr # Blank
    BY BlankAssumption
  <1>2. addr \notin SpecialAddresses /\ ~OnDrum(addr)
    BY <1>1 DEF Readable
  <1>3. /\ addr \in Nat /\ LastDrumAddress \in Int
        /\ StorageEntryAddress \in Nat /\ upper_accumulator_address \in Nat
    BY SizesAssumption, LightAssumption DEF Addresses, upper_accumulator_address
  <1> QED  BY <1>2, <1>3, AddressKinds DEF Unassigned

----------------------------------------------------------------------------
(* A half-cycle that the drum fails (Drum::read) has the light on that        *)
(* storage_selection_error computes, on every machine where the drum ends    *)
(* below the 800x addresses.                                                 *)
THEOREM FailedReadLit == ConsoleSpec => FailedReadIsLit
  <1>1. ASSUME TypeOK, InstructionAbort \/ (DataAbort /\ Step("Data_to_Distributor"))
        PROVE  storage_selection_light \/ address_register = Blank
    <2>1. ~Readable(address_register)
      <3>1. CASE InstructionAbort
        BY <3>1 DEF InstructionAbort, InstructionAborts
      <3>2. CASE DataAbort /\ Step("Data_to_Distributor")
        <4>1. ~Step("Look_Up_Address")
          BY <3>2 DEF Step
        <4> QED  BY <3>2, <4>1 DEF DataAbort, DataAborts
      <3> QED  BY <1>1, <3>1, <3>2
    <2>2. address_register \in Addresses \/ address_register = Blank
      BY <1>1 DEF TypeOK
    <2> QED  BY <2>1, <2>2, UnreadableIsUnassigned DEF storage_selection_light
  <1>2. IInv /\ [ConsoleNext]_vars =>
           [InstructionAbort \/ (DataAbort /\ Step("Data_to_Distributor")) =>
               storage_selection_light \/ address_register = Blank]_vars
    BY <1>1 DEF IInv
  <1> QED
    BY InitInvariant, NextInvariant, <1>2, PTL DEF ConsoleSpec, FailedReadIsLit

----------------------------------------------------------------------------
(* Reading in: the distributor and the word of the drum are both the storage  *)
(* entry.                                                                     *)
LEMMA ReadInDisplays ==
    ASSUME TypeOK, ManualStart, display_mode = "read_in_storage"
    PROVE  distributor' = SelectedWord'
  <1> DEFINE b == band_of_address(address_entry)
             i == index_of_address(address_entry)
  <1>1. /\ OnDrum(address_entry)
        /\ drum_storage' = [drum_storage EXCEPT ![b] = [@ EXCEPT ![i] = storage_entry]]
        /\ distributor' = storage_entry
        /\ address_entry' = address_entry
    BY Zenon DEF ManualStart, switch_vars
  <1>2. address_entry \in Addresses
    BY DEF TypeOK
  <1>3. b \in Bands /\ i \in Indices
    BY <1>1, <1>2, DrumFacts
  <1>4. SelectedWord' = drum_storage'[b][i]
    BY <1>1 DEF SelectedWord, DrumWord
  <1> HIDE DEF b, i
  <1> QED  BY <1>1, <1>3, <1>4 DEF TypeOK, DrumTypeOK

(* Reading out: of the four addresses that are not on the drum, the           *)
(* distributor itself holds the storage entry by then.                        *)
LEMMA ReadOutDisplays ==
    ASSUME TypeOK, ManualStart, display_mode = "read_out_storage"
    PROVE  distributor' = SelectedWord'
  <1> DEFINE a == address_entry
  <1>1. /\ Readable(a) /\ distributor' = ReadOut(a)
        /\ drum_storage' = drum_storage
        /\ a' = a /\ storage_entry' = storage_entry
        /\ lower_accumulator' = lower_accumulator
        /\ upper_accumulator' = upper_accumulator
    BY Zenon DEF ManualStart, switch_vars, accumulator_vars
  <1>2. a \in Addresses
    BY DEF TypeOK
  <1>3. CASE OnDrum(a)
    <2>1. a \notin {StorageEntryAddress, distributor_address,
                    lower_accumulator_address, upper_accumulator_address}
      BY <1>2, <1>3, AddressKinds
    <2>2. ReadOut(a) = DrumWord(a)
      BY <2>1 DEF ReadOut
    <2>3. SelectedWord' = DrumWord(a)
      BY <1>1, <1>3 DEF SelectedWord, DrumWord
    <2> QED  BY <1>1, <2>2, <2>3
  <1>4. CASE ~OnDrum(a)
    <2>1. a \in {StorageEntryAddress, distributor_address,
                 lower_accumulator_address, upper_accumulator_address}
      BY <1>1, <1>2, <1>4, AddressKinds DEF Readable
    <2>2. /\ StorageEntryAddress # distributor_address
          /\ lower_accumulator_address \notin {StorageEntryAddress, distributor_address}
          /\ upper_accumulator_address \notin {StorageEntryAddress, distributor_address,
                                               lower_accumulator_address}
      BY SizesAssumption DEF distributor_address, lower_accumulator_address,
                             upper_accumulator_address
    <2>3. SelectedWord' =
             CASE a = StorageEntryAddress -> storage_entry
               [] a = distributor_address -> distributor'
               [] a = lower_accumulator_address -> lower_accumulator
               [] a = upper_accumulator_address -> upper_accumulator
               [] OTHER -> DrumRead(band_of_address(a))'
      BY <1>1, <1>4 DEF SelectedWord, get_storage
    <2>4. /\ a \in {StorageEntryAddress, distributor_address} =>
                distributor' = storage_entry
          /\ a = lower_accumulator_address => distributor' = lower_accumulator
          /\ a = upper_accumulator_address => distributor' = upper_accumulator
      BY <1>1, <2>2 DEF ReadOut, get_storage
    <2> QED  BY <2>1, <2>2, <2>3, <2>4
  <1> QED  BY <1>3, <1>4

(* After a manual start with the display switch on a storage position the     *)
(* display shows what is stored at the address that the switches select.      *)
THEOREM ManualStartShown == ConsoleSpec => ManualStartDisplays
  <1>1. ASSUME TypeOK, ManualStart,
               display_mode \in {"read_in_storage", "read_out_storage"}
        PROVE  display' = SelectedWord'
    <2>1. display_mode' = display_mode
      BY <1>1 DEF ManualStart, switch_vars
    <2>2. display' = distributor'
      BY <1>1, <2>1 DEF display
    <2> QED  BY <1>1, <2>2, ReadInDisplays, ReadOutDisplays
  <1>2. IInv /\ [ConsoleNext]_vars =>
           [ManualStart /\ display_mode \in {"read_in_storage", "read_out_storage"} =>
               display' = SelectedWord']_vars
    BY <1>1 DEF IInv
  <1> QED
    BY InitInvariant, NextInvariant, <1>2, PTL DEF ConsoleSpec, ManualStartDisplays
=============================================================================
