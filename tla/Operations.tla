----------------------------- MODULE Operations -----------------------------
(***************************************************************************)
(* The operation codes (enum class Operation of computer.cpp) and the       *)
(* sequences of operation steps the data half-cycle executes for them.      *)
(***************************************************************************)
EXTENDS Words, Sequences

no_operation == 0
stop == 1

add_to_upper == 10
subtract_from_upper == 11
divide == 14
add_to_lower == 15
subtract_from_lower == 16
add_absolute_to_lower == 17
subtract_absolute_from_lower == 18
multiply == 19

store_lower_in_memory == 20
store_upper_in_memory == 21
store_lower_data_address == 22
store_lower_instruction_address == 23
store_distributor == 24

shift_right == 30
shift_and_round == 31
shift_left == 35
shift_left_and_count == 36

branch_on_nonzero_in_upper == 44
branch_on_nonzero == 45
branch_on_minus == 46
branch_on_overflow == 47

reset_and_add_into_upper == 60
reset_and_subtract_into_upper == 61
divide_and_reset_upper == 64
reset_and_add_into_lower == 65
reset_and_subtract_into_lower == 66
reset_and_add_absolute_into_lower == 67
reset_and_subtract_absolute_into_lower == 68

load_distributor == 69
table_lookup == 84
branch_on_8_in_distributor_position_10 == 90

----------------------------------------------------------------------------
AddOps ==
    {add_to_upper, subtract_from_upper, add_to_lower, subtract_from_lower,
     add_absolute_to_lower, subtract_absolute_from_lower}

ResetAddOps ==
    {reset_and_add_into_upper, reset_and_subtract_into_upper,
     reset_and_add_into_lower, reset_and_subtract_into_lower,
     reset_and_add_absolute_into_lower, reset_and_subtract_absolute_into_lower}

UpperOps ==     \* those that address the upper half of the accumulator
    {add_to_upper, subtract_from_upper,
     reset_and_add_into_upper, reset_and_subtract_into_upper}

AbsoluteOps ==
    {add_absolute_to_lower, subtract_absolute_from_lower,
     reset_and_add_absolute_into_lower, reset_and_subtract_absolute_into_lower}

SubtractOps ==
    {subtract_from_upper, subtract_from_lower, subtract_absolute_from_lower,
     reset_and_subtract_into_upper, reset_and_subtract_into_lower,
     reset_and_subtract_absolute_into_lower}

DivideOps == {divide, divide_and_reset_upper}
ShiftOps == {shift_right, shift_and_round, shift_left, shift_left_and_count}

StoreWordOps == {store_lower_in_memory, store_upper_in_memory}
StoreAddressOps == {store_lower_data_address, store_lower_instruction_address}
StoreOps == StoreWordOps \cup StoreAddressOps \cup {store_distributor}

TestOps ==      \* branches that test the accumulator or the overflow light
    {branch_on_nonzero_in_upper, branch_on_nonzero, branch_on_minus,
     branch_on_overflow}

(* The default case of operation_steps: position 0..word_size-1, where 0      *)
(* stands for the highest position of the distributor.                       *)
BranchOn8Ops ==
    {op \in OpCodes :
        /\ op >= branch_on_8_in_distributor_position_10
        /\ op < branch_on_8_in_distributor_position_10 + WordSize}

PositionOf(op) ==
    LET pos == op - branch_on_8_in_distributor_position_10
    IN  IF pos = 0 THEN WordSize ELSE pos

StepLessOps == {no_operation, stop} \cup TestOps \cup BranchOn8Ops

ValidOperations ==
    AddOps \cup ResetAddOps \cup {multiply} \cup DivideOps \cup ShiftOps
    \cup StoreOps \cup {load_distributor, table_lookup} \cup StepLessOps

(* operation_steps: the classes of the steps, in order.                      *)
operation_steps(op) ==
    CASE op = load_distributor ->
            <<"Enable_Distributor", "Data_to_Distributor">>
      [] op \in AddOps \cup ResetAddOps ->
            <<"Enable_Distributor", "Data_to_Distributor",
              "Distributor_to_Accumulator", "Remove_Interlock_A">>
      [] op = store_distributor ->
            <<"Enable_Position_Set", "Store_Distributor">>
      [] op \in StoreWordOps ->
            <<"Enable_Distributor", "Data_to_Distributor", "Store_Distributor">>
      [] op \in StoreAddressOps ->
            <<"Data_to_Distributor", "Store_Distributor">>
      [] op = multiply ->
            <<"Enable_Distributor", "Data_to_Distributor", "Multiply",
              "Remove_Interlock_A">>
      [] op \in DivideOps ->
            <<"Enable_Distributor", "Data_to_Distributor", "Divide",
              "Remove_Interlock_A">>
      [] op \in ShiftOps ->
            <<"Enable_Shift_Control", "Shift", "Remove_Interlock_A">>
      [] op = table_lookup ->
            <<"Enable_Position_Set", "Look_Up_Address",
              "Address_to_Program_Register", "Insert_Address_in_Lower">>
      [] OTHER -> << >>
=============================================================================
