--------------------------- MODULE InstructionSet ---------------------------
(***************************************************************************)
(* What the computer promises a programmer: half-cycles that happen at      *)
(* once, on words that are found by their addresses.  There is no drum to   *)
(* wait for, no word time and nothing that overlaps.                        *)
(*                                                                          *)
(* Table lookup, multiplication and division are left open here: they       *)
(* leave some word in the accumulator, but change nothing else than they    *)
(* may.  A rounded shift by one place may round or not.                     *)
(***************************************************************************)
EXTENDS Accumulator, Operations

VARIABLES
    machine,      \* drum, registers and lights
    switches,     \* console switches
    status        \* "idle", "running" or "aborted"

ivars == <<machine, switches, status>>

Statuses == {"idle", "running", "aborted"}

----------------------------------------------------------------------------
(* Storage as a function of the address.                                     *)
HasWord(addr) == addr # Blank /\ (addr \in SpecialAddresses \/ OnDrum(addr))

WordAt(m, addr) ==
    CASE addr = StorageEntryAddress -> switches.storage_entry
      [] addr = distributor_address -> m.distributor
      [] addr = lower_accumulator_address -> m.lower
      [] addr = upper_accumulator_address -> m.upper
      [] OTHER -> m.storage[band_of_address(addr)][index_of_address(addr)]

Stored(m, addr, w) ==
    IF OnDrum(addr)
    THEN [m EXCEPT !.storage[band_of_address(addr)][index_of_address(addr)] = w]
    ELSE [m EXCEPT !.storage_selection_error = TRUE]

----------------------------------------------------------------------------
(* Shifts by n places of the double-length magnitude.                        *)
Left(u, l, n) ==
    CASE n <= WordSize ->
            LET rest == Weight[WordSize - n]
            IN  [upper |-> (u % rest) * Weight[n] + l \div rest,
                 lower |-> (l % rest) * Weight[n]]
      [] n > WordSize /\ n <= 2 * WordSize ->
            [upper |-> (l % Weight[2 * WordSize - n]) * Weight[n - WordSize],
             lower |-> 0]
      [] OTHER -> [upper |-> 0, lower |-> 0]

Right(u, l, n) ==
    IF n <= WordSize
    THEN [upper |-> u \div Weight[n],
          lower |-> (u % Weight[n]) * Weight[WordSize - n] + l \div Weight[n]]
    ELSE [upper |-> 0, lower |-> u \div Weight[n - WordSize]]

WithMagnitudes(m, d) ==
    [m EXCEPT !.upper = WordOf(d.upper, @.sign), !.lower = WordOf(d.lower, @.sign)]

Places(addr) == IF addr % Base = 0 THEN Base ELSE addr % Base

(* Rounding adds 5 to the last digit shifted off.                            *)
Rounded(u, l, n) ==
    LET d == Right(u, l, n - 1)
        low == d.lower + 5
        c == IF low >= WordBase THEN 1 ELSE 0
    IN  Right(d.upper + c, low - c * WordBase, 1)

(* Shift left until the high digit is not 0, at most limit places.           *)
Normalizing(u, l, limit) ==
    LET ends(k) == k = limit \/ HighDigit(Left(u, l, k).upper) > 0
    IN  CHOOSE k \in 0 .. limit : ends(k) /\ \A j \in 0 .. k - 1 : ~ends(j)

AfterShift(m, op) ==
    LET u == Mag(m.upper)
        l == Mag(m.lower)
        n == Places(m.address)
    IN  CASE op = shift_right -> WithMagnitudes(m, Right(u, l, n))
          [] op = shift_left -> WithMagnitudes(m, Left(u, l, n))
          [] op = shift_and_round -> WithMagnitudes(m, Rounded(u, l, n))
          [] op = shift_left_and_count ->
                LET k == Normalizing(u, l, n)
                    d == Left(u, l, k)
                    count == IF k = 0 THEN 0 ELSE (Base - n) + k
                    low == (d.lower - (d.lower % OpBase)) + count
                IN  [WithMagnitudes(m, [d EXCEPT !.lower = low])
                        EXCEPT !.overflow = HighDigit(d.upper) = 0]

----------------------------------------------------------------------------
(* The words an arithmetic operation adds or loads.                           *)
OperandOf(op, w) ==
    LET v == IF op \in AbsoluteOps THEN Abs(w) ELSE w
    IN  IF op \in SubtractOps THEN ChangeSign(v) ELSE v

AfterArithmetic(m, op) ==
    LET w == OperandOf(op, m.distributor)
        sum == add_to_accumulator(m.upper, m.lower, w, op \in UpperOps)
    IN  CASE op \in AddOps ->
                [m EXCEPT !.upper = sum.upper, !.lower = sum.lower,
                          !.overflow = sum.carry > 0]
          [] op \in ResetAddOps \cap UpperOps ->
                [m EXCEPT !.upper = w, !.lower = Zero(w.sign), !.overflow = FALSE]
          [] op \in ResetAddOps \ UpperOps ->
                [m EXCEPT !.upper = Zero(w.sign), !.lower = w, !.overflow = FALSE]

StoredBy(m, op) ==
    CASE op = store_distributor -> m.distributor
      [] op = store_lower_in_memory -> m.lower
      [] op = store_upper_in_memory -> m.upper
      [] op = store_lower_data_address -> [m.distributor EXCEPT !.da = m.lower.da]
      [] op = store_lower_instruction_address ->
            [m.distributor EXCEPT !.ia = m.lower.ia]

(* Where the next instruction comes from.                                    *)
Branches(m, op) ==
    CASE op = branch_on_nonzero_in_upper -> Mag(m.upper) # 0
      [] op = branch_on_nonzero -> ~(Mag(m.upper) = 0 /\ Mag(m.lower) = 0)
      [] op = branch_on_minus -> m.lower.sign = "-"
      [] op = branch_on_overflow -> m.overflow
      [] op \in BranchOn8Ops -> Digit(Mag(m.distributor), PositionOf(op)) = 8
      [] OTHER -> FALSE

Sequenced(m, op) ==
    [m EXCEPT
        !.address = IF Branches(m, op) THEN @ ELSE m.program.ia,
        !.operation = Blank,
        !.half_cycle = "instruction",
        !.error_stop = IF op \in BranchOn8Ops
                       THEN Digit(Mag(m.distributor), PositionOf(op)) \notin {8, 9}
                       ELSE @]

(* The operations that take a word from storage.                             *)
LoadingOps ==
    {load_distributor, multiply} \cup AddOps \cup ResetAddOps \cup DivideOps

Loaded(m) == [m EXCEPT !.distributor = WordAt(m, m.address)]

(* Next is one of the machines operation op may leave.                        *)
Executed(m, op, next) ==
    \/ op \in StepLessOps /\ next = Sequenced(m, op)
    \/ op = load_distributor /\ next = Sequenced(Loaded(m), op)
    \/ /\ op \in AddOps \cup ResetAddOps
       /\ next = Sequenced(AfterArithmetic(Loaded(m), op), op)
    \/ /\ op \in StoreOps
       /\ LET w == StoredBy(m, op)
          IN  next = Sequenced(Stored([m EXCEPT !.distributor = w], m.address, w), op)
    \/ /\ op \in ShiftOps
       /\ next = Sequenced(AfterShift(m, op), op)
    \/ /\ op = shift_and_round /\ Places(m.address) = 1
       /\ next = Sequenced(AfterShift(m, shift_right), op)
    \/ /\ op \in DivideOps \cup {multiply}
       /\ next.upper \in Word /\ next.lower \in Word
       /\ next.overflow \in BOOLEAN /\ (m.overflow => next.overflow)
       /\ next = Sequenced([Loaded(m) EXCEPT !.upper = next.upper,
                                            !.lower = next.lower,
                                            !.overflow = next.overflow], op)
    \/ /\ op = table_lookup
       /\ next.lower.da \in Addresses
       /\ next = Sequenced([m EXCEPT !.lower.da = next.lower.da], op)

----------------------------------------------------------------------------
Machines ==
    [storage : [0 .. NBands - 1 -> [0 .. BandSize - 1 -> Word]],
     distributor : Word, upper : Word, lower : Word,
     program : UWord,
     operation : OpCodes \cup {Blank},
     address : Addresses \cup {Blank},
     half_cycle : {"instruction", "data"},
     overflow : BOOLEAN, storage_selection_error : BOOLEAN, error_stop : BOOLEAN]

(* After a program reset.                                                    *)
Init ==
    /\ machine \in Machines
    /\ machine.operation = Blank
    /\ machine.address = StorageEntryAddress
    /\ machine.half_cycle = "instruction"
    /\ status = "idle"

StatusAfter(stops) == IF stops THEN "idle" ELSE "running"

(* program_start outside the manual mode.                                    *)
Start ==
    /\ status = "idle"
    /\ switches.control_mode # "manual"
    /\ status' = "running"
    /\ UNCHANGED <<machine, switches>>

InstructionHalfCycle ==
    /\ status = "running"
    /\ machine.half_cycle = "instruction"
    /\ HasWord(machine.address)
    /\ LET w == WordAt(machine, machine.address)
       IN  machine' = [machine EXCEPT !.program = Unsigned(w),
                                      !.operation = w.op,
                                      !.address = w.da,
                                      !.half_cycle = "data"]
    /\ status' = StatusAfter(switches.cycle_mode = "half")
    /\ UNCHANGED switches

DataHalfCycle ==
    /\ status = "running"
    /\ machine.half_cycle = "data"
    /\ machine.operation \in ValidOperations
    /\ machine.operation \in LoadingOps => HasWord(machine.address)
    /\ Executed(machine, machine.operation, machine')
    /\ status' = StatusAfter(\/ switches.cycle_mode = "half"
                             \/ machine.operation = stop
                             \/ machine'.overflow /\ switches.overflow_mode = "stop"
                             \/ machine'.error_stop)
    /\ UNCHANGED switches

(* A word that is not there, an operation that does not exist, or a table    *)
(* without an entry to be found.                                             *)
Fail ==
    /\ status = "running"
    /\ \/ machine.half_cycle = "instruction" /\ ~HasWord(machine.address)
       \/ /\ machine.half_cycle = "data"
          /\ \/ machine.operation \notin ValidOperations
             \/ machine.operation \in LoadingOps /\ ~HasWord(machine.address)
             \/ machine.operation = table_lookup
    /\ status' = "aborted"
    /\ UNCHANGED <<machine, switches>>

Next == Start \/ InstructionHalfCycle \/ DataHalfCycle \/ Fail

Spec == Init /\ [][Next]_ivars
=============================================================================
