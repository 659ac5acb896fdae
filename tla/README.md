# Verification of the IBM 650 emulator

TLA+ modules, TLC configurations and TLAPS proofs about the emulator of the IBM
Type 650 in this repository. All line numbers refer to files under `src/`.

## The system

The program emulates a computer of 1954 whose only storage is a magnetic drum. An
instruction names its operation, a data address and the address of the next
instruction; a word can be used only in the word time in which it passes under the
heads. One thread does everything: `Computer::program_start` is a plain call that
loops until the program stops, and the console calls setters and keys between runs.
What is concurrent is *simulated*: in a data half-cycle the operation and the search
for the next instruction advance side by side, one step each per word time, on shared
registers.

### Inventory

| Component | State | Operations | What makes it hard | What makes it correct |
|---|---|---|---|---|
| Words (`register.hpp`, `register.cpp`) | digits of a register as bi-quinary codes | `load`, `fill`, `clear`, `value`, `++`, `add`, `shift`, `abs`, `change_sign`, `less` | carries, the sign as an eleventh digit, blank registers | the value of a sum is the sum of the values |
| Arithmetic unit (`computer.cpp:1013-1040`) | upper and lower accumulator | `add_to_accumulator`, `shift_accumulator` | carry between the halves, sign of zero, overflow, the sign of the upper half that takes no part | exact signed 20-digit arithmetic |
| Operation decoder (`26-69`, `540-614`) | none | `operation_steps` | codes that do not exist | every code has one sequence of steps |
| Drum (`1083-1113`) | words, index | `step`, `read`, `write` | a band is chosen by the address, the place in it by the moment | only the addressed word is read or written |
| Control unit (`102-523`, `768-860`) | registers, half-cycle, run time, restart signal, error flags, locals and members of the steps | instruction and data half-cycles, manual start | overlap of operation and search, even and odd word times, waiting for the drum, iterative operations | overlap and waiting are invisible; every half-cycle ends |
| Console (`711-766`, `862-905`) | switches | setters, `transfer`, four resets | keys pressed between the fetch of an instruction and its execution | lights and registers agree on what waits; nothing stale survives |
| Power (`641-704`) | elapsed seconds, three flags | `power_on`, `power_off`, `dc_on`, `dc_off`, `master_power_off`, `step` | delays crossed by a step of any size | DC comes on once, the blower runs on |
| Card unit (`input_output_unit.cpp`) | hoppers, feeds, stackers, buffers, pending requests | start, stop, end-of-file keys; `advance_source`, `advance_sink` | requests that wait for an operator, callbacks that resume the program | cards pass the stations in order, a program waits exactly for the card it has asked for and takes none twice, unless cards were run out |
| Card code (`input_output_unit.cpp:14-54`) | none | `card_to_buffer`, `buffer_to_card` | the sign shares a column with a digit | what is punched reads back |
| Display and lights (`computer.cpp:907-986`) | display switch | `display`, lights | the ranges of addresses the light and the drum know are written separately | the light is on for what cannot be read |
| Graphical console (`UI/app.cpp`) | widgets, timer | callbacks | "power on" makes the clock jump; otherwise none: GTK calls them one at a time | displays the state |

The computer calls the drum, the steps and the arithmetic unit directly. The control
unit reads the console's switches. The card unit is not connected: read and punch
operations are not implemented, and `meson.build` does not compile it into the library. It
talks to a program through `Source`/`Source_Client` and `Sink`/`Sink_Client`
(`buffer.hpp`): the program asks for an advance, and the unit calls it back when the cards
have moved. Power shares no state with the program: nothing asks for DC power
before a program starts.

## Modules

    Words ─ Accumulator ───────────┐
      ├──── Operations ────────────┼─ ControlUnit ─ Computer ─ Display ─ MCComputer
      └──── Drum ──────────────────┘       ├─ MCPrograms (and MCComputer)
                                           └─ HalfCycles ─┬─ MCHalfCycles
                                                          └─ ArithmeticResults ─ MCArithmetic
    Accumulator, Operations ─ InstructionSet ┄┄ refined by HalfCycles

    Registers ─ Cards ─┬─ DigitAccumulator ─ MCDigitAccumulator
          Accumulator ─┘

    CardFeed ─┬─ CardReader ─┬─ InputOutputUnit
              └─ CardPunch ──┘
    Power, refines PowerSequence

* **Words.** A word is a record of the three digit groups the control unit looks at
  (operation code, data address, instruction address) and a sign; `Mag` is the number its
  ten digits spell and `WordOf` its inverse. The sizes are constants with assumptions:
  digits in an address, words in a band, bands, the 800x addresses. `Weight` is the recursive
  function of the powers of ten. `Blank` is a
  register with no bits set. `less` is modelled as it is written: it leaves out the
  highest digit and ends with the sign.
* **Accumulator.** `add_to_accumulator` and the one-place shifts, on pairs of
  magnitudes with carry and borrow between the halves.
* **Operations.** The codes of `enum class Operation` and the step sequence of each.
* **Drum.** Bands of words and one index for all heads.
* **ControlUnit.** `program_start`. One step of the module is one iteration of one of
  its two loops, or the code before or after a loop: that is the grain at which
  anything is visible to the program itself. `pc` says which loop runs. In a data
  half-cycle, `DataWordTime` conjoins one operation step (`OperationStep`: one disjunct for
  each `Operation_Step` class), one step of the search (`NextInstructionStep`) and
  `WordTime`, in the order of the code: the search sees the registers and the restart
  signal as the operation step leaves them, `SearchEnabled` therefore has primes.
  A failed `assert` ends the process (`pc = "aborted"`).
* **Computer.** The switches and keys around it, enabled between calls of
  `program_start` only. With the half-cycle switch on "half" that is also between the
  fetch of an instruction and its execution.
* **InstructionSet.** The abstract specification: what a programmer is promised. A
  half-cycle happens at once, words are found by address, shifts are powers of ten.
  There is no drum index, no word time, no overlap, no restart signal. Results of
  multiplication, division and table lookup are left open, and whether a shift by one place
  rounds, but nothing else may change. A lookup may fail.
* **HalfCycles.** ControlUnit with two history variables, the machine as the last
  completed half-cycle left it (the refinement mapping to InstructionSet) and the word
  times the present half-cycle has taken.
* **Display.** What the operator sees: `display()`, and the storage-selection light. The last
  address the light takes for one of the drum is a constant of its own (`LastDrumAddress`), as
  the literal 1999 is in the code; that it was chosen for the drum is an assumption.
* **ArithmeticResults.** What multiplication, division, rounded shifts and table lookup
  leave, as arithmetic on the machine before and after a data half-cycle. InstructionSet leaves
  these results open; the properties say under which conditions the code computes them.
* **Registers.** `register.hpp` and `register.cpp` on bi-quinary codes, loop by loop: a register
  is the sequence of its codes in display order, the sign in the last digit. The carry of a
  loop is a recursive function of the position.
* **Cards.** The card code: a column is the set of its punched rows.
* **DigitAccumulator.** `add_to_accumulator`, `shift_accumulator`, the reset operations and
  `++m_address_register` on those registers: the halves are joined in a register of double
  length and copied back. Its properties compare the digits with what Accumulator and
  Words say of numbers, so that the other modules may count in numbers. The validity
  lights are `is_number` of these registers.
* **CardFeed, CardReader, CardPunch, InputOutputUnit.** The path of the cards through
  the stations, each side with the keys of the operator and the program that uses it, and
  both together with the stop keys they share. A member function is an operator on
  the record of the unit's members, and an action applies it. The programs are modelled on
  the mock clients of `test_input_output.cpp`: a read takes the words from the buffer, which it
  may leave or empty, then asks for an advance; a write fills the buffer and asks. Unlike the
  clients of the tests, a program stands still until it is resumed (a test, `507`, writes a
  record to a client that was not). A card is its number, a record is its number. The operator may
  load a hopper at any time, which replaces what is in it, as in the code. `crashed` is the
  null pointer that `punch()` dereferences at an empty station.
* **Power.** The keys, the timer and `step`. **PowerSequence** is the abstract
  specification: five phases (off, warming, DC off, ready, dead) and the blower, no clock. The
  blower starts with main power.
* **MCPrograms, MCHalfCycles, MCComputer, MCArithmetic, MCDigitAccumulator.** Programs and
  values for TLC.
* **AccumulatorProofs, ComputerProofs, HalfCycleProofs, CardUnitProofs, PowerProofs.**
  Theorems about the modules of those names (Computer stands for ControlUnit and Display
  too, CardUnit for CardReader and CardPunch). **RefinementProofs** proves that HalfCycles
  implements InstructionSet, **ResultProofs** the properties of ArithmeticResults,
  **RegisterProofs** those of DigitAccumulator, with lemmas about the loops of Registers
  and the columns of Cards.

Operators named `...KeepingCarry`, `...Early`, `...AtOnce` and the like, marked "Mutant
of", are small bugs of the kind each property is there to find; no specification uses
them.

### Correspondence

Variables carry the names of the members without `m_`. Locals of `program_start` keep
their names, `op_it` and `inst_it` (for `next_op_it`) being positions from 1. The members
of the step objects (`m_shift_count`, `m_upper_overflow`, `m_shift`, `m_band`) are variables
that `BeginData` sets as the constructors do and `EndData` resets, since the objects are gone.

Abstractions:

* Digits within a group appear only through `Mag`, `Digit`, `WordOf`; DigitAccumulator is
  where the digits themselves are.
* A code or a character is its ASCII number. `bin` is left undefined where the code would
  read past its table, so that a run that got there would stop with an error.
* The elapsed time counts up to the sum of both delays: it is compared with each of
  them and nothing else.
* Shift counts of `Multiply` stay at the word size once they reach it. The code asks
  only whether they have, and looks at digits of that position: beyond the register
  it would read outside (`334`), which cannot change the overflow light in the model.
* The run time counts modulo an even number. The program reads its parity only.
* `m_programmed_mode`, `m_error_mode`, `m_error_sense` and `m_clocking_error` are written
  and never read by the program, and are left out. The control position "address stop"
  behaves as "run", as in the code.

## What TLC checks

| Run | Specification | Properties | States |
|---|---|---|---|
| `half_cycles` | HSpec | `TypeOK`, `DurationBound`, `SearchIsLast`, `ImplementsInstructionSet` | 1.8 million |
| `console` | FairConsoleSpec | `RestartInterlock`, `OperationPending`, `SearchPosition`, `OnlyAddressedWordChanges`, `ManualStartDisplays`, `FailedReadIsLit`, `HalfCyclesEnd` | 1.2 million |
| `arithmetic` | HSpec | `ProductExact`, `QuotientExact`, `RoundsToNearest`, `LookupFindsFirst` | 424 thousand |
| `digits` | DigitSpec | `DigitsComputeNumbers`, `RegistersSpellNumbers`, `LessOrdersLowDigits`, `AddressCountsUp`, `CardKeepsWords` | 44 thousand |
| `cards` | FairSpec | `ReaderTypeOK`, `BufferHoldsLastCard`, `RequestsMatchCards`, `CardTransferredOnce`, `ReaderKeepsCards`, `EndOfFileDrains`, `RecordsPunchedInOrder`, `WaitsForStart`, `PunchHasCard` | 609 thousand |
| `power` | FairPowerSpec | `PowerAssertions`, `ImplementsPowerSequence`, `DcStaysOff`, `DcComesOn` | 1569 |
| `multiply` | FairSpec | `MultiplyEnds`, violated | |
| `error_stop` | ConsoleSpec | `ProgramResetClearsErrors`, violated | |
| `divide` | HSpec | `QuotientAlwaysExact`, violated | |
| `end_of_file` | Spec | `EndOfFileSkipsNoCard`, violated | |
| `round` | HSpec | `RoundsEveryShift`, violated | |
| `warm_up` | PowerSpec | `WarmUpEndsByTimer`, violated | |

* **half_cycles.** The first instruction comes from the storage-entry switches and ranges
  over every operation, and one that does not exist, with data addresses on the drum
  (5), on no drum (20) and each of the 800x addresses; it starts at each of the four drum
  positions and even and odd times; the accumulator holds numbers of either sign
  that carry, borrow and overflow with the data. The program goes on with an
  instruction on the drum of one of three kinds (an addition that overflows and a
  branch on a digit; a store and a load; a subtraction and a branch on its sign). Two
  overflow positions, two half-cycle positions. `ImplementsInstructionSet` is the
  refinement. `DurationBound` gives for each operation the longest time it may take: a
  revolution for each word, one more word time for an even time, and for division
  and lookup the iterations they can need.
* **console.** Every order of switches, keys and runs on a drum of two bands of
  two words. The entries are a store to the address that the next instruction reads,
  and a branch on a digit, which may set the error stop. Addresses 3 (drum) and 82
  (lower accumulator). The program loops through the storage-entry switches, so
  that any number of half-cycles may happen between keys; the branch leads to a load
  from address 4, where there is no word, or to the next instruction there. Reading in and out at the console shows the stored word
  (`ManualStartDisplays`), and no fetch or load fails with the storage-selection light off.
  Whatever the keys have left behind, a started program comes to the end of every half-cycle
  (`HalfCyclesEnd`). For the operations that this program does not have, `half_cycles` says more:
  `DurationBound` holds the clock of each against its longest time.
* **arithmetic.** One multiplication, division, rounded shift or table lookup, from each
  drum position, with accumulators and data of either sign with zeros, carries and
  leading digits. The product is exact when the multiplier does not end in 0 and the result
  fits: it takes the sign of the *distributor* alone. A quotient is exact for divisors up to
  10^9 (`HighBase` here). A shift by more than one place rounds to the nearest. Lookup finds the
  first entry not below the argument, in whichever band, by the order of `less`.
* **digits.** From every combination of five words of either sign in both halves and the
  distributor, two calls of any kind. The words are chosen for their carries and borrows
  (9999, 1899, 0999), for a leading digit that `less` does not see, and for zeros inside.
* **cards.** Decks of 0, 2 and 4 cards (fewer than, as many as and more than fit the
  stations of either feed), up to 4 cards and 3 records, all orders of keys, decks, reads and
  writes. `RequestsMatchCards` and `CardTransferredOnce` are about the resume signal:
  `read_start` sends it whether or not anybody asked. As long as cards move on only with others
  behind them, a program waits exactly when it has taken the card at the last station, and takes
  none twice. When cards are run out, by read-start with an empty hopper or by end of file, the
  words of the last one stay in the buffer; a program that is resumed then takes them again,
  and that is the only exception the property has. (`input_output.org:63-66` has no exception: the
  program "remains paused" while cards are run out.) `PunchHasCard` names the only ways to reach the empty station: a
  record written before the first card has run in, a run-out while a record waits or
  the punch runs, and a deck loaded behind a gap in the feed.
* **power.** The delays of the code (180 and 300 s), the jump of 175 s, timer steps of 1 and 7
  seconds: 5 seconds are left, so that a step ends before, at and beyond the delay.
  `ImplementsPowerSequence` allows one step that PowerSequence does not know, "power off" on a
  machine that is off, which starts the blower (below, under what no run is about).

### Bounds

Addresses have two digits, so words have six (`AddressBase = 100`, `WordSize = 6`): the
operation code keeps its two digits, the 800x addresses are 80 to 83 and there are addresses
with no word both between and above, as on the real machine. Operation codes 96 to 99 are
then no branches and stand for codes without steps; shift counts still go from 1 to 10 and so
beyond the lower half. Bands of four words are the smallest with words before and within
"the last two of a band"; three bands let a lookup end in the last one, and beyond
it. Two bands of two words are enough for the console run, which has no lookup. A run
time modulo 2 keeps the parity.

The arithmetic and digit runs use words of four digits and addresses of one, so that the
interesting numbers are a fair part of all. The lookups need three words in a band: one
entry before the two that are skipped.

### Fairness

`FairSpec` and `FairConsoleSpec` have weak fairness of `RunStep`, the steps of a program that has
been started.
`program_start` is called on the only thread and does not return before its loops end, so a
started program is always able to take its next step and takes it. There is no fairness
for the operator: starting is `ProgramStart`, which nothing forces. `FairPowerSpec` is weak
fairness of the timer, which the main loop calls for as long as the window is open.
InputOutputUnit's `FairSpec` is weak fairness of `ReadsOn`: a program that reads again whenever
it does not wait. The operator is not fair there either; `EndOfFileDrains` holds until
reading is stopped. Deadlock checking is off where a failed assertion, or a null pointer,
ends the process, and where calls are counted.

## What is proved

For every size of the machine that satisfies the named assumptions of `Words` and
`ControlUnit`, for every drum, program and setting of the switches, and any order of keys:

| Theorem | Statement |
|---|---|
| `MagOfWordOf` | cutting a magnitude into digit groups loses nothing |
| `AdditionExact` | `add_to_accumulator` is exact signed addition, the carry standing for the lost digit; the upper half keeps its sign |
| `TypeCorrect` | `ConsoleSpec => []TypeOK` |
| `RestartInterlocked` | `ConsoleSpec => []RestartInterlock` |
| `PendingOperation` | `ConsoleSpec => []OperationPending` |
| `SearchPositioned` | `ConsoleSpec => []SearchPosition` |
| `OneWordPerStep` | `ConsoleSpec => OnlyAddressedWordChanges` |
| `SearchEndsOperation` | `ConsoleSpec => SearchIsLast` |

For all delays, jumps and lengths of step (`DelaysAssumption`: the jump is shorter than the
delay of DC power, steps are whole seconds, the blower's delay is not 0):

| Theorem | Statement |
|---|---|
| `PowerInvariant` | `PowerSpec => []PowerInv`: DC power needs main power and the delay, main power needs the master switch |
| `PowerAssertionsHold` | `PowerSpec => []PowerAssertions` |
| `PowerRefinement` | `PowerSpec => ImplementsPowerSequence`: the phases of PowerSequence and no others, but for `PowerOffAgain` |
| `DcPowerStaysOff` | `PowerSpec => DcStaysOff` |

For every program and drum, and half-cycles of every operation:

| Theorem | Statement |
|---|---|
| `DurationBounded` | `HSpec => []DurationBound`: a fetch takes at most a revolution and one word time, every operation but multiplication at most what `LongestData` gives for its class |
| `ImplementsTheInstructionSet` | `HSpec => ImplementsInstructionSet`: every half-cycle has the effect InstructionSet gives its operation, and fails only where InstructionSet lets it |
| `RoundingNearest` | `HSpec => RoundsToNearest`: to the nearest, for shifts by more than one place |
| `ProductsExact` | `HSpec => ProductExact`: a product, with what the lower half held added above it, for multipliers that do not end in 0 |
| `QuotientsExact` | `HSpec => QuotientExact`: quotient with its sign, remainder, and overflow, for divisors up to `HighBase` |
| `LookupsFindFirst` | `HSpec => LookupFindsFirst`: the first entry that is not below the argument, wherever the drum stood and in whichever band |

For every display address and any order of keys:

| Theorem | Statement |
|---|---|
| `FailedReadLit` | `ConsoleSpec => FailedReadIsLit` |
| `ManualStartShown` | `ConsoleSpec => ManualStartDisplays` |

For any decks, any number of cards and records and any order of keys, reads and writes
(`Spec` of InputOutputUnit):

| Theorem | Statement |
|---|---|
| `ReaderTypeCorrect` | `Spec => []ReaderTypeOK` |
| `BufferCurrent` | `Spec => []BufferHoldsLastCard` |
| `RequestsMatched` | `Spec => []RequestsMatchCards` |
| `TransferredOnce` | `Spec => CardTransferredOnce`: only a card that was run out can be taken again |
| `CardsConserved` | `Spec => ReaderKeepsCards` |
| `PunchedInOrder` | `Spec => []RecordsPunchedInOrder` |
| `NoLostWakeup` | `Spec => []WaitsForStart` |
| `CrashNeedsMisuse` | `Spec => []PunchHasCard` |

For words and address registers of every length, any words to begin with and any number
of calls (`DigitSpec`):

| Theorem | Statement |
|---|---|
| `NumbersAreDigits` | of the codes of 7 bits, `is_number` passes those of the ten digits |
| `RegistersAlwaysSpell` | `DigitSpec => []RegistersSpellNumbers` |
| `DigitsAlwaysCompute` | `DigitSpec => DigitsComputeNumbers`: the loops over codes leave the halves and the carry that Accumulator gives as numbers |
| `AddressAlwaysCounts` | `DigitSpec => AddressCountsUp` |
| `LessAlwaysOrders` | `DigitSpec => []LessOrdersLowDigits` |
| `CardAlwaysKeeps` | `DigitSpec => []CardKeepsWords` |

Assumptions: `SizesAssumption` (the drum lies below four consecutive special addresses, which
lie within an address register), `BlankAssumption` (no number is blank),
`RunTimeAssumption` (the run time wraps at an even number), `InputsAssumption` (the inputs
are words, addresses and positions). For the bounds on half-cycles, `LookUpAssumption`: a band has
a third word, since lookup compares with all but the last two, and counting through a
band beyond the drum does not wrap the address register. Without either a lookup could go
on for ever; the real machine has bands of 50 and 40 of them below 10000. For the cards,
`ReadDecksAssumption` and `PunchDecksAssumption` (sizes are numbers), `NoCardAssumption` and
`BlankCardAssumption` (a null pointer is no card, a blank card holds no record). For the
refinement, `DigitsAssumption`: a word has `WordSize` digits, on which the shifts by many
places of InstructionSet rest. For the registers `DigitsAssumption` again, and `DigitsInRange`
(the registers begin with digits, as the reset keys leave them). For the storage-selection
light, `LightAssumption`: its last drum address is the drum's.

**The argument.** Types alone are not inductive: an address register may be blank after
a reset in the manual mode, so a data half-cycle is typed only because none begins
then (`OperationPending`); an inserted shift count is a digit pair only because counts end at
10 (`ShiftCounts`). The restart signal is down between half-cycles because
`Remove_Interlock_A` is the last step of every sequence that raises it, because no
half-cycle ends before that step, and because the search never stops a half-cycle early
(`SearchPosition`); the search in turn starts before the end of the operation only under the
signal (`RestartInterlock`), one word time late, and the parity of the run time makes that the
word time in which the accumulator is full. The conjunction of the four properties and
`ShiftCounts` is the inductive invariant `IInv`. Each action has a lemma;
`DataWordTimeInvariant` rests on the types an operation step leaves (one lemma per
class of step), on the schedule of the restart signal (`RestartScheduled`) and on the
moves of the search (`SearchMoves`). The two action properties follow from the invariant.
`AdditionExact` goes from the carry and borrow of the halves to sums and differences
of magnitudes (`PlusMagnitudeSum`, `MinusMagnitudeSum`), then to signs.

For the duration of half-cycles, `Progress` says for every position of an operation how much time may have
gone: while a step waits for the drum, the time so far plus the wait left is bounded, which
is inductive where the time alone is not. The search adds at most two word times after
the operation (`SearchComesLast`), except under the restart signal, where the parity of the run time
decides. A division pays ten subtractions at most for every shift, and what it has left
to subtract is in the lowest digit of the quotient, kept below `Base`. A lookup has used
as many revolutions as bands (`LookingUp`), its address staying within the band it
compares with. The proof showed that two branches of `word_times'` overlapped; they are now
nested IFs.

For the refinement, `Simulated` says for every position of an operation what it has made so far
of the machine the half-cycle began with (`completed`): nothing while it waits, the
addressed word in the distributor after the load, the sum after the second word time, the
word in place after the store, and during a shift the double-length number shifted by as
many places as the shift count says (`Shifting`). Next to that, `Searched` says what the
parallel search has made of it. It is inductive together with `IInv`, which keeps the two
apart: once the search has written, nothing but the interlock is left (`SearchPosition`,
`NothingLeft`). That a shift of so many single places is a shift by a power of ten, with
5 added before the last place when rounding, is `LeftNext`, `RightNext` and
`HalfAddedWords`, from `WeightRule` and `WeightSum` about the recursive function `Weight`; these
are proved by induction over the places, with the least-number principle
of the library instead of its induction theorem. At the end, `OperationExecuted` reads
the machine off field by field. All other word times leave `completed`, the switches
and the status unchanged.

The results rest on `Simulated`: at the end of a data half-cycle the accumulator *is* the next
machine (`CompletedAtEnd`), so that it is enough to know the accumulator after the last
word time. Rounding follows from `ShiftEffect` of the refinement. The loops of multiplication and
division share one accumulator of double length with two uses: the digits not yet taken
stand in front, the product or quotient so far behind, and each shift moves the border by
one place. `PartialProduct` and `PartialQuotient` are the loop invariants: what the digits
taken so far are worth, times the multiplicand, plus the rest, is the product; the quotient so
far times the divisor, plus the rest in the upper half, is the dividend without the digits
that have not come there yet. A digit that comes out too large
(`DigitTooLarge`) keeps a division with a quotient that does not fit on a path of its own to the
overflow. `Iterating` says this at every position of the two operations, `DigitShiftedOff`
and `DigitShiftedIn` move the border. Beyond a divisor of `HighBase` the rest would push a
digit off the accumulator, which is where finding 3 begins. For lookup, `Finding` ties the three
places the search is kept in, the address register, the band and the drum's
index, to one number: the words passed since the start of the first band. It is
0 until the drum comes round to the start of a band, then goes up by one with each word, the skipped
ones at the end of a band included, and none of the words it has passed match (`PassedBy`);
that the address stays within the band under the heads is `LookingUp` of the duration
proof. All four invariants were checked by TLC before they were proved.

For the card unit there is an inductive invariant for each side. Cards are numbered as they
are loaded, and `ReaderInv` says that the numbers fall from the first station back to the bottom of the
hopper, with everything that was transferred or is in the buffer before all that has not come to the
last station; so a card that comes to the last station is new, and `RequestsMatchCards` is
preserved although `read_start` runs up to three cards in and resumes a program that has not
asked. That no card is taken twice needs more: until cards are run out, the stations fill from
the last one back and the buffer is empty before the first card has come to it (`Supplied`), so
that a program that does not wait finds a new card or none. `PunchInv` counts: without a pending
record all `written` records are punched, with one all but the last, which is in the
buffer; an empty punching station behind a running feed needs a gap, and gaps come
only from the misuses CardPunch names. Both are preserved by helpers (`advance`,
`advance_read_cards`, `punch_and_advance`), about each of which there is a lemma, and the
actions compose them. The two display theorems need only the types of `IInv` and the lemma
`AddressKinds`: drum addresses, special addresses and the rest are what `display`, the light and
the drum each take them for, though each is written with its own bounds.

For power, `PowerInv` is inductive. `PhaseFacts` reads the phase off a state that satisfies
it, `ClockPhases` shows that a step of any length is a stutter, the end of the warm-up or the
end of the blower's run, `KeyPhases` and `PowerOnPhases` do the same for the keys, and
`PowerStepSimulation` puts them together, `PowerOffAgain` being the one key that has no step in
PowerSequence. The jump must be shorter than the delay: with
a longer one DC power would come on with main power.

For the registers, a loop of the code is a recursive function of the position, which the
definition of Registers only names. `LoopExists` proves that the function is there, by
induction over the positions with the least-number principle, and so its values can be
used. The loops of `add` (sum and difference) and of `++` pass a carry of 0 or 1 from
digit to digit and differ in what they start from and when they carry: `CarryingAdds` proves once that
such a loop spells the sum less the carry that leaves it, and `PlusAdds`, `SubSubtracts` and
`IncrementAdds` are its three uses. `Spelt` is the number that digits spell; `JoinedSpelt` and
`MovedSpelt` say what joining the halves and moving every digit by one place make of it. Two
pairs of halves that spell the same double-length number are the same (`PairUnique`, `SumUnique`),
which turns equations between numbers into the equality of the words, carry included.
`SpeltOrders` makes the first digit that differs decide between two numbers, `CodesOrdered`
carries that from digits to the characters that `less` compares. `NumberCodes` goes through the 7 bits of
`is_number`. The inductive invariant is `DigitTypes`: each register is a sequence of digit codes of
its length that ends in a sign. That is not obvious, because the joined accumulator starts as a *blank*
register, and each `load` and `shift` copies a range: the proof shows that the ranges
cover every digit and leave the sign alone.

**Only model-checked.** Liveness (`HalfCyclesEnd`, `EndOfFileDrains`, `DcComesOn`), which is out of
the provers' reach, as is `ENABLED`. `DurationBounded` is the safety half of `HalfCyclesEnd` for all
operations but multiplication. Every safety invariant and action property of the passing
runs is a theorem.

## Findings

1. `Multiply` ends only after an addition (`321-342`). A multiplier that ends in 0 makes it
   shift past its ten places, and a multiplication of an accumulator of zeros never ends
   (run `multiply`).
2. No key clears `m_error_stop`, only a later branch on a digit that is 8 or 9, though a program
   reset is documented to reset errors (run `error_stop`).
3. `Divide` compares the digit shifted off the dividend with a code (`372`), so that any
   such digit other than 0 ends the subtraction: quotients by divisors with a digit in front
   may be wrong (run `divide`).
4. The end-of-file key advances the feed though no program has asked for a card
   (`input_output_unit.cpp:162`): a card that is in the buffer and not yet taken is
   stacked and overwritten (run `end_of_file`).
5. Shift and round by one place does not round (`computer.cpp:465`): the count starts at 9 and
   is 10 when it is tested (run `round`).
6. Every press of "power on" jumps 175 seconds (`app.cpp:220`), so that two presses bring DC
   power at once, where the comment speaks of 5 seconds to wait (run `warm_up`).

Met while reading, and not the subject of a run of its own:

* Running cards out with the read-start key resumes the program
  (`input_output_unit.cpp:120`), which "remains paused" by `input_output.org:63-66`: it takes
  cards that were not meant for it, and when the feed is empty the last one again.
  `CardTransferredOnce` names this exception.
* `power_off` on a machine that is off restarts the clock (`computer.cpp:653`) and so starts
  the blower, which `computer.hpp:63-64` describes as "turned on when main power applied".
  `ImplementsPowerSequence` names this exception, `PowerOffAgain`.
* A load from an address with no word fails an assertion (`1090`) instead of reporting "a
  problem with an address" (`computer.hpp:187`); so do blank addresses and operation
  codes without steps. The runs reach all of them as the end of the process (`pc = "aborted"`).
* A product takes the sign of the distributor only. `less` skips the highest digit (`register.hpp:371`). Each addition overwrites the
  overflow light (`275`). "Programmed" on "run" and "address stop" have no effect (`852`).
* `punch` dereferences the card at the punching station without asking whether there is one
  (`input_output_unit.cpp:242`); the three ways to get there are in CardPunch.
* The punch-idle light (`input_output_unit.hpp:29-31`) should turn on "when the hopper is
  emptied"; replacing the deck by an empty one leaves it off. With a pending record,
  `punch_start` stacks a card though the feed is full, where a test
  (`test_input_output.cpp:515`) says it does nothing.
* `sign()` of a blank register is '?' and of the digit 0 is '_' (`register.hpp:270-274`), the
  other way round than its comment suggests; "bin(3) returns 'B'" (`register.hpp:23`) is
  true of 6.

## Not modelled

* The widgets of the graphical console. Its callbacks are calls of modelled operations, one
  at a time on one thread; those of the power panel and the timer are in Power.
* Registers that were never reset: a new computer's accumulator is blank, and `add` then
  looks up codes past the end of its table, which is undefined. The specifications
  start where the reset keys leave the machine. Cards with blank or double columns, which
  the punch cannot make, for the same reason.
* `m_programmed_mode`, `m_error_mode`, `m_error_sense`, `m_clocking_error` and the two lights that
  show the last two: only a test sets them.
* The `set_*` members only tests use, logging, stream output, the tests. `doctest.h` is third-party
  code and is 5971 of the implementation's lines; leaving it aside, most of
  `computer.cpp`, `register.hpp`, `register.cpp` and `input_output_unit.cpp` is modelled, and
  what remains of them are accessors, includes, logging and declarations.

## Plan

1. Done: words, accumulator, operations, drum, control unit, console; InstructionSet and
   the refinement; the inductive invariant and the first theorems.
2. Done: ArithmeticResults; Registers, Cards and DigitAccumulator; Power with its
   refinement, proved; the card unit; Display.
3. Done: theorems about the card unit for any number of cards and records, about the
   display, and about the duration of half-cycles.
4. Done: the refinement from the control unit to InstructionSet.
5. Done: what rounding, multiplication, division and lookup leave.
6. Done: the loops of Registers for every length of word, by induction over the digits with
   the least-number principle, as for `Weight`.
7. Open: the control unit counts in numbers and DigitAccumulator in digits, and the theorems that
   they agree are about the same calls, not yet about one machine: an instance of the
   control unit on bi-quinary registers would join them.
