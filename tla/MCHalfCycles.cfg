SPECIFICATION HSpec
CONSTANTS
    AddressBase = 100
    WordSize = 6
    BandSize = 4
    NBands = 3
    StorageEntryAddress = 80
    Blank = Blank
    RunTimeModulus = 2
    InitialDrums <- MCDrums
    InitialWords <- MCWords
    StorageEntries <- MCEntries
    AddressEntries <- MCAddressEntries
    ControlPositions = {"run"}
    CyclePositions = {"half", "run"}
    DisplayPositions = {"distributor"}
    OverflowPositions = {"stop", "sense"}
\* A failed assertion ends the process.
CHECK_DEADLOCK FALSE
INVARIANTS
    TypeOK
    DurationBound
PROPERTIES
    SearchIsLast
    ImplementsInstructionSet
