SPECIFICATION HSpec
CONSTANTS
    AddressBase = 10
    WordSize = 4
    BandSize = 3
    NBands = 2
    StorageEntryAddress = 6
    Blank = Blank
    RunTimeModulus = 2
    InitialDrums <- DivideDrums
    InitialWords <- MCWords
    StorageEntries <- DivideEntries
    AddressEntries <- MCAddressEntries
    ControlPositions = {"run"}
    CyclePositions = {"run"}
    DisplayPositions = {"distributor"}
    OverflowPositions = {"sense"}
\* A failed assertion ends the process.
CHECK_DEADLOCK FALSE
PROPERTY QuotientAlwaysExact
