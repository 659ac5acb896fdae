SPECIFICATION HSpec
CONSTANTS
    AddressBase = 10
    WordSize = 4
    BandSize = 3
    NBands = 2
    StorageEntryAddress = 6
    Blank = Blank
    RunTimeModulus = 2
    InitialDrums <- MCDrums
    InitialWords <- MCWords
    StorageEntries <- MCEntries
    AddressEntries <- MCAddressEntries
    ControlPositions = {"run"}
    CyclePositions = {"run"}
    DisplayPositions = {"distributor"}
    OverflowPositions = {"sense"}
\* A failed assertion ends the process.
CHECK_DEADLOCK FALSE
PROPERTIES
    ProductExact
    QuotientExact
    RoundsToNearest
    LookupFindsFirst
