SPECIFICATION FairSpec
CONSTANTS
    AddressBase = 100
    WordSize = 6
    BandSize = 4
    NBands = 3
    StorageEntryAddress = 80
    Blank = Blank
    RunTimeModulus = 2
    AddressEntries <- MCAddressEntries
    ControlPositions = {"run"}
    CyclePositions = {"half", "run"}
    DisplayPositions = {"distributor"}
    OverflowPositions = {"stop", "sense"}
    InitialDrums <- LiveDrums
    InitialWords <- LiveWords
    StorageEntries <- MultiplyEntries
CHECK_DEADLOCK FALSE
PROPERTY MultiplyEnds
