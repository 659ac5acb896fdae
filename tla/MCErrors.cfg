SPECIFICATION ConsoleSpec
CONSTANTS
    AddressBase = 100
    WordSize = 6
    BandSize = 2
    NBands = 2
    StorageEntryAddress = 80
    LastDrumAddress = 3
    Blank = Blank
    RunTimeModulus = 2
    InitialDrums <- ConsoleDrums
    InitialWords <- ConsoleWords
    StorageEntries <- ConsoleEntries
    AddressEntries <- ConsoleAddresses
    ControlPositions = {"run", "manual"}
    CyclePositions = {"half", "run"}
    DisplayPositions = {"read_in_storage", "read_out_storage"}
    OverflowPositions = {"sense"}
\* A failed assertion ends the process.
CHECK_DEADLOCK FALSE
PROPERTY ProgramResetClearsErrors
