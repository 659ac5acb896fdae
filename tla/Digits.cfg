SPECIFICATION DigitSpec
CONSTANTS
    AddressBase = 10
    WordSize = 4
    BandSize = 3
    NBands = 2
    StorageEntryAddress = 6
    Blank = Blank
    Digits <- MCDigits
    StartAddresses <- MCStartAddresses
    MaxCalls = 2
\* The calls are bounded.
CHECK_DEADLOCK FALSE
INVARIANTS
    RegistersSpellNumbers
    LessOrdersLowDigits
    CardKeepsWords
PROPERTIES
    DigitsComputeNumbers
    AddressCountsUp
