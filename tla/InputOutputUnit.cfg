SPECIFICATION FairSpec
CONSTANTS
    NoCard = NoCard
    ReadDecks = {0, 2, 4}
    MaxReadCards = 4
    BlankCard = BlankCard
    PunchDecks = {0, 3}
    MaxPunchCards = 6
    MaxRecords = 3
\* A null pointer that is dereferenced ends the process.
CHECK_DEADLOCK FALSE
INVARIANTS
    ReaderTypeOK
    BufferHoldsLastCard
    RequestsMatchCards
    RecordsPunchedInOrder
    WaitsForStart
    PunchHasCard
PROPERTIES
    ReaderKeepsCards
    CardTransferredOnce
    EndOfFileDrains
