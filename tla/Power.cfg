SPECIFICATION FairPowerSpec
CONSTANTS
    DcOnDelay = 180
    BlowerOffDelay = 300
    Jump = 175
    TimerSeconds = {1, 7}
INVARIANT PowerAssertions
PROPERTIES
    ImplementsPowerSequence
    DcStaysOff
    DcComesOn
