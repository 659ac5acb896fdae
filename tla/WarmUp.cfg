SPECIFICATION PowerSpec
CONSTANTS
    DcOnDelay = 180
    BlowerOffDelay = 300
    Jump = 175
    TimerSeconds = {1, 7}
PROPERTY WarmUpEndsByTimer
