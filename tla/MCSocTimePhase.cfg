SPECIFICATION Spec
CONSTANTS
    MaxTask = 2
    Wrap = 32
    Second = 10
    TimerPeriod = 2
    AuxPeriod = 3
    PcmPeriods <- MCPcmPeriods
    TimerWrap = 4
    Overshoot = 3
    MaxTime = 8
PROPERTY ContinuesFromLastTick
CHECK_DEADLOCK FALSE
