SPECIFICATION Spec
CONSTANTS
    MaxTask = 2
    Wrap = 32
    Second = 10
    TimerPeriod = 2
    AuxPeriod = 3
    PcmPeriods <- MCPcmPeriods
    TimerWrap = 4
    Overshoot = 3
    MaxTime = 7
INVARIANT QueueSound
INVARIANT NextUpdateAhead
INVARIANT NoMatchSleptThrough
PROPERTY TimerKeepsTime
CHECK_DEADLOCK FALSE
