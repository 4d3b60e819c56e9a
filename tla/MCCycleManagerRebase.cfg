SPECIFICATION Spec
CONSTANTS
    MaxCycle = 31
    Half = 7
    NumEvents = 5
    GridEvents <- MCGridEvents
    GridPeriod = 4
    TimerPeriods <- MCShortTimerPeriods
    FirstLinePeriod = 4
    VisiblePeriod = 3
    BlankPeriod = 2
    ImmEvents <- MCImmEvents
    MaxSlice = 3
INVARIANTS EventsInReach
