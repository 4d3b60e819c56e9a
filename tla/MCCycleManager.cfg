SPECIFICATION FairSpec
CONSTANTS
    MaxCycle = 17
    Half = 7
    NumEvents = 5
    GridEvents <- MCGridEvents
    GridPeriod = 4
    TimerPeriods <- MCTimerPeriods
    FirstLinePeriod = 4
    VisiblePeriod = 3
    BlankPeriod = 2
    ImmEvents <- MCImmEvents
    MaxSlice = 2
INVARIANTS
    NextCoversActive DispatchWithinSlice OneScanlineEvent GridAligned StampNotAhead
PROPERTIES ScanlinesKeepComing
