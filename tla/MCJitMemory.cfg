CONSTANTS
    ARM9 = ARM9
    ARM7 = ARM7
    Size <- MCSize
    BlockPages <- MCBlockPages
    SlotsPerPage = 1
    LivePerMmu = 2
    MmuPerFast = 2
    MainPages = 5
    VramPages = 1
    Code <- MCCode
SPECIFICATION Spec
INVARIANTS EntriesLive BlocksApart AllocationFits StoresSeen
