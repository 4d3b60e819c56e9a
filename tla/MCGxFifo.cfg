\* A fifo full at five words, fed by chunks of two.
CONSTANTS
    Params <- MCParams
    Nop = "nop"
    Swap = "swap"
    Tests = {"test"}
    Headers <- MCHeaders
    Ports = {"push", "vtx"}
    Half = 3
    Full = 5
    Chunk = 2
    Burst = 2
    Counts = {1, 3}
    Budgets = {0, 1, 2}
SPECIFICATION FairSpec
INVARIANTS CommandsIntact GxInv TestStatusFresh
PROPERTIES Resumes DmaCompletes
