\* Either CPU; two flags: the vertical blank and one more; handlers nest once.
CONSTANTS
    Irq = {"VBlank", "Other"}
    VBlank = "VBlank"
    Arm7s = {TRUE, FALSE}
    MaxDepth = 2
SPECIFICATION FairSpec
INVARIANTS DeliverableScheduled NeverSleepOnSetFlag
PROPERTIES WaitEndsWithFlag WakesUp WaitCompletes
