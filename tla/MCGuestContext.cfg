CONSTANTS
    Threads = {t1, t2}
    Returns = {r1}
    Entry = 10
    Irq = 11
    Uninterrupt = 12
    RETURN_STACK_SIZE = 2
    MaxDepth = 3
    MaxCalls = 2
    MaxIrqs = 2
    MaxPushed = 3
    MaxFlushes = 1
    Empty = 0
SPECIFICATION Spec
INVARIANTS
    ReturnStackSound
    InterruptFrameLive
    HostFollowsGuest
SYMMETRY Sym
VIEW WithoutFreed
