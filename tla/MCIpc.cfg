\* Two entries per fifo: empty, one message, full.  SoundHle does everything
\* Lle does.
CONSTANTS
    IpcTypes = {"SoundHle", "Hle"}
    Capacity = 2
    Numbers = 3
    Writes <- ControlWrites
SPECIFICATION FairSpec
INVARIANTS StatusAgrees InOrder NoLostWakeup EmptySignalled
PROPERTY Arrives
