\* Menus are left after the CPU has parked.
CONSTANTS
    Patient = TRUE
SPECIFICATION FairSpec
INVARIANTS HandshakeInv SnapshotStable PolygonsStable TexturesStable PauseHolds
PROPERTIES FramesFlow SavestateCompletes CpuStops
CHECK_DEADLOCK FALSE
