\* How many frames a savestate from the menu lets the CPU run.
CONSTANTS
    Patient = TRUE
SPECIFICATION Spec
INVARIANT OneFrame
CHECK_DEADLOCK FALSE
