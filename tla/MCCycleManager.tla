--------------------------- MODULE MCCycleManager ---------------------------
(***************************************************************************)
(* CycleManager on a short clock.                                          *)
(***************************************************************************)
EXTENDS CycleManager

MCGridEvents == {2, 3}
MCTimerPeriods == {2, 5}
MCShortTimerPeriods == {1, 5}
MCImmEvents == {0}

=============================================================================
