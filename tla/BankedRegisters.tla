--------------------------- MODULE BankedRegisters ---------------------------
(***************************************************************************)
(* The register file a guest program sees: every processor mode has its    *)
(* own stack pointer and link register (one value here), the fast          *)
(* interrupt mode its own r8-r12 (one value here), every exception mode    *)
(* its own saved status register.  A status register is abstracted to the  *)
(* mode it selects.                                                        *)
(***************************************************************************)
EXTENDS Integers

CONSTANTS Value, Mode, UserModes

Privileged == Mode \ UserModes

VARIABLES mode, hi, sp, spsr

vars == <<mode, hi, sp, spsr>>

Bank(m) == IF m \in UserModes THEN "usr" ELSE m
HiBank(m) == IF m = "fiq" THEN "fiq" ELSE "usr"

Init ==
    /\ mode \in Mode
    /\ hi \in [{"usr", "fiq"} -> Value]
    /\ sp \in [{"usr"} \cup Privileged -> Value]
    /\ spsr \in [Privileged -> Mode]

WriteHi(b, v) == hi' = [hi EXCEPT ![b] = v] /\ UNCHANGED <<mode, sp, spsr>>

WriteSp(b, v) == sp' = [sp EXCEPT ![b] = v] /\ UNCHANGED <<mode, hi, spsr>>

WriteSpsr(m) ==
    /\ mode \in Privileged
    /\ spsr' = [spsr EXCEPT ![mode] = m]
    /\ UNCHANGED <<mode, hi, sp>>

\* A write of the mode bits.  What becomes of the status register of the
\* interrupt mode is left open when the other mode is a user mode.
SwitchMode(m) ==
    /\ mode' = m
    /\ \E s \in Mode :
           spsr' = IF {Bank(mode), Bank(m)} = {"usr", "irq"}
                     THEN [spsr EXCEPT !["irq"] = s] ELSE spsr
    /\ UNCHANGED <<hi, sp>>

TakeException(m) ==
    /\ m \in Privileged
    /\ mode' = m
    /\ spsr' = [spsr EXCEPT ![m] = mode]
    /\ UNCHANGED <<hi, sp>>

Next ==
    \/ \E v \in Value : WriteHi(HiBank(mode), v) \/ WriteSp(Bank(mode), v)
    \/ \E v \in Value : WriteHi("usr", v) \/ WriteSp("usr", v)
    \/ \E m \in Mode : WriteSpsr(m) \/ SwitchMode(m) \/ TakeException(m)

Spec == Init /\ [][Next]_vars

=============================================================================
