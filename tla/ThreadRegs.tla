----------------------------- MODULE ThreadRegs ------------------------------
(***************************************************************************)
(* The register file of one CPU (src/core/thread_regs.rs): the registers   *)
(* of the running mode in place, those of the other modes in per-mode      *)
(* stores that are exchanged when the mode bits of cpsr change.  Two       *)
(* switches, user to interrupt mode and back, take a shorter path that     *)
(* leaves r8-r12 and the saved status alone, so the user store of r8-r12   *)
(* and the store of the interrupt mode's status go stale.                  *)
(*                                                                         *)
(* r8-r12 are one value, sp and lr are one value, a status register is the *)
(* mode it selects.                                                        *)
(***************************************************************************)
EXTENDS Integers

CONSTANTS
    Value,
    OtherModes,     \* exception modes with a plain store: svc, abt, und
    WrittenStatus   \* statuses a guest writes to spsr (a bound)

UserModes == {"user", "system"}
Stored == {"irq"} \cup OtherModes
Mode == UserModes \cup {"fiq"} \cup Stored

ASSUME OtherModesAssumption ==
    /\ OtherModes \cap {"usr", "user", "system", "fiq", "irq"} = {}
    /\ WrittenStatus \subseteq Mode

VARIABLES
    mode,       \* the mode bits of cpsr
    regs,       \* hi: gp_regs[8..13], sp: sp and lr, spsr; the stores: user
                \* (UserRegs), fiq (FiqRegs) and other (OtherModeRegs)
    usrHi,      \* history: the last value written to the r8-r12 outside fiq
    irqStatus,  \* history: the interrupt mode's status as a guest expects it
    displaced   \* history: a switch between a user mode and another exception
                \* mode has put that mode's status in its place

vars == <<mode, regs, usrHi, irqStatus, displaced>>

Init ==
    /\ mode = "system" /\ irqStatus = "system" /\ displaced = FALSE
    /\ \E v \in Value :
           /\ usrHi = v
           /\ regs = [hi |-> v, sp |-> v, spsr |-> "system",
                      user |-> [hi |-> v, sp |-> v],
                      fiq |-> [hi |-> v, sp |-> v, spsr |-> "system"],
                      other |-> [m \in Stored |-> [sp |-> v, spsr |-> "system"]]]

-----------------------------------------------------------------------------
(* Mode switches, as functions of the register file r.                     *)

\* The old mode's half of thread_set_cpsr_mode_slow.
SaveMode(r, m) ==
    CASE m \in UserModes -> [r EXCEPT !.user = [hi |-> r.hi, sp |-> r.sp]]
      [] m = "fiq" -> [r EXCEPT !.fiq = [hi |-> r.hi, sp |-> r.sp, spsr |-> r.spsr]]
      [] m \in Stored ->
            [r EXCEPT !.user.hi = r.hi, !.other[m] = [sp |-> r.sp, spsr |-> r.spsr]]

\* Mutant of LoadMode: r8-r12 are exchanged on the way into fiq mode only.
LoadModeKeepsHi(r, m) ==
    CASE m \in UserModes -> [r EXCEPT !.sp = r.user.sp]
      [] m = "fiq" -> [r EXCEPT !.hi = r.fiq.hi, !.sp = r.fiq.sp, !.spsr = r.fiq.spsr]
      [] m \in Stored ->
            [r EXCEPT !.sp = r.other[m].sp, !.spsr = r.other[m].spsr]

\* The new mode's half.  A user mode has no status register and leaves the
\* old value in view.
LoadMode(r, m) ==
    CASE m \in UserModes -> [r EXCEPT !.hi = r.user.hi, !.sp = r.user.sp]
      [] m = "fiq" -> [r EXCEPT !.hi = r.fiq.hi, !.sp = r.fiq.sp, !.spsr = r.fiq.spsr]
      [] m \in Stored ->
            [r EXCEPT !.hi = r.user.hi, !.sp = r.other[m].sp, !.spsr = r.other[m].spsr]

EnterIrqFast(r) == [r EXCEPT !.user.sp = r.sp, !.sp = r.other["irq"].sp]

\* Mutant of LeaveIrqFast: the next switch reads the store's old status.
LeaveIrqFastReloads(r) ==
    [r EXCEPT !.other["irq"].sp = r.sp, !.sp = r.user.sp, !.spsr = r.other["irq"].spsr]

LeaveIrqFast(r) == [r EXCEPT !.other["irq"].sp = r.sp, !.sp = r.user.sp]

Exchange(r, m) ==
    CASE mode = m -> r
      [] mode \in UserModes /\ m = "irq" -> EnterIrqFast(r)
      [] mode = "irq" /\ m \in UserModes -> LeaveIrqFast(r)
      [] OTHER -> LoadMode(SaveMode(r, mode), m)

\* thread_set_cpsr without the check for interrupts that ends it.
ThreadSetCpsr(m, save) ==
    /\ regs' = IF save THEN [Exchange(regs, m) EXCEPT !.spsr = mode] ELSE Exchange(regs, m)
    /\ mode' = m
    /\ irqStatus' = IF save /\ m = "irq" THEN mode ELSE irqStatus
    /\ displaced' = CASE m = "irq" /\ save -> FALSE
                      [] {mode, m} \cap UserModes # {} /\ {mode, m} \ (UserModes \cup {"irq"}) # {} -> TRUE
                      [] OTHER -> displaced
    /\ UNCHANGED usrHi

-----------------------------------------------------------------------------

\* An instruction writes a register of the running mode.
SetHi(v) ==
    /\ regs' = [regs EXCEPT !.hi = v]
    /\ usrHi' = IF mode = "fiq" THEN usrHi ELSE v
    /\ UNCHANGED <<mode, irqStatus, displaced>>

SetSp(v) ==
    /\ regs' = [regs EXCEPT !.sp = v]
    /\ UNCHANGED <<mode, usrHi, irqStatus, displaced>>

\* Mutant of UsrHi: r8-r12 always come from the user store.
UsrHiFromStore(r) == r.user.hi

\* A user-bank transfer (ldm/stm with ^) outside user mode: sp and lr live in
\* the user store; r8-r12 do so only in fiq mode.
UsrHi(r) == IF mode = "fiq" THEN r.user.hi ELSE r.hi

UsrSp(r) == IF mode \in UserModes THEN r.sp ELSE r.user.sp

SetUsrHi(v) ==
    /\ mode \notin UserModes
    /\ regs' = IF mode = "fiq" THEN [regs EXCEPT !.user.hi = v] ELSE [regs EXCEPT !.hi = v]
    /\ usrHi' = v
    /\ UNCHANGED <<mode, irqStatus, displaced>>

SetUsrSp(v) ==
    /\ mode \notin UserModes
    /\ regs' = [regs EXCEPT !.user.sp = v]
    /\ UNCHANGED <<mode, usrHi, irqStatus, displaced>>

\* msr cpsr: from user mode the mode bits are masked off.
ThreadSetCpsrWithFlags(m) == ThreadSetCpsr(IF mode = "user" THEN mode ELSE m, FALSE)

\* msr spsr
ThreadSetSpsrWithFlags(m) ==
    /\ mode \notin UserModes
    /\ regs' = [regs EXCEPT !.spsr = m]
    /\ irqStatus' = IF mode = "irq" THEN m ELSE irqStatus
    /\ displaced' = (displaced /\ mode # "irq")
    /\ UNCHANGED <<mode, usrHi>>

\* Return from an exception.
ThreadRestoreSpsr ==
    /\ mode \notin UserModes
    /\ ThreadSetCpsr(regs.spsr, FALSE)

\* An interrupt or another exception vector.
TakeException(m) == ThreadSetCpsr(m, TRUE)

Next ==
    \/ \E v \in Value : SetHi(v) \/ SetSp(v) \/ SetUsrHi(v) \/ SetUsrSp(v)
    \/ \E m \in Mode : ThreadSetCpsrWithFlags(m)
    \/ \E m \in WrittenStatus : ThreadSetSpsrWithFlags(m)
    \/ \E m \in Stored : TakeException(m)
    \/ ThreadRestoreSpsr

Spec == Init /\ [][Next]_vars

-----------------------------------------------------------------------------
(* Properties                                                              *)

RegisterFile ==
    [hi : Value, sp : Value, spsr : Mode,
     user : [hi : Value, sp : Value],
     fiq : [hi : Value, sp : Value, spsr : Mode],
     other : [Stored -> [sp : Value, spsr : Mode]]]

\* The stores hold register values, statuses select modes.
TypeOK ==
    /\ mode \in Mode /\ irqStatus \in Mode
    /\ usrHi \in Value /\ displaced \in BOOLEAN
    /\ regs \in RegisterFile

\* The registers as the guest sees them: the running mode's in place, the
\* others' in their stores.
ArchHi == [b \in {"usr", "fiq"} |->
             IF b = "fiq" THEN IF mode = "fiq" THEN regs.hi ELSE regs.fiq.hi
             ELSE IF mode = "fiq" THEN regs.user.hi ELSE regs.hi]
ArchSp == [b \in {"usr", "fiq"} \cup Stored |->
             CASE b = "usr" -> UsrSp(regs)
               [] b = mode -> regs.sp
               [] b = "fiq" /\ mode # "fiq" -> regs.fiq.sp
               [] OTHER -> regs.other[b].sp]
ArchSpsr == [b \in {"fiq"} \cup Stored |->
             CASE b = mode -> regs.spsr
               [] b = "fiq" /\ mode # "fiq" -> regs.fiq.spsr
               [] OTHER -> regs.other[b].spsr]

Arch == INSTANCE BankedRegisters WITH hi <- ArchHi, sp <- ArchSp, spsr <- ArchSpsr

\* No switch of modes, short or long, changes a register of any mode as the
\* guest sees it, and no write reaches another mode's register.
ActsAsBanked == Arch!Spec

\* What a user-bank transfer reads is the user mode's register although the
\* user store of r8-r12 is stale after the short switch.
UserBankFresh == TypeOK /\ UsrHi(regs) = usrHi

\* A handler that leaves interrupt mode for a user mode and comes back, with
\* nested interrupts but no other exception mode in between, still returns
\* to the mode it interrupted.
IrqStatusKept == (mode = "irq" /\ ~displaced) => regs.spsr = irqStatus

=============================================================================
