-------------------------- MODULE ThreadRegsProofs --------------------------
(***************************************************************************)
(* Proofs about the register file: what is exchanged on a switch of modes, *)
(* that no register of the user mode or of the interrupt mode's status is  *)
(* lost to the short switches, and that the file implements the banked     *)
(* registers of the architecture.                                          *)
(***************************************************************************)
EXTENDS ThreadRegs, TLAPS

\* The registers of a bank in the file r while mode m runs: the mappings of
\* the refinement, with the file and the mode as parameters.
HiOf(r, m, bank) ==
    IF bank = "fiq" THEN IF m = "fiq" THEN r.hi ELSE r.fiq.hi
    ELSE IF m = "fiq" THEN r.user.hi ELSE r.hi
SpOf(r, m, bank) ==
    CASE bank = "usr" -> IF m \in UserModes THEN r.sp ELSE r.user.sp
      [] bank = m -> r.sp
      [] bank = "fiq" /\ m # "fiq" -> r.fiq.sp
      [] OTHER -> r.other[bank].sp
SpsrOf(r, m, bank) ==
    CASE bank = m -> r.spsr
      [] bank = "fiq" /\ m # "fiq" -> r.fiq.spsr
      [] OTHER -> r.other[bank].spsr

\* The registers of each bank, without the order of the cases.
LEMMA Banks ==
    ASSUME NEW r, NEW m \in Mode
    PROVE  /\ HiOf(r, m, "fiq") = IF m = "fiq" THEN r.hi ELSE r.fiq.hi
           /\ HiOf(r, m, "usr") = IF m = "fiq" THEN r.user.hi ELSE r.hi
           /\ SpOf(r, m, "usr") = IF m \in UserModes THEN r.sp ELSE r.user.sp
           /\ SpOf(r, m, "fiq") = IF m = "fiq" THEN r.sp ELSE r.fiq.sp
           /\ SpsrOf(r, m, "fiq") = IF m = "fiq" THEN r.spsr ELSE r.fiq.spsr
           /\ \A s \in Stored :
                  /\ SpOf(r, m, s) = IF m = s THEN r.sp ELSE r.other[s].sp
                  /\ SpsrOf(r, m, s) = IF m = s THEN r.spsr ELSE r.other[s].spsr
<1>1. "usr" \notin Mode /\ "fiq" \notin Stored /\ "usr" \notin Stored
  BY OtherModesAssumption DEF Mode, UserModes, Stored
<1>2. HiOf(r, m, "fiq") = (IF m = "fiq" THEN r.hi ELSE r.fiq.hi) /\
      HiOf(r, m, "usr") = (IF m = "fiq" THEN r.user.hi ELSE r.hi)
  BY DEF HiOf
<1>3. SpOf(r, m, "usr") = IF m \in UserModes THEN r.sp ELSE r.user.sp
  BY <1>1 DEF SpOf
<1>4. SpOf(r, m, "fiq") = IF m = "fiq" THEN r.sp ELSE r.fiq.sp
  BY <1>1 DEF SpOf
<1>5. SpsrOf(r, m, "fiq") = IF m = "fiq" THEN r.spsr ELSE r.fiq.spsr
  BY <1>1 DEF SpsrOf
<1>6. ASSUME NEW s \in Stored
      PROVE  /\ SpOf(r, m, s) = IF m = s THEN r.sp ELSE r.other[s].sp
             /\ SpsrOf(r, m, s) = IF m = s THEN r.spsr ELSE r.other[s].spsr
  BY <1>1 DEF SpOf, SpsrOf
<1>7. QED  BY <1>2, <1>3, <1>4, <1>5, <1>6

-----------------------------------------------------------------------------
(* The two halves of a switch.                                             *)

\* Saving a user mode's registers (thread_set_cpsr_mode_slow).
LEMMA SaveUser ==
    ASSUME NEW r \in RegisterFile, NEW m \in UserModes
    PROVE  /\ SaveMode(r, m) = [hi |-> r.hi, sp |-> r.sp, spsr |-> r.spsr,
                                user |-> [hi |-> r.hi, sp |-> r.sp],
                                fiq |-> r.fiq, other |-> r.other]
           /\ SaveMode(r, m) \in RegisterFile
<1>1. SaveMode(r, m) = [r EXCEPT !.user = [hi |-> r.hi, sp |-> r.sp]]
  BY OtherModesAssumption DEF SaveMode, UserModes, Stored
<1>2. QED  BY <1>1 DEF RegisterFile

LEMMA SaveFiq ==
    ASSUME NEW r \in RegisterFile
    PROVE  /\ SaveMode(r, "fiq") =
                  [hi |-> r.hi, sp |-> r.sp, spsr |-> r.spsr, user |-> r.user,
                   fiq |-> [hi |-> r.hi, sp |-> r.sp, spsr |-> r.spsr],
                   other |-> r.other]
           /\ SaveMode(r, "fiq") \in RegisterFile
<1>1. SaveMode(r, "fiq") = [r EXCEPT !.fiq = [hi |-> r.hi, sp |-> r.sp, spsr |-> r.spsr]]
  BY OtherModesAssumption DEF SaveMode, UserModes, Stored
<1>2. QED  BY <1>1 DEF RegisterFile

LEMMA SaveStored ==
    ASSUME NEW r \in RegisterFile, NEW m \in Stored
    PROVE  /\ SaveMode(r, m) =
                  [hi |-> r.hi, sp |-> r.sp, spsr |-> r.spsr,
                   user |-> [hi |-> r.hi, sp |-> r.user.sp], fiq |-> r.fiq,
                   other |-> [r.other EXCEPT ![m] = [sp |-> r.sp, spsr |-> r.spsr]]]
           /\ SaveMode(r, m) \in RegisterFile
<1>1. SaveMode(r, m) = [r EXCEPT !.user.hi = r.hi,
                                 !.other[m] = [sp |-> r.sp, spsr |-> r.spsr]]
  BY OtherModesAssumption DEF SaveMode, UserModes, Stored
<1>2. [r.user EXCEPT !.hi = r.hi] = [hi |-> r.hi, sp |-> r.user.sp]
  BY DEF RegisterFile
<1>3. [r.other EXCEPT ![m] = [sp |-> r.sp, spsr |-> r.spsr]] \in [Stored -> [sp : Value, spsr : Mode]]
  BY DEF RegisterFile
<1>4. QED  BY <1>1, <1>2, <1>3 DEF RegisterFile

\* Loading a mode's registers.
LEMMA LoadUser ==
    ASSUME NEW r \in RegisterFile, NEW m \in UserModes
    PROVE  /\ LoadMode(r, m) = [hi |-> r.user.hi, sp |-> r.user.sp, spsr |-> r.spsr,
                                user |-> r.user, fiq |-> r.fiq, other |-> r.other]
           /\ LoadMode(r, m) \in RegisterFile
<1>1. LoadMode(r, m) = [r EXCEPT !.hi = r.user.hi, !.sp = r.user.sp]
  BY OtherModesAssumption DEF LoadMode, UserModes, Stored
<1>2. QED  BY <1>1 DEF RegisterFile

LEMMA LoadFiq ==
    ASSUME NEW r \in RegisterFile
    PROVE  /\ LoadMode(r, "fiq") =
                  [hi |-> r.fiq.hi, sp |-> r.fiq.sp, spsr |-> r.fiq.spsr,
                   user |-> r.user, fiq |-> r.fiq, other |-> r.other]
           /\ LoadMode(r, "fiq") \in RegisterFile
<1>1. LoadMode(r, "fiq") = [r EXCEPT !.hi = r.fiq.hi, !.sp = r.fiq.sp, !.spsr = r.fiq.spsr]
  BY OtherModesAssumption DEF LoadMode, UserModes, Stored
<1>2. QED  BY <1>1 DEF RegisterFile

LEMMA LoadStored ==
    ASSUME NEW r \in RegisterFile, NEW m \in Stored
    PROVE  /\ LoadMode(r, m) =
                  [hi |-> r.user.hi, sp |-> r.other[m].sp, spsr |-> r.other[m].spsr,
                   user |-> r.user, fiq |-> r.fiq, other |-> r.other]
           /\ LoadMode(r, m) \in RegisterFile
<1>1. LoadMode(r, m) = [r EXCEPT !.hi = r.user.hi, !.sp = r.other[m].sp,
                                 !.spsr = r.other[m].spsr]
  BY OtherModesAssumption DEF LoadMode, UserModes, Stored
<1>2. QED  BY <1>1 DEF RegisterFile

-----------------------------------------------------------------------------
(* A switch, short or long.                                                *)

\* Switches(r, e, m): e is a register file that holds, with m running, what r
\* holds with the present mode running, but for the interrupt mode's status
\* when the short switches leave it in place.
Switches(r, e, m) ==
    /\ e \in RegisterFile
    /\ \A bank \in {"usr", "fiq"} : HiOf(e, m, bank) = HiOf(r, mode, bank)
    /\ \A bank \in {"usr", "fiq"} \cup Stored : SpOf(e, m, bank) = SpOf(r, mode, bank)
    /\ \A bank \in {"fiq"} \cup Stored :
           \/ SpsrOf(e, m, bank) = SpsrOf(r, mode, bank)
           \/ bank = "irq" /\ ((mode \in UserModes /\ m = "irq") \/ (mode = "irq" /\ m \in UserModes))

\* Bank by bank is enough.
LEMMA SwitchesByBank ==
    ASSUME NEW r, NEW e \in RegisterFile, NEW m \in Mode, mode \in Mode,
           (IF m = "fiq" THEN e.hi ELSE e.fiq.hi) = (IF mode = "fiq" THEN r.hi ELSE r.fiq.hi),
           (IF m = "fiq" THEN e.user.hi ELSE e.hi) = (IF mode = "fiq" THEN r.user.hi ELSE r.hi),
           (IF m \in UserModes THEN e.sp ELSE e.user.sp)
               = (IF mode \in UserModes THEN r.sp ELSE r.user.sp),
           (IF m = "fiq" THEN e.sp ELSE e.fiq.sp) = (IF mode = "fiq" THEN r.sp ELSE r.fiq.sp),
           (IF m = "fiq" THEN e.spsr ELSE e.fiq.spsr)
               = (IF mode = "fiq" THEN r.spsr ELSE r.fiq.spsr),
           \A s \in Stored :
               /\ (IF m = s THEN e.sp ELSE e.other[s].sp)
                      = (IF mode = s THEN r.sp ELSE r.other[s].sp)
               /\ \/ (IF m = s THEN e.spsr ELSE e.other[s].spsr)
                         = (IF mode = s THEN r.spsr ELSE r.other[s].spsr)
                  \/ /\ s = "irq"
                     /\ (mode \in UserModes /\ m = "irq") \/ (mode = "irq" /\ m \in UserModes)
    PROVE  Switches(r, e, m)
<1> DEFINE B(x, k) ==
           /\ HiOf(x, k, "fiq") = IF k = "fiq" THEN x.hi ELSE x.fiq.hi
           /\ HiOf(x, k, "usr") = IF k = "fiq" THEN x.user.hi ELSE x.hi
           /\ SpOf(x, k, "usr") = IF k \in UserModes THEN x.sp ELSE x.user.sp
           /\ SpOf(x, k, "fiq") = IF k = "fiq" THEN x.sp ELSE x.fiq.sp
           /\ SpsrOf(x, k, "fiq") = IF k = "fiq" THEN x.spsr ELSE x.fiq.spsr
           /\ \A s \in Stored :
                  /\ SpOf(x, k, s) = IF k = s THEN x.sp ELSE x.other[s].sp
                  /\ SpsrOf(x, k, s) = IF k = s THEN x.spsr ELSE x.other[s].spsr
<1>1. B(e, m)  BY Banks
<1>2. B(r, mode)  BY Banks
<1>3. \A bank \in {"usr", "fiq"} : HiOf(e, m, bank) = HiOf(r, mode, bank)
  BY <1>1, <1>2
<1>4. \A bank \in {"usr", "fiq"} \cup Stored : SpOf(e, m, bank) = SpOf(r, mode, bank)
  BY <1>1, <1>2
<1>5. \A bank \in {"fiq"} \cup Stored :
           \/ SpsrOf(e, m, bank) = SpsrOf(r, mode, bank)
           \/ bank = "irq" /\ ((mode \in UserModes /\ m = "irq") \/ (mode = "irq" /\ m \in UserModes))
  BY <1>1, <1>2
<1>6. QED  BY <1>3, <1>4, <1>5 DEF Switches

\* The short switch into interrupt mode keeps every register but the status.
LEMMA EnterIrqSwitches ==
    ASSUME NEW r \in RegisterFile, mode \in UserModes
    PROVE  /\ Switches(r, EnterIrqFast(r), "irq")
           /\ EnterIrqFast(r).spsr = r.spsr
<1>1. EnterIrqFast(r) = [hi |-> r.hi, sp |-> r.other["irq"].sp, spsr |-> r.spsr,
                         user |-> [hi |-> r.user.hi, sp |-> r.sp],
                         fiq |-> r.fiq, other |-> r.other]
  <2>1. [r.user EXCEPT !.sp = r.sp] = [hi |-> r.user.hi, sp |-> r.sp]
    BY DEF RegisterFile
  <2>2. EnterIrqFast(r) = [r EXCEPT !.user = [hi |-> r.user.hi, sp |-> r.sp],
                                    !.sp = r.other["irq"].sp]
    BY <2>1 DEF EnterIrqFast, RegisterFile
  <2>3. QED  BY <2>2 DEF RegisterFile
<1>2. EnterIrqFast(r) \in RegisterFile
  BY <1>1 DEF RegisterFile, Stored
<1>3. "irq" \in Mode /\ mode \in Mode /\ mode \notin Stored \cup {"fiq"} /\ "irq" \notin UserModes
  BY OtherModesAssumption DEF Mode, UserModes, Stored
<1> DEFINE e == EnterIrqFast(r)
<1>4. /\ e.hi = r.hi /\ e.sp = r.other["irq"].sp /\ e.spsr = r.spsr
      /\ e.user.sp = r.sp /\ e.fiq = r.fiq /\ e.other = r.other
  BY <1>1
<1>5. e \in RegisterFile  BY <1>2
<1> HIDE DEF e
<1>6. \A s \in Stored :
          /\ (IF "irq" = s THEN e.sp ELSE e.other[s].sp)
                 = (IF mode = s THEN r.sp ELSE r.other[s].sp)
          /\ \/ (IF "irq" = s THEN e.spsr ELSE e.other[s].spsr)
                    = (IF mode = s THEN r.spsr ELSE r.other[s].spsr)
             \/ s = "irq"
  BY <1>3, <1>4
<1>7. ASSUME NEW m \in Mode, m = "irq" PROVE Switches(r, e, m)
  BY <1>3, <1>4, <1>5, <1>6, <1>7, SwitchesByBank
<1>8. QED  BY <1>3, <1>4, <1>7 DEF e

LEMMA LeaveIrqSwitches ==
    ASSUME NEW r \in RegisterFile, mode = "irq", NEW m \in UserModes
    PROVE  /\ Switches(r, LeaveIrqFast(r), m)
           /\ LeaveIrqFast(r).spsr = r.spsr
<1> DEFINE st == [r.other EXCEPT !["irq"] = [sp |-> r.sp, spsr |-> r.other["irq"].spsr]]
<1>1. LeaveIrqFast(r) = [hi |-> r.hi, sp |-> r.user.sp, spsr |-> r.spsr,
                         user |-> r.user, fiq |-> r.fiq, other |-> st]
  <2>1. [r.other EXCEPT !["irq"].sp = r.sp] = st
    BY DEF RegisterFile, Stored
  <2>2. LeaveIrqFast(r) = [r EXCEPT !.other = st, !.sp = r.user.sp]
    BY <2>1 DEF LeaveIrqFast, RegisterFile
  <2>3. QED  BY <2>2 DEF RegisterFile
<1>2. st \in [Stored -> [sp : Value, spsr : Mode]]
  BY DEF RegisterFile, Stored
<1>3. LeaveIrqFast(r) \in RegisterFile
  BY <1>1, <1>2 DEF RegisterFile
<1>4. st["irq"].sp = r.sp /\ \A bank \in OtherModes : st[bank] = r.other[bank]
  BY OtherModesAssumption DEF RegisterFile, Stored
<1> HIDE DEF st
<1>5. mode \in Mode /\ m \in Mode /\ m \notin Stored \cup {"fiq"} /\ "irq" \notin UserModes
  BY OtherModesAssumption DEF Mode, UserModes, Stored
<1> DEFINE e == LeaveIrqFast(r)
<1>6. /\ e.hi = r.hi /\ e.sp = r.user.sp /\ e.spsr = r.spsr
      /\ e.user = r.user /\ e.fiq = r.fiq /\ e.other = st
  BY <1>1
<1>7. e \in RegisterFile  BY <1>3
<1> HIDE DEF e
<1>8. \A s \in Stored : s = "irq" \/ e.other[s] = r.other[s]
  BY <1>4, <1>6 DEF Stored
<1>9. Switches(r, e, m)
  BY <1>4, <1>5, <1>6, <1>7, <1>8, SwitchesByBank
<1>10. QED  BY <1>6, <1>9 DEF e

\* The long switch keeps every register of every mode.
LEMMA SlowSwitches ==
    ASSUME NEW r \in RegisterFile, mode \in Mode, NEW m \in Mode, mode # m
    PROVE  Switches(r, LoadMode(SaveMode(r, mode), m), m)
<1> DEFINE s1 == SaveMode(r, mode)
           e == LoadMode(s1, m)
<1>1. /\ mode \in UserModes \/ mode = "fiq" \/ mode \in Stored
      /\ m \in UserModes \/ m = "fiq" \/ m \in Stored
      /\ "fiq" \notin UserModes /\ "fiq" \notin Stored /\ UserModes \cap Stored = {}
  BY OtherModesAssumption DEF Mode, UserModes, Stored
<1>2. /\ s1 \in RegisterFile
      /\ s1.hi = r.hi /\ s1.sp = r.sp /\ s1.spsr = r.spsr
      /\ mode = "fiq" => s1.user = r.user
      /\ mode # "fiq" => s1.user.hi = r.hi /\ s1.fiq = r.fiq
      /\ mode = "fiq" => s1.fiq.hi = r.hi /\ s1.fiq.sp = r.sp /\ s1.fiq.spsr = r.spsr
      /\ s1.user.sp = IF mode \in UserModes THEN r.sp ELSE r.user.sp
      /\ \A s \in Stored :
             /\ s1.other[s].sp = IF s = mode THEN r.sp ELSE r.other[s].sp
             /\ s1.other[s].spsr = IF s = mode THEN r.spsr ELSE r.other[s].spsr
  <2>1. CASE mode \in UserModes
    <3>1. /\ s1 \in RegisterFile
          /\ s1 = [hi |-> r.hi, sp |-> r.sp, spsr |-> r.spsr, user |-> [hi |-> r.hi, sp |-> r.sp],
                   fiq |-> r.fiq, other |-> r.other]
      BY <2>1, SaveUser
    <3> HIDE DEF s1
    <3>2. QED  BY <1>1, <2>1, <3>1
  <2>2. CASE mode = "fiq"
    <3>1. /\ s1 \in RegisterFile
          /\ s1 = [hi |-> r.hi, sp |-> r.sp, spsr |-> r.spsr, user |-> r.user,
                   fiq |-> [hi |-> r.hi, sp |-> r.sp, spsr |-> r.spsr], other |-> r.other]
      BY <2>2, SaveFiq
    <3> HIDE DEF s1
    <3>2. QED  BY <1>1, <2>2, <3>1
  <2>3. CASE mode \in Stored
    <3> DEFINE st == [r.other EXCEPT ![mode] = [sp |-> r.sp, spsr |-> r.spsr]]
    <3>1. /\ s1 \in RegisterFile
          /\ s1 = [hi |-> r.hi, sp |-> r.sp, spsr |-> r.spsr, user |-> [hi |-> r.hi, sp |-> r.user.sp],
                   fiq |-> r.fiq, other |-> st]
      BY <2>3, SaveStored
    <3>2. \A s \in Stored :
             /\ st[s].sp = IF s = mode THEN r.sp ELSE r.other[s].sp
             /\ st[s].spsr = IF s = mode THEN r.spsr ELSE r.other[s].spsr
      BY <2>3 DEF RegisterFile
    <3> HIDE DEF s1, st
    <3>3. QED  BY <1>1, <2>3, <3>1, <3>2
  <2>4. QED  BY <1>1, <2>1, <2>2, <2>3
<1> HIDE DEF s1
<1>3. /\ e \in RegisterFile
      /\ e.user = s1.user /\ e.fiq = s1.fiq /\ e.other = s1.other
      /\ e.hi = IF m = "fiq" THEN s1.fiq.hi ELSE s1.user.hi
      /\ m \in UserModes => e.sp = s1.user.sp
      /\ m = "fiq" => e.sp = s1.fiq.sp /\ e.spsr = s1.fiq.spsr
      /\ m \in Stored => e.sp = s1.other[m].sp /\ e.spsr = s1.other[m].spsr
  <2>1. CASE m \in UserModes
    <3>1. /\ e \in RegisterFile
          /\ e = [hi |-> s1.user.hi, sp |-> s1.user.sp, spsr |-> s1.spsr,
                  user |-> s1.user, fiq |-> s1.fiq, other |-> s1.other]
      BY <1>2, <2>1, LoadUser
    <3> HIDE DEF e
    <3>2. QED  BY <1>1, <2>1, <3>1
  <2>2. CASE m = "fiq"
    <3>1. /\ e \in RegisterFile
          /\ e = [hi |-> s1.fiq.hi, sp |-> s1.fiq.sp, spsr |-> s1.fiq.spsr,
                  user |-> s1.user, fiq |-> s1.fiq, other |-> s1.other]
      BY <1>2, <2>2, LoadFiq
    <3> HIDE DEF e
    <3>2. QED  BY <1>1, <2>2, <3>1
  <2>3. CASE m \in Stored
    <3>1. /\ e \in RegisterFile
          /\ e = [hi |-> s1.user.hi, sp |-> s1.other[m].sp, spsr |-> s1.other[m].spsr,
                  user |-> s1.user, fiq |-> s1.fiq, other |-> s1.other]
      BY <1>2, <2>3, LoadStored
    <3> HIDE DEF e
    <3>2. QED  BY <1>1, <2>3, <3>1
  <2>4. QED  BY <1>1, <2>1, <2>2, <2>3
<1> HIDE DEF e
<1>4. Switches(r, e, m)
  BY <1>1, <1>2, <1>3, SwitchesByBank
<1>5. QED  BY <1>4 DEF e, s1

\* Every switch keeps what the guest sees of the registers.
LEMMA ExchangeSwitches ==
    ASSUME regs \in RegisterFile, mode \in Mode, NEW m \in Mode
    PROVE  Switches(regs, Exchange(regs, m), m)
<1>1. "irq" \notin UserModes /\ UserModes \subseteq Mode /\ "irq" \in Mode
  BY OtherModesAssumption DEF UserModes, Mode, Stored
<1>2. CASE mode = m
  <2>1. Exchange(regs, m) = regs
    BY <1>1, <1>2 DEF Exchange
  <2>2. QED  BY <1>2, <2>1 DEF Switches
<1>3. CASE mode \in UserModes /\ m = "irq"
  <2>1. Exchange(regs, m) = EnterIrqFast(regs)
    BY <1>1, <1>3 DEF Exchange
  <2>2. QED  BY <1>3, <2>1, EnterIrqSwitches
<1>4. CASE mode = "irq" /\ m \in UserModes
  <2>1. Exchange(regs, m) = LeaveIrqFast(regs)
    BY <1>1, <1>4 DEF Exchange
  <2>2. QED  BY <1>4, <2>1, LeaveIrqSwitches
<1>5. CASE /\ mode # m /\ ~(mode \in UserModes /\ m = "irq")
           /\ ~(mode = "irq" /\ m \in UserModes)
  <2>1. Exchange(regs, m) = LoadMode(SaveMode(regs, mode), m)
    BY <1>5 DEF Exchange
  <2>2. QED  BY <1>5, <2>1, SlowSwitches
<1>6. QED  BY <1>2, <1>3, <1>4, <1>5

\* Between user modes and the interrupt mode the status in view stays.
LEMMA ExchangeKeepsStatus ==
    ASSUME regs \in RegisterFile, NEW m \in UserModes \cup {"irq"},
           mode \in UserModes \cup {"irq"}
    PROVE  Exchange(regs, m).spsr = regs.spsr
<1>1. "irq" \notin UserModes
  BY DEF UserModes
<1>2. CASE mode = m
  BY <1>1, <1>2 DEF Exchange
<1>3. CASE mode \in UserModes /\ m = "irq"
  BY <1>1, <1>3, EnterIrqSwitches DEF Exchange
<1>4. CASE mode = "irq" /\ m \in UserModes
  BY <1>1, <1>4, LeaveIrqSwitches DEF Exchange
<1>5. CASE mode # m /\ mode \in UserModes /\ m \in UserModes
  <2>1. Exchange(regs, m) = LoadMode(SaveMode(regs, mode), m)
    BY <1>1, <1>5 DEF Exchange
  <2>2. SaveMode(regs, mode) \in RegisterFile /\ SaveMode(regs, mode).spsr = regs.spsr
    BY <1>5, SaveUser
  <2>3. \A r \in RegisterFile : LoadMode(r, m).spsr = r.spsr
    BY <1>5, LoadUser
  <2>4. QED  BY <2>1, <2>2, <2>3
<1>6. QED  BY <1>2, <1>3, <1>4, <1>5

\* The file after thread_set_cpsr.
Switched(m, save) == IF save THEN [Exchange(regs, m) EXCEPT !.spsr = mode] ELSE Exchange(regs, m)

LEMMA SwitchedFile ==
    ASSUME regs \in RegisterFile, mode \in Mode, NEW m \in Mode, NEW save \in BOOLEAN
    PROVE  LET e == Switched(m, save)
               x == Exchange(regs, m)
           IN  /\ e \in RegisterFile /\ x \in RegisterFile
               /\ e.hi = x.hi /\ e.sp = x.sp /\ e.user = x.user /\ e.fiq = x.fiq
               /\ e.other = x.other
               /\ e.spsr = IF save THEN mode ELSE x.spsr
<1> DEFINE x == Exchange(regs, m)
<1>1. x \in RegisterFile
  BY ExchangeSwitches DEF Switches
<1> HIDE DEF x
<1>2. [x EXCEPT !.spsr = mode] \in RegisterFile
  BY <1>1 DEF RegisterFile
<1>3. /\ [x EXCEPT !.spsr = mode].hi = x.hi /\ [x EXCEPT !.spsr = mode].sp = x.sp
      /\ [x EXCEPT !.spsr = mode].user = x.user /\ [x EXCEPT !.spsr = mode].fiq = x.fiq
      /\ [x EXCEPT !.spsr = mode].other = x.other
      /\ [x EXCEPT !.spsr = mode].spsr = mode
  BY <1>1 DEF RegisterFile
<1>4. Switched(m, save) = IF save THEN [x EXCEPT !.spsr = mode] ELSE x
  BY DEF x, Switched
<1>5. QED  BY <1>1, <1>2, <1>3, <1>4 DEF x

-----------------------------------------------------------------------------
(* Types and the registers seen by user-bank transfers.                    *)

LEMMA InitType == Init => TypeOK
<1> SUFFICES ASSUME Init PROVE TypeOK
  OBVIOUS
<1>1. "system" \in Mode
  BY DEF Mode, UserModes
<1>2. PICK v \in Value :
         /\ usrHi = v
         /\ regs = [hi |-> v, sp |-> v, spsr |-> "system", user |-> [hi |-> v, sp |-> v],
                    fiq |-> [hi |-> v, sp |-> v, spsr |-> "system"],
                    other |-> [m \in Stored |-> [sp |-> v, spsr |-> "system"]]]
  BY DEF Init
<1>3. regs \in RegisterFile
  BY <1>1, <1>2 DEF RegisterFile
<1>4. QED  BY <1>1, <1>2, <1>3 DEF Init, TypeOK

\* Statuses select modes: a return from an exception goes to a mode.
LEMMA TypeStep == ASSUME TypeOK, [Next]_vars PROVE TypeOK'
<1> USE DEF TypeOK
<1>1. ASSUME NEW v \in Value, SetHi(v) \/ SetSp(v) \/ SetUsrHi(v) \/ SetUsrSp(v)
      PROVE  TypeOK'
  BY <1>1 DEF SetHi, SetSp, SetUsrHi, SetUsrSp, RegisterFile
<1>2. ASSUME NEW m \in Mode, NEW save \in BOOLEAN, ThreadSetCpsr(m, save)
      PROVE  TypeOK'
  <2>1. regs' = Switched(m, save) /\ mode' = m /\ usrHi' = usrHi
    BY <1>2 DEF ThreadSetCpsr, Switched
  <2>2. irqStatus' \in Mode /\ displaced' \in BOOLEAN
    BY <1>2 DEF ThreadSetCpsr
  <2>3. QED  BY <2>1, <2>2, SwitchedFile
<1>3. ASSUME NEW m \in WrittenStatus, ThreadSetSpsrWithFlags(m) PROVE TypeOK'
  <2>1. m \in Mode  BY OtherModesAssumption
  <2>2. QED  BY <1>3, <2>1 DEF ThreadSetSpsrWithFlags, RegisterFile
<1>4. ASSUME NEW m \in Mode, ThreadSetCpsrWithFlags(m) PROVE TypeOK'
  BY <1>2, <1>4 DEF ThreadSetCpsrWithFlags
<1>5. ASSUME NEW m \in Stored, TakeException(m) PROVE TypeOK'
  BY <1>2, <1>5 DEF TakeException, Mode
<1>6. ASSUME ThreadRestoreSpsr PROVE TypeOK'
  BY <1>2, <1>6 DEF ThreadRestoreSpsr, RegisterFile
<1>7. ASSUME UNCHANGED vars PROVE TypeOK'
  BY <1>7 DEF vars
<1>8. QED  BY <1>1, <1>3, <1>4, <1>5, <1>6, <1>7 DEF Next

\* What thread_set_cpsr does, from any of its callers.
LEMMA ModeSwitch ==
    ASSUME TypeOK, NEW m \in Mode, NEW save \in BOOLEAN, save => m \in Stored,
           ThreadSetCpsr(m, save)
    PROVE  /\ mode' = m /\ usrHi' = usrHi
           /\ regs' \in RegisterFile
           /\ \A bank \in {"usr", "fiq"} : HiOf(regs', m, bank) = HiOf(regs, mode, bank)
           /\ \A bank \in {"usr", "fiq"} \cup Stored :
                  SpOf(regs', m, bank) = SpOf(regs, mode, bank)
           /\ \A bank \in {"fiq"} \cup Stored :
                  \/ save /\ bank = m /\ SpsrOf(regs', m, bank) = mode
                  \/ ~(save /\ bank = m) /\ SpsrOf(regs', m, bank) = SpsrOf(regs, mode, bank)
                  \/ /\ ~save /\ bank = "irq"
                     /\ (mode \in UserModes /\ m = "irq") \/ (mode = "irq" /\ m \in UserModes)
           /\ ~save /\ {mode, m} \subseteq UserModes \cup {"irq"} => regs'.spsr = regs.spsr
           /\ save => regs'.spsr = mode
<1> DEFINE x == Exchange(regs, m)
<1>1. regs' = Switched(m, save) /\ mode' = m /\ usrHi' = usrHi
  BY DEF ThreadSetCpsr, Switched
<1>2. /\ regs' \in RegisterFile /\ x \in RegisterFile
      /\ regs'.hi = x.hi /\ regs'.sp = x.sp /\ regs'.user = x.user /\ regs'.fiq = x.fiq
      /\ regs'.other = x.other
      /\ regs'.spsr = IF save THEN mode ELSE x.spsr
  BY <1>1, SwitchedFile DEF TypeOK
<1>3. Switches(regs, x, m)
  BY ExchangeSwitches DEF TypeOK
<1>4. {mode, m} \subseteq UserModes \cup {"irq"} => x.spsr = regs.spsr
  BY ExchangeKeepsStatus DEF TypeOK
<1> HIDE DEF x
<1>5. \A bank \in {"usr", "fiq"} : HiOf(regs', m, bank) = HiOf(x, m, bank)
  BY <1>2 DEF HiOf
<1>6. \A bank \in {"usr", "fiq"} \cup Stored : SpOf(regs', m, bank) = SpOf(x, m, bank)
  BY <1>2 DEF SpOf
<1>7. \A bank \in {"fiq"} \cup Stored :
          SpsrOf(regs', m, bank) = IF save /\ bank = m THEN mode ELSE SpsrOf(x, m, bank)
  <2>1. ASSUME NEW s \in Stored
        PROVE  SpsrOf(regs', m, s) = IF save /\ s = m THEN mode ELSE SpsrOf(x, m, s)
    <3>1. /\ SpsrOf(regs', m, s) = IF m = s THEN regs'.spsr ELSE regs'.other[s].spsr
          /\ SpsrOf(x, m, s) = IF m = s THEN x.spsr ELSE x.other[s].spsr
      BY Banks
    <3>2. QED  BY <1>2, <3>1
  <2>2. SpsrOf(regs', m, "fiq") = IF save /\ "fiq" = m THEN mode ELSE SpsrOf(x, m, "fiq")
    <3>1. /\ SpsrOf(regs', m, "fiq") = IF m = "fiq" THEN regs'.spsr ELSE regs'.fiq.spsr
          /\ SpsrOf(x, m, "fiq") = IF m = "fiq" THEN x.spsr ELSE x.fiq.spsr
      BY Banks
    <3>2. QED  BY <1>2, <3>1
  <2>3. QED  BY <2>1, <2>2
<1>8. save => m \notin UserModes
  BY OtherModesAssumption DEF UserModes, Stored
<1>9. QED  BY <1>1, <1>2, <1>3, <1>4, <1>5, <1>6, <1>7, <1>8 DEF Switches

\* The r8-r12 of the user mode are the last written outside fiq mode, in view
\* or, in fiq mode, in the user store.
LEMMA UserBankStep == ASSUME UserBankFresh, [Next]_vars PROVE UserBankFresh'
<1> USE DEF UserBankFresh
<1>1. TypeOK'
  BY TypeStep
<1>2. ASSUME NEW v \in Value, SetHi(v) \/ SetSp(v) \/ SetUsrHi(v) \/ SetUsrSp(v)
      PROVE  UsrHi(regs)' = usrHi'
  BY <1>2 DEF SetHi, SetSp, SetUsrHi, SetUsrSp, UsrHi, TypeOK, RegisterFile, UserModes
<1>3. ASSUME NEW m \in Mode, NEW save \in BOOLEAN, save => m \in Stored, ThreadSetCpsr(m, save)
      PROVE  UsrHi(regs)' = usrHi'
  <2>1. /\ mode' = m /\ usrHi' = usrHi
        /\ HiOf(regs', m, "usr") = HiOf(regs, mode, "usr")
    BY <1>3, ModeSwitch
  <2>2. UsrHi(regs)' = HiOf(regs', mode', "usr") /\ UsrHi(regs) = HiOf(regs, mode, "usr")
    BY DEF UsrHi, HiOf
  <2>3. QED  BY <2>1, <2>2
<1>4. ASSUME NEW m \in WrittenStatus, ThreadSetSpsrWithFlags(m)
      PROVE  UsrHi(regs)' = usrHi'
  BY <1>4 DEF ThreadSetSpsrWithFlags, UsrHi, TypeOK, RegisterFile
<1>5. ASSUME NEW m \in Mode, ThreadSetCpsrWithFlags(m) PROVE UsrHi(regs)' = usrHi'
  BY <1>3, <1>5 DEF ThreadSetCpsrWithFlags, TypeOK
<1>6. ASSUME NEW m \in Stored, TakeException(m) PROVE UsrHi(regs)' = usrHi'
  BY <1>3, <1>6 DEF TakeException, Mode
<1>7. ASSUME ThreadRestoreSpsr PROVE UsrHi(regs)' = usrHi'
  BY <1>3, <1>7 DEF ThreadRestoreSpsr, RegisterFile, TypeOK
<1>8. ASSUME UNCHANGED vars PROVE UsrHi(regs)' = usrHi'
  BY <1>8 DEF vars, UsrHi
<1>9. QED  BY <1>1, <1>2, <1>4, <1>5, <1>6, <1>7, <1>8 DEF Next

\* What a user-bank transfer reads is the user mode's register, in every
\* state: thread_get_reg_usr never meets the stale store.
THEOREM UserBank == Spec => []UserBankFresh
<1>1. Init => UserBankFresh
  BY InitType DEF Init, UserBankFresh, UsrHi
<1>2. UserBankFresh /\ [Next]_vars => UserBankFresh'
  BY UserBankStep
<1>3. QED  BY <1>1, <1>2, PTL DEF Spec

-----------------------------------------------------------------------------
(* The status of the interrupt mode.                                       *)

\* Unless another exception mode came between it and a user mode, the status
\* a guest expects in interrupt mode is in view in a user mode too, where the
\* short switch left it, and in its bank elsewhere.
StatusInPlace ==
    ~displaced =>
        irqStatus = IF mode \in UserModes THEN regs.spsr ELSE SpsrOf(regs, mode, "irq")

LEMMA StatusStep ==
    ASSUME TypeOK, StatusInPlace, [Next]_vars
    PROVE  StatusInPlace'
<1>1. /\ "irq" \in Stored /\ "irq" \in Mode /\ "irq" \notin UserModes
      /\ UserModes \cap Stored = {}
  BY OtherModesAssumption DEF Stored, Mode, UserModes
<1>2. /\ mode \in Mode /\ regs \in RegisterFile
      /\ SpsrOf(regs, mode, "irq") = IF mode = "irq" THEN regs.spsr ELSE regs.other["irq"].spsr
  BY <1>1, Banks DEF TypeOK
<1>3. ASSUME NEW v \in Value, SetHi(v) \/ SetSp(v) \/ SetUsrHi(v) \/ SetUsrSp(v)
      PROVE  StatusInPlace'
  <2>1. /\ regs'.spsr = regs.spsr /\ regs'.other = regs.other
        /\ UNCHANGED <<mode, irqStatus, displaced>>
    BY <1>2, <1>3 DEF SetHi, SetSp, SetUsrHi, SetUsrSp, RegisterFile
  <2>2. SpsrOf(regs', mode', "irq") = IF mode = "irq" THEN regs.spsr ELSE regs.other["irq"].spsr
    <3>1. SpsrOf(regs', mode, "irq") = IF mode = "irq" THEN regs'.spsr ELSE regs'.other["irq"].spsr
      BY <1>1, <1>2, Banks
    <3>2. QED  BY <2>1, <3>1
  <2>3. QED  BY <1>2, <2>1, <2>2 DEF StatusInPlace
<1>4. ASSUME NEW m \in Mode, NEW save \in BOOLEAN, save => m \in Stored, ThreadSetCpsr(m, save)
      PROVE  StatusInPlace'
  <2>1. /\ mode' = m
        /\ \/ save /\ m = "irq" /\ SpsrOf(regs', m, "irq") = mode
           \/ ~(save /\ m = "irq") /\ SpsrOf(regs', m, "irq") = SpsrOf(regs, mode, "irq")
           \/ ~save /\ mode \in UserModes /\ m = "irq"
           \/ ~save /\ mode = "irq" /\ m \in UserModes
        /\ ~save /\ {mode, m} \subseteq UserModes \cup {"irq"} => regs'.spsr = regs.spsr
    BY <1>1, <1>4, ModeSwitch
  <2>2. SpsrOf(regs', "irq", "irq") = regs'.spsr
    BY <1>1, Banks
  <2>3. CASE save /\ m = "irq"
    BY <1>1, <1>4, <2>1, <2>3 DEF ThreadSetCpsr, StatusInPlace
  <2>4. CASE ~(save /\ m = "irq") /\ {mode, m} \cap UserModes # {}
                                   /\ {mode, m} \ (UserModes \cup {"irq"}) # {}
    BY <1>4, <2>4 DEF ThreadSetCpsr, StatusInPlace
  <2>5. CASE ~(save /\ m = "irq") /\ {mode, m} \subseteq UserModes \cup {"irq"}
    <3>1. irqStatus' = irqStatus /\ displaced' = displaced
      BY <1>4, <2>5 DEF ThreadSetCpsr
    <3>2. ~save
      BY <1>1, <1>4, <2>5
    <3>3. QED  BY <1>1, <1>2, <2>1, <2>2, <2>5, <3>1, <3>2 DEF StatusInPlace
  <2>6. CASE ~(save /\ m = "irq") /\ {mode, m} \cap UserModes = {}
    <3>1. irqStatus' = irqStatus /\ displaced' = displaced
      BY <1>4, <2>6 DEF ThreadSetCpsr
    <3>2. QED  BY <1>1, <1>2, <2>1, <2>6, <3>1 DEF StatusInPlace
  <2>7. QED  BY <2>3, <2>4, <2>5, <2>6
<1>5. ASSUME NEW m \in WrittenStatus, ThreadSetSpsrWithFlags(m) PROVE StatusInPlace'
  <2>1. /\ regs'.spsr = m /\ regs'.other = regs.other /\ mode' = mode /\ mode \notin UserModes
        /\ irqStatus' = (IF mode = "irq" THEN m ELSE irqStatus)
        /\ displaced' = (displaced /\ mode # "irq")
    BY <1>2, <1>5 DEF ThreadSetSpsrWithFlags, RegisterFile
  <2>2. SpsrOf(regs', mode', "irq") = IF mode = "irq" THEN m ELSE regs.other["irq"].spsr
    <3>1. SpsrOf(regs', mode, "irq") = IF mode = "irq" THEN regs'.spsr ELSE regs'.other["irq"].spsr
      BY <1>1, <1>2, Banks
    <3>2. QED  BY <2>1, <3>1
  <2>3. QED  BY <1>2, <2>1, <2>2 DEF StatusInPlace
<1>6. ASSUME NEW m \in Mode, ThreadSetCpsrWithFlags(m) PROVE StatusInPlace'
  BY <1>2, <1>4, <1>6 DEF ThreadSetCpsrWithFlags
<1>7. ASSUME NEW m \in Stored, TakeException(m) PROVE StatusInPlace'
  BY <1>4, <1>7 DEF TakeException, Mode
<1>8. ASSUME ThreadRestoreSpsr PROVE StatusInPlace'
  BY <1>2, <1>4, <1>8 DEF ThreadRestoreSpsr, RegisterFile
<1>9. ASSUME UNCHANGED vars PROVE StatusInPlace'
  BY <1>9 DEF vars, StatusInPlace, SpsrOf
<1>10. QED  BY <1>3, <1>5, <1>6, <1>7, <1>8, <1>9 DEF Next

\* A handler that leaves interrupt mode for a user mode and comes back returns
\* to the mode it interrupted, though both switches took the short path.
THEOREM InterruptStatus == Spec => []IrqStatusKept
<1>1. Init => StatusInPlace
  BY DEF Init, StatusInPlace, UserModes
<1>2. UserBankFresh /\ StatusInPlace /\ [Next]_vars => StatusInPlace'
  BY StatusStep DEF UserBankFresh
<1>3. UserBankFresh /\ StatusInPlace => IrqStatusKept
  <2> SUFFICES ASSUME StatusInPlace, mode = "irq", ~displaced PROVE regs.spsr = irqStatus
    BY DEF IrqStatusKept
  <2>1. "irq" \in Mode /\ "irq" \in Stored /\ "irq" \notin UserModes
    BY DEF Mode, Stored, UserModes
  <2>2. SpsrOf(regs, mode, "irq") = regs.spsr
    BY <2>1, Banks
  <2>3. QED  BY <2>1, <2>2 DEF StatusInPlace
<1>4. QED  BY <1>1, <1>2, <1>3, UserBank, PTL DEF Spec

-----------------------------------------------------------------------------
(* The banked registers of the architecture.                               *)

HiBanks == {"usr", "fiq"}
SpsrBanks == {"fiq"} \cup Stored
SpBanks == {"usr", "fiq"} \cup Stored

LEMMA ArchViews ==
    /\ ArchHi = [bank \in HiBanks |-> HiOf(regs, mode, bank)]
    /\ ArchSp = [bank \in SpBanks |-> SpOf(regs, mode, bank)]
    /\ ArchSpsr = [bank \in SpsrBanks |-> SpsrOf(regs, mode, bank)]
<1>1. ArchHi = [bank \in HiBanks |-> HiOf(regs, mode, bank)]
  BY DEF ArchHi, HiOf, HiBanks
<1>2. ArchSp = [bank \in SpBanks |-> SpOf(regs, mode, bank)]
  BY DEF ArchSp, SpOf, SpBanks, UsrSp
<1>3. ArchSpsr = [bank \in SpsrBanks |-> SpsrOf(regs, mode, bank)]
  BY DEF ArchSpsr, SpsrOf, SpsrBanks
<1>4. QED  BY <1>1, <1>2, <1>3

LEMMA ArchViewsNext ==
    /\ ArchHi' = [bank \in HiBanks |-> HiOf(regs', mode', bank)]
    /\ ArchSp' = [bank \in SpBanks |-> SpOf(regs', mode', bank)]
    /\ ArchSpsr' = [bank \in SpsrBanks |-> SpsrOf(regs', mode', bank)]
<1>1. ArchHi' = [bank \in HiBanks |-> HiOf(regs', mode', bank)]
  BY DEF ArchHi, HiOf, HiBanks
<1>2. ArchSp' = [bank \in SpBanks |-> SpOf(regs', mode', bank)]
  BY DEF ArchSp, SpOf, SpBanks, UsrSp
<1>3. ArchSpsr' = [bank \in SpsrBanks |-> SpsrOf(regs', mode', bank)]
  BY DEF ArchSpsr, SpsrOf, SpsrBanks
<1>4. QED  BY <1>1, <1>2, <1>3

LEMMA ArchTypes ==
    ASSUME TypeOK
    PROVE  /\ ArchHi \in [HiBanks -> Value] /\ ArchSp \in [SpBanks -> Value]
           /\ ArchSpsr \in [SpsrBanks -> Mode]
           /\ SpBanks = {"usr"} \cup (Mode \ UserModes) /\ SpsrBanks = Mode \ UserModes
<1>1. SpBanks = {"usr"} \cup (Mode \ UserModes) /\ SpsrBanks = Mode \ UserModes
  BY OtherModesAssumption DEF SpBanks, SpsrBanks, Mode, UserModes, Stored
<1>2. mode \in Mode /\ regs \in RegisterFile
  BY DEF TypeOK
<1>3. \A bank \in HiBanks : HiOf(regs, mode, bank) \in Value
  BY <1>2 DEF HiBanks, HiOf, RegisterFile
<1>4. ASSUME NEW s \in Stored
      PROVE  SpOf(regs, mode, s) \in Value /\ SpsrOf(regs, mode, s) \in Mode
  <2>1. /\ SpOf(regs, mode, s) = IF mode = s THEN regs.sp ELSE regs.other[s].sp
        /\ SpsrOf(regs, mode, s) = IF mode = s THEN regs.spsr ELSE regs.other[s].spsr
    BY <1>2, Banks
  <2>2. QED  BY <1>2, <2>1 DEF RegisterFile
<1>5. /\ SpOf(regs, mode, "usr") \in Value /\ SpOf(regs, mode, "fiq") \in Value
      /\ SpsrOf(regs, mode, "fiq") \in Mode
  BY <1>2, Banks DEF RegisterFile
<1>6. \A bank \in SpBanks : SpOf(regs, mode, bank) \in Value
  BY <1>4, <1>5 DEF SpBanks
<1>7. \A bank \in SpsrBanks : SpsrOf(regs, mode, bank) \in Mode
  BY <1>4, <1>5 DEF SpsrBanks
<1>8. QED  BY <1>1, <1>3, <1>6, <1>7, ArchViews

\* The stack pointer and the status of each bank, for a running mode m.
InBank(r, m) ==
    /\ SpOf(r, m, "usr") = IF m \in UserModes THEN r.sp ELSE r.user.sp
    /\ SpOf(r, m, "fiq") = IF m = "fiq" THEN r.sp ELSE r.fiq.sp
    /\ SpsrOf(r, m, "fiq") = IF m = "fiq" THEN r.spsr ELSE r.fiq.spsr
    /\ \A s \in Stored :
           /\ SpOf(r, m, s) = IF m = s THEN r.sp ELSE r.other[s].sp
           /\ SpsrOf(r, m, s) = IF m = s THEN r.spsr ELSE r.other[s].spsr

\* Writes of registers: the same register of the same bank, nothing else.
LEMMA RefineWrites ==
    ASSUME TypeOK, NEW v \in Value
    PROVE  /\ SetHi(v) => Arch!WriteHi(Arch!HiBank(mode), v)
           /\ SetSp(v) => Arch!WriteSp(Arch!Bank(mode), v)
           /\ SetUsrHi(v) => Arch!WriteHi("usr", v)
           /\ SetUsrSp(v) => Arch!WriteSp("usr", v)
<1>1. /\ mode \in Mode /\ regs \in RegisterFile
      /\ "usr" \notin Mode /\ "fiq" \notin UserModes /\ "fiq" \notin Stored
      /\ UserModes \cap Stored = {} /\ "usr" \notin Stored
  BY OtherModesAssumption DEF TypeOK, Mode, UserModes, Stored
<1>2. /\ ArchHi = [bank \in HiBanks |-> HiOf(regs, mode, bank)]
      /\ ArchSp = [bank \in SpBanks |-> SpOf(regs, mode, bank)]
      /\ ArchSpsr = [bank \in SpsrBanks |-> SpsrOf(regs, mode, bank)]
  BY ArchViews
<1>3. /\ ArchHi' = [bank \in HiBanks |-> HiOf(regs', mode', bank)]
      /\ ArchSp' = [bank \in SpBanks |-> SpOf(regs', mode', bank)]
      /\ ArchSpsr' = [bank \in SpsrBanks |-> SpsrOf(regs', mode', bank)]
  BY ArchViewsNext
<1>4. ASSUME SetHi(v) PROVE Arch!WriteHi(Arch!HiBank(mode), v)
  <2>1. /\ mode' = mode /\ regs'.hi = v /\ regs'.sp = regs.sp /\ regs'.spsr = regs.spsr
        /\ regs'.user = regs.user /\ regs'.fiq = regs.fiq /\ regs'.other = regs.other
    BY <1>1, <1>4 DEF SetHi, RegisterFile
  <2>2. ArchSp' = ArchSp
    BY <1>2, <1>3, <2>1 DEF SpOf
  <2>3. ArchSpsr' = ArchSpsr
    BY <1>2, <1>3, <2>1 DEF SpsrOf
  <2>4. ArchHi' = [ArchHi EXCEPT ![IF mode = "fiq" THEN "fiq" ELSE "usr"] = v]
    BY <1>2, <1>3, <2>1 DEF HiOf, HiBanks
  <2>5. QED  BY <2>1, <2>2, <2>3, <2>4 DEF Arch!WriteHi, Arch!HiBank
<1>5. ASSUME SetUsrHi(v) PROVE Arch!WriteHi("usr", v)
  <2>1. /\ mode' = mode /\ mode \notin UserModes
        /\ regs'.hi = (IF mode = "fiq" THEN regs.hi ELSE v)
        /\ regs'.user.hi = (IF mode = "fiq" THEN v ELSE regs.user.hi)
        /\ regs'.sp = regs.sp /\ regs'.spsr = regs.spsr
        /\ regs'.user.sp = regs.user.sp /\ regs'.fiq = regs.fiq /\ regs'.other = regs.other
    BY <1>1, <1>5 DEF SetUsrHi, RegisterFile
  <2>2. ArchSp' = ArchSp
    BY <1>2, <1>3, <2>1 DEF SpOf
  <2>3. ArchSpsr' = ArchSpsr
    BY <1>2, <1>3, <2>1 DEF SpsrOf
  <2>4. ArchHi' = [ArchHi EXCEPT !["usr"] = v]
    BY <1>2, <1>3, <2>1 DEF HiOf, HiBanks
  <2>5. QED  BY <2>1, <2>2, <2>3, <2>4 DEF Arch!WriteHi
<1>6. ASSUME SetSp(v) PROVE Arch!WriteSp(Arch!Bank(mode), v)
  <2>1. /\ mode' = mode /\ regs'.sp = v /\ regs'.hi = regs.hi /\ regs'.spsr = regs.spsr
        /\ regs'.user = regs.user /\ regs'.fiq = regs.fiq /\ regs'.other = regs.other
    BY <1>1, <1>6 DEF SetSp, RegisterFile
  <2>2. ArchHi' = ArchHi
    BY <1>2, <1>3, <2>1 DEF HiOf
  <2>3. ArchSpsr' = ArchSpsr
    BY <1>2, <1>3, <2>1 DEF SpsrOf
  <2>4. \A bank \in SpBanks : SpOf(regs', mode', bank) =
            IF bank = (IF mode \in UserModes THEN "usr" ELSE mode) THEN v ELSE SpOf(regs, mode, bank)
    <3>1. InBank(regs, mode) /\ InBank(regs', mode)
      BY <1>1, Banks DEF InBank
    <3>2. QED  BY <1>1, <2>1, <3>1 DEF InBank, SpBanks
  <2>5. ArchSp' = [ArchSp EXCEPT ![IF mode \in UserModes THEN "usr" ELSE mode] = v]
    BY <1>2, <1>3, <2>4
  <2>6. QED  BY <2>1, <2>2, <2>3, <2>5 DEF Arch!WriteSp, Arch!Bank
<1>7. ASSUME SetUsrSp(v) PROVE Arch!WriteSp("usr", v)
  <2>1. /\ mode' = mode /\ mode \notin UserModes
        /\ regs'.sp = regs.sp /\ regs'.hi = regs.hi /\ regs'.spsr = regs.spsr
        /\ regs'.user.hi = regs.user.hi /\ regs'.user.sp = v
        /\ regs'.fiq = regs.fiq /\ regs'.other = regs.other
    BY <1>1, <1>7 DEF SetUsrSp, RegisterFile
  <2>2. ArchHi' = ArchHi
    BY <1>2, <1>3, <2>1 DEF HiOf
  <2>3. ArchSpsr' = ArchSpsr
    BY <1>2, <1>3, <2>1 DEF SpsrOf
  <2>4. \A bank \in SpBanks :
            SpOf(regs', mode', bank) = IF bank = "usr" THEN v ELSE SpOf(regs, mode, bank)
    <3>1. InBank(regs, mode) /\ InBank(regs', mode)
      BY <1>1, Banks DEF InBank
    <3>2. QED  BY <1>1, <2>1, <3>1 DEF InBank, SpBanks
  <2>5. ArchSp' = [ArchSp EXCEPT !["usr"] = v]
    BY <1>2, <1>3, <2>4
  <2>6. QED  BY <2>1, <2>2, <2>3, <2>5 DEF Arch!WriteSp
<1>8. QED  BY <1>4, <1>5, <1>6, <1>7

\* A write of the status register of the running mode.
LEMMA RefineSpsr ==
    ASSUME TypeOK, NEW m \in Mode, ThreadSetSpsrWithFlags(m)
    PROVE  Arch!WriteSpsr(m)
<1>1. /\ mode \in Mode /\ regs \in RegisterFile
      /\ "usr" \notin Mode /\ "fiq" \notin UserModes /\ "fiq" \notin Stored
      /\ UserModes \cap Stored = {} /\ "usr" \notin Stored
  BY OtherModesAssumption DEF TypeOK, Mode, UserModes, Stored
<1>2. /\ mode' = mode /\ mode \notin UserModes /\ regs'.spsr = m
      /\ regs'.sp = regs.sp /\ regs'.hi = regs.hi /\ regs'.user = regs.user
      /\ regs'.fiq = regs.fiq /\ regs'.other = regs.other
  BY <1>1 DEF ThreadSetSpsrWithFlags, RegisterFile
<1>3. ArchHi' = ArchHi
  BY <1>2, ArchViews, ArchViewsNext DEF HiOf
<1>4. ArchSp' = ArchSp
  BY <1>2, ArchViews, ArchViewsNext DEF SpOf
<1>5. \A bank \in SpsrBanks :
          SpsrOf(regs', mode', bank) = IF bank = mode THEN m ELSE SpsrOf(regs, mode, bank)
  <2>1. InBank(regs, mode) /\ InBank(regs', mode)
    BY <1>1, Banks DEF InBank
  <2>2. QED  BY <1>1, <1>2, <2>1 DEF InBank, SpsrBanks
<1>6. ArchSpsr' = [ArchSpsr EXCEPT ![mode] = m]
  BY <1>5, ArchViews, ArchViewsNext
<1>7. QED  BY <1>1, <1>2, <1>3, <1>4, <1>6 DEF Arch!WriteSpsr, Arch!Privileged

\* A switch changes the mode and no register, but for the interrupt mode's
\* status on the way between it and a user mode.
LEMMA RefineSwitch ==
    ASSUME TypeOK, NEW m \in Mode, ThreadSetCpsr(m, FALSE)
    PROVE  Arch!SwitchMode(m)
<1>1. /\ mode \in Mode /\ "usr" \notin Mode /\ "irq" \in Stored /\ "irq" \notin UserModes
      /\ "irq" \in SpsrBanks
  BY OtherModesAssumption DEF TypeOK, Mode, UserModes, Stored, SpsrBanks
<1> DEFINE short == (mode \in UserModes /\ m = "irq") \/ (mode = "irq" /\ m \in UserModes)
           s == SpsrOf(regs', m, "irq")
<1>2. /\ mode' = m /\ regs' \in RegisterFile
      /\ \A bank \in HiBanks : HiOf(regs', m, bank) = HiOf(regs, mode, bank)
      /\ \A bank \in SpBanks : SpOf(regs', m, bank) = SpOf(regs, mode, bank)
      /\ \A bank \in SpsrBanks :
             SpsrOf(regs', m, bank) = SpsrOf(regs, mode, bank) \/ (bank = "irq" /\ short)
  BY ModeSwitch DEF HiBanks, SpBanks, SpsrBanks
<1>3. ArchHi' = ArchHi
  BY <1>2, ArchViews, ArchViewsNext
<1>4. ArchSp' = ArchSp
  BY <1>2, ArchViews, ArchViewsNext
<1>5. s \in Mode
  <2>1. s = IF m = "irq" THEN regs'.spsr ELSE regs'.other["irq"].spsr
    BY <1>1, Banks
  <2>2. QED  BY <1>1, <1>2, <2>1 DEF RegisterFile
<1>6. Arch!Bank(mode) = (IF mode \in UserModes THEN "usr" ELSE mode) /\
      Arch!Bank(m) = (IF m \in UserModes THEN "usr" ELSE m)
  BY DEF Arch!Bank
<1>7. short <=> {Arch!Bank(mode), Arch!Bank(m)} = {"usr", "irq"}
  BY <1>1, <1>6
<1>8. ArchSpsr' = IF short THEN [ArchSpsr EXCEPT !["irq"] = s] ELSE ArchSpsr
  <2>1. \A bank \in SpsrBanks :
            SpsrOf(regs', m, bank) = IF short /\ bank = "irq" THEN s ELSE SpsrOf(regs, mode, bank)
    BY <1>2
  <2> HIDE DEF short, s
  <2>2. QED  BY <1>2, <2>1, ArchViews, ArchViewsNext
<1> HIDE DEF short, s
<1>9. QED  BY <1>2, <1>3, <1>4, <1>5, <1>7, <1>8 DEF Arch!SwitchMode

\* An exception saves the interrupted mode in the new mode's status.
LEMMA RefineException ==
    ASSUME TypeOK, NEW m \in Stored, TakeException(m)
    PROVE  Arch!TakeException(m)
<1>1. /\ mode \in Mode /\ m \in Mode /\ m \notin UserModes /\ m \in SpsrBanks
      /\ ThreadSetCpsr(m, TRUE)
  BY OtherModesAssumption DEF TypeOK, Mode, UserModes, Stored, SpsrBanks, TakeException
<1>2. /\ mode' = m
      /\ \A bank \in HiBanks : HiOf(regs', m, bank) = HiOf(regs, mode, bank)
      /\ \A bank \in SpBanks : SpOf(regs', m, bank) = SpOf(regs, mode, bank)
      /\ \A bank \in SpsrBanks :
             SpsrOf(regs', m, bank) = IF bank = m THEN mode ELSE SpsrOf(regs, mode, bank)
  BY <1>1, ModeSwitch DEF HiBanks, SpBanks, SpsrBanks
<1>3. ArchHi' = ArchHi
  BY <1>2, ArchViews, ArchViewsNext
<1>4. ArchSp' = ArchSp
  BY <1>2, ArchViews, ArchViewsNext
<1>5. ArchSpsr' = [ArchSpsr EXCEPT ![m] = mode]
  BY <1>2, ArchViews, ArchViewsNext
<1>6. QED  BY <1>1, <1>2, <1>3, <1>4, <1>5 DEF Arch!TakeException, Arch!Privileged

\* The register file implements the banked registers of the architecture:
\* every switch of modes, short or long, every transfer of the user bank and
\* every exception does to the registers the guest sees what the processor does.
THEOREM Refinement == Spec => ActsAsBanked
<1>1. Init => Arch!Init
  <2> SUFFICES ASSUME Init PROVE Arch!Init
    OBVIOUS
  <2>1. TypeOK
    BY InitType
  <2>2. QED  BY <2>1, ArchTypes DEF Arch!Init, Arch!Privileged, TypeOK, HiBanks
<1>2. TypeOK /\ [Next]_vars => [Arch!Next]_(Arch!vars)
  <2> SUFFICES ASSUME TypeOK, [Next]_vars PROVE Arch!Next \/ UNCHANGED Arch!vars
    OBVIOUS
  <2>1. ASSUME NEW v \in Value, SetHi(v) \/ SetSp(v) \/ SetUsrHi(v) \/ SetUsrSp(v)
        PROVE  Arch!Next
    BY <2>1, RefineWrites DEF Arch!Next
  <2>2. ASSUME NEW m \in Mode, ThreadSetCpsrWithFlags(m) PROVE Arch!Next
    BY <2>2, RefineSwitch DEF ThreadSetCpsrWithFlags, TypeOK, Arch!Next
  <2>3. ASSUME NEW m \in WrittenStatus, ThreadSetSpsrWithFlags(m) PROVE Arch!Next
    BY <2>3, RefineSpsr, OtherModesAssumption DEF Arch!Next
  <2>4. ASSUME NEW m \in Stored, TakeException(m) PROVE Arch!Next
    BY <2>4, RefineException DEF Mode, Arch!Next
  <2>5. ASSUME ThreadRestoreSpsr PROVE Arch!Next
    BY <2>5, RefineSwitch DEF ThreadRestoreSpsr, TypeOK, RegisterFile, Arch!Next
  <2>6. ASSUME UNCHANGED vars PROVE UNCHANGED Arch!vars
    BY <2>6 DEF vars, Arch!vars, ArchHi, ArchSp, ArchSpsr, UsrSp
  <2>7. QED  BY <2>1, <2>2, <2>3, <2>4, <2>5, <2>6 DEF Next
<1>3. UserBankFresh => TypeOK
  BY DEF UserBankFresh
<1>4. QED  BY <1>1, <1>2, <1>3, UserBank, PTL DEF Spec, ActsAsBanked, Arch!Spec
=============================================================================
