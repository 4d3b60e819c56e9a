------------------------- MODULE GuestContextProofs -------------------------
(***************************************************************************)
(* Proofs about GuestContext, for any threads, ring and depth of the host  *)
(* stack.                                                                  *)
(***************************************************************************)
EXTENDS GuestContext, SequenceTheorems, WellFoundedInduction, TLAPS

Contexts == TypeOK /\ WellNested /\ FramesShaped

LEMMA SequenceEnds ==
    ASSUME NEW S, NEW s \in Seq(S), s # <<>>
    PROVE  /\ Len(s) \in Nat /\ Len(s) > 0
           /\ Last(s) \in S /\ Last(s) = s[Len(s)]
           /\ Front(s) \in Seq(S) /\ Len(Front(s)) = Len(s) - 1
           /\ \A i \in 1 .. Len(s) - 1 : Front(s)[i] = s[i]
<1>1. Len(s) \in Nat /\ Len(s) > 0
  OBVIOUS
<1>2. Last(s) \in S /\ Last(s) = s[Len(s)]
  BY <1>1 DEF Last
<1>3. /\ Front(s) \in Seq(S) /\ Len(Front(s)) = Len(s) - 1
      /\ \A i \in 1 .. Len(s) - 1 : Front(s)[i] = s[i]
  <2> DEFINE n == Len(s) - 1
  <2>1. n \in Int /\ n >= 0 /\ 1 \in Int /\ \A i \in 1 .. n : s[i] \in S
    BY <1>1
  <2> HIDE DEF n
  <2>2. /\ SubSeq(s, 1, n) \in Seq(S)
        /\ Len(SubSeq(s, 1, n)) = IF 1 <= n THEN n - 1 + 1 ELSE 0
        /\ \A i \in 1 .. n - 1 + 1 : SubSeq(s, 1, n)[i] = s[1 + i - 1]
    BY <2>1, SubSeqProperties
  <2>3. n - 1 + 1 = n /\ \A i \in 1 .. n : 1 + i - 1 = i
    BY <2>1
  <2>4. SubSeq(s, 1, n) = Front(s)
    BY DEF Front, n
  <2>5. Len(SubSeq(s, 1, n)) = n
    BY <2>1, <2>2
  <2>6. QED
    BY <2>2, <2>3, <2>4, <2>5 DEF n
<1>4. QED
  BY <1>1, <1>2, <1>3

LEMMA FunctionIsSeq ==
    ASSUME NEW S, NEW n \in Nat, NEW s \in [1 .. n -> S]
    PROVE  s \in Seq(S)
  OBVIOUS

LEMMA Appended ==
    ASSUME NEW S, NEW s \in Seq(S), NEW x \in S
    PROVE  /\ Append(s, x) \in Seq(S) /\ Len(Append(s, x)) = Len(s) + 1
           /\ Append(s, x) # <<>> /\ Last(Append(s, x)) = x
           /\ \A i \in 1 .. Len(s) : Append(s, x)[i] = s[i]
           /\ Append(s, x)[Len(s) + 1] = x
  BY DEF Last

-----------------------------------------------------------------------------
(* Types and shapes.                                                       *)

LEMMA OpTypes ==
    /\ Run \in Ops /\ Exited \in Ops /\ [Run EXCEPT !.do = "uninterrupt"] \in Ops
    /\ Run.do = "run" /\ Exited.do = "exited"
    /\ Run.arg = Empty /\ Exited.arg = Empty
    /\ [Run EXCEPT !.do = "uninterrupt"].do = "uninterrupt"
    /\ [Run EXCEPT !.do = "uninterrupt"].arg = Empty
  BY DEF Run, Exited, Ops, Branches

LEMMA FrameTypes ==
    /\ \A r \in Pcs \cup {Empty} :
          /\ CallFrame(r) \in Frames /\ CallFrame(r).kind = "call"
          /\ CallFrame(r).ret = r /\ CallFrame(r).then = Run
    /\ \A r \in Pcs, o \in Ops :
          /\ IrqFrame(r, o) \in Frames /\ IrqFrame(r, o).kind = "irq"
          /\ IrqFrame(r, o).ret = r /\ IrqFrame(r, o).then = o
    /\ \A k \in {"replay", "flushed"} : Leaving(k) \in Frames /\ Leaving(k).kind = k
    /\ NoFrame \in Frames
  BY OpTypes DEF CallFrame, IrqFrame, Leaving, NoFrame, Frames

LEMMA Freed ==
    ASSUME NEW f \in Frames, NEW x \in BOOLEAN
    PROVE  /\ [f EXCEPT !.freed = x] \in Frames /\ [f EXCEPT !.freed = x].kind = f.kind
           /\ [f EXCEPT !.freed = x].ret = f.ret /\ [f EXCEPT !.freed = x].then = f.then
  BY DEF Frames

\* Entering code leaves the frames of hs what they are, but for freed blocks, and
\* may add the frame of a translation that flushed.
LEMMA Entered ==
    ASSUME NEW hs \in Seq(Frames), NEW target \in Pcs, call_jit_fun(hs, target)
    PROVE  /\ host' \in Seq(Frames) /\ Len(host') \in {Len(hs), Len(hs) + 1}
           /\ \A i \in 1 .. Len(hs) :
                 /\ host'[i].kind = hs[i].kind /\ host'[i].ret = hs[i].ret
                 /\ host'[i].then = hs[i].then
           /\ Len(host') = Len(hs) + 1 => host'[Len(hs) + 1].kind = "flushed"
           /\ op' \in Ops /\ op'.arg = Empty /\ resumed' = NoFrame
           /\ op'.do = IF target = Uninterrupt THEN "uninterrupt" ELSE "run"
<1>1. op' \in Ops /\ op'.arg = Empty /\ resumed' = NoFrame
      /\ op'.do = IF target = Uninterrupt THEN "uninterrupt" ELSE "run"
  BY OpTypes DEF call_jit_fun
<1>2. CASE host' = hs
  BY <1>1, <1>2
<1>3. CASE host' # hs
  <2>1. PICK freed \in SUBSET {i \in DOMAIN hs : InBlock(hs[i])} :
            host' = Append([i \in DOMAIN hs |-> [hs[i] EXCEPT !.freed = @ \/ i \in freed]],
                           Leaving("flushed"))
    BY <1>3 DEF call_jit_fun
  <2> DEFINE s == [i \in DOMAIN hs |-> [hs[i] EXCEPT !.freed = @ \/ i \in freed]]
  <2>2. ASSUME NEW i \in 1 .. Len(hs)
        PROVE  /\ s[i] \in Frames /\ s[i].kind = hs[i].kind /\ s[i].ret = hs[i].ret
               /\ s[i].then = hs[i].then
    <3> DEFINE x == hs[i].freed \/ i \in freed
    <3>1. s[i] = [hs[i] EXCEPT !.freed = x] /\ hs[i] \in Frames
      OBVIOUS
    <3>2. x \in BOOLEAN
      OBVIOUS
    <3> HIDE DEF x, s
    <3>3. QED
      BY <3>1, <3>2, Freed
  <2>3. s \in Seq(Frames) /\ Len(s) = Len(hs)
    <3>1. DOMAIN hs = 1 .. Len(hs) /\ Len(hs) \in Nat
      OBVIOUS
    <3>2. s \in [1 .. Len(hs) -> Frames]
      BY <2>2, <3>1, Zenon
    <3>3. s \in Seq(Frames)
      BY <3>1, <3>2, FunctionIsSeq
    <3>4. DOMAIN s = 1 .. Len(hs)
      BY <3>1
    <3>5. QED
      BY <3>1, <3>3, <3>4
  <2> HIDE DEF s
  <2>4. host' = Append(s, Leaving("flushed")) /\ Leaving("flushed") \in Frames
        /\ Leaving("flushed").kind = "flushed"
    BY <2>1, FrameTypes DEF s
  <2>5. QED
    BY <1>1, <2>2, <2>3, <2>4, Appended
<1>4. QED
  BY <1>2, <1>3

\* Returning leaves the guest context or takes the newest frame off.
LEMMA Returned ==
    ASSUME NEW hs \in Seq(Frames), ReturnInto(hs), in_interrupt \in BOOLEAN
    PROVE  \/ /\ op' = Exited /\ host' = <<>> /\ resumed' = NoFrame
              /\ UNCHANGED <<in_interrupt, interrupt_sp>>
           \/ /\ hs # <<>> /\ Len(hs) > 0 /\ hs[Len(hs)].kind \in {"call", "irq"}
              /\ host' = Front(hs) /\ resumed' = hs[Len(hs)] /\ op' = hs[Len(hs)].then
              /\ in_interrupt' = (in_interrupt /\ hs[Len(hs)].kind # "irq")
              /\ UNCHANGED interrupt_sp
<1>1. CASE hs = <<>> \/ Last(hs).kind \in {"replay", "flushed"}
  BY <1>1 DEF ReturnInto, exit_guest_context
<1>2. CASE ~(hs = <<>> \/ Last(hs).kind \in {"replay", "flushed"})
  <2>1. Last(hs) \in Frames /\ Last(hs) = hs[Len(hs)] /\ Len(hs) > 0
    BY <1>2, SequenceEnds
  <2>2. Last(hs).kind \in {"call", "irq"}
    BY <1>2, <2>1 DEF Frames
  <2>3. QED
    BY <1>2, <2>1, <2>2 DEF ReturnInto
<1>3. QED
  BY <1>1, <1>2

-----------------------------------------------------------------------------
(* The guest.                                                              *)

Calls == [ret : Pcs, irq : BOOLEAN]

\* The guest's own part of Contexts.
Guest ==
    /\ current \in Threads /\ calls \in [Threads -> Seq(Calls)] /\ pc \in Pcs
    /\ \A t \in Threads : \A i \in 1 .. Len(calls[t]) :
          /\ calls[t][i].ret = Uninterrupt => calls[t][i].irq /\ i > 1 /\ calls[t][i - 1].irq
          /\ calls[t][i].ret = Entry => calls[t][i].irq \/ i = 1
          /\ t # current /\ i < Len(calls[t]) => ~calls[t][i].irq
    /\ pc = Uninterrupt => calls[current] # <<>> /\ Last(calls[current]).irq

LEMMA PcTypes ==
    /\ Entry \in Pcs /\ Irq \in Pcs /\ Uninterrupt \in Pcs /\ Empty \notin Pcs
    /\ Entry # Uninterrupt /\ Irq # Uninterrupt
    /\ \A r \in Returns : r \in Pcs /\ r # Uninterrupt /\ r # Entry
  BY ContextAssumption DEF Pcs

\* The thread that runs calls, or is interrupted.
LEMMA GuestPushes ==
    ASSUME Guest, NEW x \in Calls, NEW p \in Pcs, p # Uninterrupt,
           x.ret = Uninterrupt => pc = Uninterrupt /\ x.irq, x.ret = Entry => x.irq,
           calls' = [calls EXCEPT ![current] = Append(@, x)], pc' = p, current' = current
    PROVE  Guest'
<1> DEFINE s == calls[current]
<1>1. s \in Seq(Calls) /\ Len(s) \in Nat /\ current \in Threads
  BY DEF Guest
<1>2. calls'[current] = Append(s, x) /\ \A t \in Threads \ {current} : calls'[t] = calls[t]
  BY <1>1 DEF Guest
<1>3. /\ Append(s, x) \in Seq(Calls) /\ Len(Append(s, x)) = Len(s) + 1
      /\ \A i \in 1 .. Len(s) : Append(s, x)[i] = s[i]
      /\ Append(s, x)[Len(s) + 1] = x
  BY <1>1, Appended
<1>4. calls' \in [Threads -> Seq(Calls)]
  BY <1>1, <1>3 DEF Guest
<1>5. s # <<>> => Last(s) = s[Len(s)] /\ Len(s) > 0
  BY <1>1, SequenceEnds
<1>6. ASSUME NEW t \in Threads, NEW i \in 1 .. Len(calls'[t])
      PROVE  /\ calls'[t][i].ret = Uninterrupt =>
                    calls'[t][i].irq /\ i > 1 /\ calls'[t][i - 1].irq
             /\ calls'[t][i].ret = Entry => calls'[t][i].irq \/ i = 1
             /\ t # current' /\ i < Len(calls'[t]) => ~calls'[t][i].irq
  <2>1. CASE t # current
    BY <1>2, <1>6, <2>1 DEF Guest
  <2>2. CASE t = current /\ i <= Len(s)
    <3>1. i \in 1 .. Len(s) /\ calls'[t][i] = s[i] /\ (i > 1 => calls'[t][i - 1] = s[i - 1])
      BY <1>1, <1>2, <1>3, <1>6, <2>2
    <3>2. QED
      BY <1>1, <2>2, <3>1 DEF Guest
  <2>3. CASE t = current /\ i > Len(s)
    <3>1. i = Len(s) + 1 /\ calls'[t][i] = x
      BY <1>1, <1>2, <1>3, <1>6, <2>3
    <3>2. x.ret = Uninterrupt => x.irq /\ Len(s) > 0 /\ s[Len(s)].irq
      BY <1>5 DEF Guest
    <3>3. Len(s) > 0 => calls'[t][Len(s)] = s[Len(s)]
      BY <1>1, <1>2, <1>3, <2>3
    <3>4. QED
      BY <1>1, <2>3, <3>1, <3>2, <3>3
  <2>4. QED
    BY <1>1, <2>1, <2>2, <2>3
<1>7. QED
  BY <1>4, <1>6 DEF Guest

\* A thread goes on where it was called from or interrupted: the one that runs,
\* or another one.
LEMMA GuestPops ==
    ASSUME Guest, NEW t \in Threads, calls[t] # <<>>,
           current' = t, pc' = Last(calls[t]).ret,
           calls' = [calls EXCEPT ![t] = Front(@)],
           t # current => \A i \in 1 .. Len(calls[current]) - 1 : ~calls[current][i].irq
    PROVE  Guest'
<1> DEFINE s == calls[t]
<1>1. s \in Seq(Calls) /\ s # <<>>
  BY DEF Guest
<1>2. calls'[t] = Front(s) /\ \A u \in Threads \ {t} : calls'[u] = calls[u]
  BY DEF Guest
<1>3. /\ Len(s) \in Nat /\ Len(s) > 0 /\ Last(s) \in Calls /\ Last(s) = s[Len(s)]
      /\ Front(s) \in Seq(Calls) /\ Len(Front(s)) = Len(s) - 1
      /\ \A i \in 1 .. Len(s) - 1 : Front(s)[i] = s[i]
  BY <1>1, SequenceEnds
<1>4. calls' \in [Threads -> Seq(Calls)] /\ pc' \in Pcs
  BY <1>3 DEF Guest, Calls
<1>5. ASSUME NEW u \in Threads, NEW i \in 1 .. Len(calls'[u])
      PROVE  /\ calls'[u][i].ret = Uninterrupt =>
                    calls'[u][i].irq /\ i > 1 /\ calls'[u][i - 1].irq
             /\ calls'[u][i].ret = Entry => calls'[u][i].irq \/ i = 1
             /\ u # t /\ i < Len(calls'[u]) => ~calls'[u][i].irq
  <2>1. CASE u # t
    <3>1. calls'[u] = calls[u]
      BY <1>2, <2>1
    <3>2. i < Len(calls[u]) => ~calls[u][i].irq
      BY <1>5, <2>1, <3>1 DEF Guest
    <3>3. QED
      BY <1>5, <3>1, <3>2 DEF Guest
  <2>2. CASE u = t
    <3>1. i \in 1 .. Len(s) /\ calls'[u][i] = s[i] /\ (i > 1 => calls'[u][i - 1] = s[i - 1])
      BY <1>2, <1>3, <1>5, <2>2
    <3>2. QED
      BY <2>2, <3>1 DEF Guest
  <2>3. QED
    BY <2>1, <2>2
<1>6. pc' = Uninterrupt => calls'[t] # <<>> /\ Last(calls'[t]).irq
  <2>1. SUFFICES ASSUME pc' = Uninterrupt PROVE calls'[t] # <<>> /\ Last(calls'[t]).irq
    OBVIOUS
  <2>2. Len(s) \in 1 .. Len(s) /\ s[Len(s)].ret = Uninterrupt
    BY <1>3, <2>1
  <2>3. Len(s) > 1 /\ s[Len(s) - 1].irq
    BY <2>2 DEF Guest
  <2>4. Front(s) # <<>> /\ Last(Front(s)) = s[Len(s) - 1]
    BY <1>3, <2>3 DEF Last
  <2>5. QED
    BY <1>2, <2>3, <2>4
<1>7. QED
  BY <1>4, <1>5, <1>6 DEF Guest

LEMMA GuestSteps ==
    ASSUME Guest
    PROVE  /\ \A r \in Returns : GuestCalls(r) => Guest'
           /\ \A p \in Pcs : (p = Uninterrupt => pc = Uninterrupt) /\ GuestInterrupted(p) => Guest'
           /\ GuestReturns => Guest'
           /\ \A t \in Threads : GuestSwitches(t) => Guest'
           /\ GuestUninterrupted /\ pc = Uninterrupt => Guest'
           /\ pc' = Entry /\ UNCHANGED <<current, calls>> => Guest'
           /\ GuestBranches => Guest'
           /\ UNCHANGED guest => Guest'
<1>1. ASSUME NEW r \in Returns, GuestCalls(r) PROVE Guest'
  <2>1. [ret |-> r, irq |-> FALSE] \in Calls
    BY PcTypes DEF Calls
  <2>2. QED
    BY <1>1, <2>1, PcTypes, GuestPushes DEF GuestCalls
<1>2. ASSUME NEW p \in Pcs, p = Uninterrupt => pc = Uninterrupt, GuestInterrupted(p)
      PROVE  Guest'
  <2>1. [ret |-> p, irq |-> TRUE] \in Calls
    BY DEF Calls
  <2>2. QED
    BY <1>2, <2>1, PcTypes, GuestPushes DEF GuestInterrupted
<1>3. ASSUME NEW t \in Threads, GuestSwitches(t) PROVE Guest'
  <2>1. \A i \in 1 .. Len(calls[current]) - 1 : ~calls[current][i].irq
    <3>1. Len(calls[current]) \in Nat
      BY DEF Guest
    <3>2. QED
      BY <1>3, <3>1 DEF GuestSwitches
  <2>2. QED
    BY <1>3, <2>1, GuestPops DEF GuestSwitches
<1>4. ASSUME GuestReturns PROVE Guest'
  <2>1. CASE Last(calls[current]).irq
    <3>1. pc' = Uninterrupt /\ calls' = calls /\ current' = current /\ calls[current] # <<>>
      BY <1>4, <2>1 DEF GuestReturns
    <3>2. QED
      BY <2>1, <3>1, PcTypes DEF Guest
  <2>2. CASE ~Last(calls[current]).irq
    BY <1>4, <2>2, GuestPops DEF GuestReturns, Guest
  <2>3. QED
    BY <2>1, <2>2
<1>5. ASSUME GuestUninterrupted, pc = Uninterrupt PROVE Guest'
  <2>1. CASE \E t \in Threads : GuestSwitches(t)
    BY <1>3, <2>1
  <2>2. CASE ~\E t \in Threads : GuestSwitches(t)
    <3>1. calls[current] # <<>> /\ current \in Threads
      BY <1>5 DEF Guest
    <3>2. QED
      BY <1>5, <2>2, <3>1, GuestPops DEF GuestUninterrupted
  <2>3. QED
    BY <2>1, <2>2
<1>6. ASSUME pc' = Entry, UNCHANGED <<current, calls>> PROVE Guest'
  BY <1>6, PcTypes DEF Guest
<1>7. ASSUME UNCHANGED guest PROVE Guest'
  BY <1>7 DEF Guest, guest
<1>8. ASSUME GuestBranches PROVE Guest'
  BY <1>3, <1>4, <1>6, <1>8 DEF GuestBranches
<1>9. QED
  BY <1>1, <1>2, <1>3, <1>4, <1>5, <1>6, <1>7, <1>8

-----------------------------------------------------------------------------
(* The host.                                                               *)

\* The rest of Contexts.
Host ==
    /\ op \in Ops /\ host \in Seq(Frames) /\ FramesShaped
    /\ in_interrupt \in BOOLEAN /\ interrupt_sp \in Nat /\ resumed \in Frames
    /\ op.do = "uninterrupt" => pc = Uninterrupt

LEMMA HostLeaves ==
    ASSUME exit_guest_context, in_interrupt' \in BOOLEAN, interrupt_sp' \in Nat
    PROVE  Host'
  BY OpTypes, FrameTypes DEF exit_guest_context, Host, FramesShaped

LEMMA HostEnters ==
    ASSUME NEW hs \in Seq(Frames), call_jit_fun(hs, pc'), pc' \in Pcs,
           in_interrupt' \in BOOLEAN, interrupt_sp' \in Nat,
           \A i \in 1 .. Len(hs) :
               /\ hs[i].kind = "call" => hs[i].then = Run
               /\ hs[i].kind = "irq" => hs[i].then.do \in Branches
    PROVE  Host'
<1>1. /\ host' \in Seq(Frames) /\ Len(host') \in {Len(hs), Len(hs) + 1}
      /\ \A i \in 1 .. Len(hs) :
            /\ host'[i].kind = hs[i].kind /\ host'[i].ret = hs[i].ret
            /\ host'[i].then = hs[i].then
      /\ Len(host') = Len(hs) + 1 => host'[Len(hs) + 1].kind = "flushed"
      /\ op' \in Ops /\ op'.arg = Empty /\ resumed' = NoFrame
      /\ op'.do = IF pc' = Uninterrupt THEN "uninterrupt" ELSE "run"
  BY Entered
<1>2. \A i \in 1 .. Len(host') : i \in 1 .. Len(hs) \/ host'[i].kind = "flushed"
  BY <1>1
<1>3. FramesShaped'
  BY <1>1, <1>2 DEF FramesShaped
<1>4. QED
  BY <1>1, <1>3, FrameTypes DEF Host

LEMMA HostReturns ==
    ASSUME Host, NEW hs \in Seq(Frames), ReturnInto(hs), Len(hs) <= Len(host),
           \A i \in 1 .. Len(hs) : hs[i] = host[i]
    PROVE  Host'
<1>1. CASE op' = Exited /\ host' = <<>> /\ resumed' = NoFrame
           /\ UNCHANGED <<in_interrupt, interrupt_sp>>
  BY <1>1, HostLeaves DEF Host, exit_guest_context
<1>2. CASE /\ hs # <<>> /\ Len(hs) > 0 /\ hs[Len(hs)].kind \in {"call", "irq"}
           /\ host' = Front(hs) /\ resumed' = hs[Len(hs)] /\ op' = hs[Len(hs)].then
           /\ in_interrupt' = (in_interrupt /\ hs[Len(hs)].kind # "irq")
           /\ UNCHANGED interrupt_sp
  <2>1. /\ host' \in Seq(Frames) /\ Len(host') = Len(hs) - 1 /\ Len(hs) \in Nat
        /\ \A i \in 1 .. Len(hs) - 1 : host'[i] = hs[i]
    BY <1>2, SequenceEnds
  <2>2. Len(hs) \in 1 .. Len(hs) /\ Len(hs) \in 1 .. Len(host)
    BY <1>2, <2>1
  <2>3. resumed' \in Frames /\ op' \in Ops
    <3>1. hs[Len(hs)] \in Frames
      BY <2>2
    <3>2. \A f \in Frames : f.then \in Ops
      BY DEF Frames
    <3>3. QED
      BY <1>2, <3>1, <3>2
  <2>4. op' = Run \/ op'.do \in Branches
    BY <1>2, <2>2 DEF Host, FramesShaped
  <2>5. op'.do # "uninterrupt"
    BY <2>4, OpTypes DEF Branches
  <2>6. FramesShaped'
    BY <2>1 DEF Host, FramesShaped
  <2>7. in_interrupt' \in BOOLEAN /\ interrupt_sp' \in Nat
    BY <1>2 DEF Host
  <2>8. QED
    BY <2>1, <2>3, <2>5, <2>6, <2>7 DEF Host
<1>3. QED
  BY <1>1, <1>2, Returned DEF Host

LEMMA HostReaches ==
    ASSUME Host, NEW do \in Branches, NEW arg \in Pcs \cup {Empty}, NEW c \in BOOLEAN,
           Reaches(do, arg, c)
    PROVE  Host'
<1>1. CASE c /\ TooDeep
  BY <1>1, HostLeaves DEF Reaches, Host
<1>2. CASE ~(c /\ TooDeep)
  <2>1. /\ op' = [do |-> do, arg |-> arg, checked |-> FALSE] /\ resumed' = NoFrame
        /\ host' = host /\ in_interrupt' = in_interrupt /\ interrupt_sp' = interrupt_sp
    BY <1>2 DEF Reaches
  <2>2. op' \in Ops /\ op'.do = do
    BY <2>1 DEF Ops
  <2>3. op'.do # "uninterrupt"
    BY <2>2 DEF Branches
  <2>4. FramesShaped'
    BY <2>1 DEF Host, FramesShaped
  <2>5. QED
    BY <2>1, <2>2, <2>3, <2>4, FrameTypes DEF Host
<1>3. QED
  BY <1>1, <1>2

-----------------------------------------------------------------------------
(* The ring, without modular arithmetic.                                   *)

LEMMA RingSlots ==
    ASSUME NEW p \in Slots
    PROVE  /\ RETURN_STACK_SIZE \in Nat /\ RETURN_STACK_SIZE > 1
           /\ Above(p) = (IF p = RETURN_STACK_SIZE - 1 THEN 0 ELSE p + 1)
           /\ Below(p) = SlotBelow(p, 0)
           /\ Above(p) \in Slots /\ Below(p) \in Slots
           /\ \A k \in Slots : SlotBelow(p, k) \in Slots
<1> DEFINE R == RETURN_STACK_SIZE
<1>1. R \in Nat /\ R > 1 /\ p \in 0 .. R - 1
  BY ContextAssumption DEF Slots
<1>2. ASSUME NEW x \in 0 .. R - 1 PROVE x % R = x
  BY <1>1, SMTT(30)
<1>3. R % R = 0
  BY <1>1, SMTT(30)
<1>4. (0 - 1) % R = R - 1
  BY <1>1, SMTT(30)
<1> HIDE DEF R
<1>5. Above(p) = (IF p = R - 1 THEN 0 ELSE p + 1)
  <2>1. CASE p = R - 1
    BY <1>1, <1>3, <2>1 DEF Above, R
  <2>2. CASE p # R - 1
    <3>1. p + 1 \in 0 .. R - 1
      BY <1>1, <2>2
    <3>2. QED
      BY <1>2, <2>2, <3>1 DEF Above, R
  <2>3. QED
    BY <2>1, <2>2
<1>6. Below(p) = SlotBelow(p, 0)
  <2>1. CASE p = 0
    BY <1>1, <1>4, <2>1 DEF Below, SlotBelow, R
  <2>2. CASE p # 0
    <3>1. p - 1 \in 0 .. R - 1
      BY <1>1, <2>2
    <3>2. QED
      BY <1>1, <1>2, <2>2, <3>1 DEF Below, SlotBelow, R
  <2>3. QED
    BY <2>1, <2>2
<1>7. \A k \in Slots : SlotBelow(p, k) \in Slots
  BY <1>1 DEF SlotBelow, Slots, R
<1>8. 0 \in Slots /\ Above(p) \in Slots
  BY <1>1, <1>5 DEF Slots, R
<1>9. QED
  BY <1>1, <1>5, <1>6, <1>7, <1>8 DEF R

Ring ==
    /\ return_stack \in [Slots -> Pcs \cup {Empty}] /\ return_stack_ptr \in Slots
    /\ ideal \in Seq(Pcs \cup {Empty})

LEMMA RingSteps ==
    ASSUME Ring
    PROVE  /\ Popped \in Pcs \cup {Empty}
           /\ \A v \in Pcs \cup {Empty} : push_return_stack(v) => Ring'
           /\ pop_return_stack => Ring'
           /\ pop_and_push_back => Ring'
           /\ clear_return_stack_ptr => Ring'
           /\ UNCHANGED ring => Ring'
<1>1. /\ Above(return_stack_ptr) \in Slots /\ Below(return_stack_ptr) \in Slots
      /\ RETURN_STACK_SIZE \in Nat /\ RETURN_STACK_SIZE > 1
  BY RingSlots DEF Ring
<1>2. Popped \in Pcs \cup {Empty}
  BY <1>1 DEF Ring, Popped
<1>3. (IF ideal = <<>> THEN <<>> ELSE IdealRest) \in Seq(Pcs \cup {Empty})
  <2>1. ideal # <<>> => Front(ideal) \in Seq(Pcs \cup {Empty})
    BY SequenceEnds DEF Ring
  <2>2. QED
    BY <2>1 DEF Front, IdealRest
<1>4. ASSUME NEW v \in Pcs \cup {Empty}, push_return_stack(v) PROVE Ring'
  BY <1>1, <1>4, Appended DEF Ring, push_return_stack
<1>5. ASSUME pop_return_stack PROVE Ring'
  BY <1>1, <1>3, <1>5 DEF Ring, pop_return_stack
<1>6. ASSUME pop_and_push_back PROVE Ring'
  <2>1. ideal' \in Seq(Pcs \cup {Empty})
    BY <1>2, <1>3, <1>6, Appended DEF pop_and_push_back
  <2>2. QED
    BY <1>6, <2>1 DEF Ring, pop_and_push_back
<1>7. ASSUME clear_return_stack_ptr PROVE Ring'
  <2>1. 0 \in Slots /\ <<>> \in Seq(Pcs \cup {Empty})
    BY <1>1 DEF Slots
  <2>2. QED
    BY <1>7, <2>1 DEF Ring, clear_return_stack_ptr
<1>8. ASSUME UNCHANGED ring PROVE Ring'
  BY <1>8 DEF Ring, ring
<1>9. QED
  BY <1>2, <1>4, <1>5, <1>6, <1>7, <1>8

-----------------------------------------------------------------------------
(* Contexts is an invariant: one step per action.                          *)

\* Where an interrupt cuts the host stack back to.
LEMMA Cut ==
    ASSUME InterruptFrameLive, host \in Seq(Frames), in_interrupt, op.do # "exited"
    PROVE  /\ SubSeq(host, 1, interrupt_sp) \in Seq(Frames)
           /\ Len(SubSeq(host, 1, interrupt_sp)) = interrupt_sp
           /\ interrupt_sp \in 1 .. Len(host)
           /\ \A i \in 1 .. interrupt_sp : SubSeq(host, 1, interrupt_sp)[i] = host[i]
<1>1. interrupt_sp \in 1 .. Len(host) /\ Len(host) \in Nat
  BY DEF InterruptFrameLive
<1> DEFINE n == interrupt_sp
<1>2. n \in Int /\ n >= 1 /\ 1 \in Int /\ \A i \in 1 .. n : host[i] \in Frames
  BY <1>1
<1> HIDE DEF n
<1>3. /\ SubSeq(host, 1, n) \in Seq(Frames)
      /\ Len(SubSeq(host, 1, n)) = IF 1 <= n THEN n - 1 + 1 ELSE 0
      /\ \A i \in 1 .. n - 1 + 1 : SubSeq(host, 1, n)[i] = host[1 + i - 1]
  BY <1>2, SubSeqProperties
<1>4. n - 1 + 1 = n /\ 1 <= n /\ \A i \in 1 .. n : 1 + i - 1 = i
  BY <1>2
<1>5. QED
  BY <1>1, <1>3, <1>4 DEF n

\* The history of the entries left behind.
Left == leftover \in {"none", "left", "taken"}

LEMMA ContextParts == Contexts <=> Guest /\ Host /\ Ring /\ Left
  BY Zenon DEF Contexts, Guest, Host, Ring, Left, TypeOK, WellNested, Calls

LEMMA ContextsInit == Init => Contexts
<1> SUFFICES ASSUME Init PROVE Contexts
  OBVIOUS
<1>1. Guest
  <2>1. [ret |-> Entry, irq |-> FALSE] \in Calls
    BY PcTypes DEF Calls
  <2>2. \A t \in Threads : calls[t] = <<>> \/ (t # current /\ calls[t] = <<[ret |-> Entry, irq |-> FALSE]>>)
    BY DEF Init
  <2> DEFINE c == [ret |-> Entry, irq |-> FALSE]
  <2>6. c.ret = Entry
    OBVIOUS
  <2>7. <<c>> \in Seq(Calls) /\ <<>> \in Seq(Calls) /\ Len(<<c>>) = 1 /\ <<c>>[1] = c
    BY <2>1
  <2> HIDE DEF c
  <2>3. calls \in [Threads -> Seq(Calls)]
    BY <2>7 DEF Init, c
  <2>4. \A t \in Threads : \A i \in 1 .. Len(calls[t]) :
            i = Len(calls[t]) /\ calls[t][i].ret = Entry /\ i = 1
    <3> SUFFICES ASSUME NEW t \in Threads, NEW i \in 1 .. Len(calls[t])
                 PROVE  i = Len(calls[t]) /\ calls[t][i].ret = Entry /\ i = 1
      OBVIOUS
    <3>1. CASE calls[t] = <<>>
      BY <3>1
    <3>2. CASE calls[t] = <<c>>
      <4>1. i = 1 /\ Len(calls[t]) = 1
        BY <2>7, <3>2
      <4>2. QED
        BY <2>6, <2>7, <3>2, <4>1
    <3>3. QED
      BY <2>2, <3>1, <3>2 DEF c
  <2>5. \A t \in Threads : \A i \in 1 .. Len(calls[t]) :
          /\ calls[t][i].ret # Uninterrupt
          /\ ~(i < Len(calls[t])) /\ i = 1
    <3>1. \A t \in Threads : Len(calls[t]) \in Nat
      BY <2>3
    <3>2. QED
      BY <2>4, <3>1, PcTypes
  <2>8. pc = Entry /\ current \in Threads
    BY DEF Init
  <2>9. QED
    BY <2>3, <2>5, <2>8, PcTypes DEF Guest
<1>2. Host
  <2>1. FramesShaped
    BY DEF Init, FramesShaped
  <2>2. op = Exited /\ host = <<>> /\ resumed = NoFrame /\ interrupt_sp = 0
    BY DEF Init
  <2>3. in_interrupt \in BOOLEAN
    BY Zenon DEF Init
  <2>4. QED
    BY <2>1, <2>2, <2>3, OpTypes, FrameTypes DEF Host
<1>3. Ring
  <2>1. 0 \in Slots
    BY ContextAssumption DEF Slots
  <2>2. QED
    BY <2>1 DEF Ring, Init
<1>4. Left
  BY DEF Init, Left
<1>5. QED
  BY <1>1, <1>2, <1>3, <1>4, ContextParts

LEMMA LeftStep == Left /\ [Next]_vars => Left'
<1> SUFFICES ASSUME Left, [Next]_vars PROVE Left'
  OBVIOUS
<1>1. CASE execute
  BY <1>1 DEF Left, execute
<1>2. CASE \E r \in Returns : bl(r)
  BY <1>2 DEF Left, bl
<1>3. CASE b \/ ldm_pc
  BY <1>3 DEF Left, b, ldm_pc, LeavesEntry
<1>4. CASE b_local \/ bx_lr \/ fs_clear_overlay_returns \/ hle_function \/ breakout_imm
  BY <1>4 DEF Left, b_local, bx_lr, fs_clear_overlay_returns, hle_function, breakout_imm
<1>5. CASE handle_interrupt \/ branch_reg \/ loop \/ branch_lr \/ hle_post_function
  BY <1>5 DEF Left, handle_interrupt, branch_reg, loop, branch_lr, hle_post_function
<1>6. CASE hle_bios_uninterrupt
  BY <1>6 DEF Left, hle_bios_uninterrupt
<1>7. CASE UNCHANGED vars
  BY <1>7 DEF Left, vars
<1>8. QED
  BY <1>1, <1>2, <1>3, <1>4, <1>5, <1>6, <1>7 DEF Next

LEMMA ContextsStep == Contexts /\ InterruptFrameLive /\ [Next]_vars => Contexts'
<1> SUFFICES ASSUME Contexts, InterruptFrameLive, [Next]_vars PROVE Contexts'
  OBVIOUS
<1>1. Guest /\ Host /\ Ring
  BY ContextParts
<1>2. /\ op \in Ops /\ host \in Seq(Frames) /\ FramesShaped /\ pc \in Pcs
      /\ in_interrupt \in BOOLEAN /\ interrupt_sp \in Nat
  BY <1>1 DEF Guest, Host
<1>3. SUFFICES Guest' /\ Host' /\ Ring'
  <2>1. Left'
    BY LeftStep, ContextParts
  <2>2. QED
    BY <1>3, <2>1, Zenon DEF Contexts, Guest, Host, Ring, Left, TypeOK, WellNested, Calls
<1>4. CASE execute
  <2>1. Guest'
    BY <1>1, <1>4, GuestSteps DEF execute
  <2> DEFINE hs == <<>>
  <2>2. hs \in Seq(Frames) /\ Len(hs) = 0
    OBVIOUS
  <2>5. pc' = pc /\ call_jit_fun(hs, pc') /\ in_interrupt' \in BOOLEAN /\ interrupt_sp' \in Nat
    BY <1>2, <1>4 DEF execute, guest
  <2> HIDE DEF hs
  <2>3. Host'
    <3>1. \A i \in 1 .. Len(hs) :
               /\ hs[i].kind = "call" => hs[i].then = Run
               /\ hs[i].kind = "irq" => hs[i].then.do \in Branches
      BY <2>2
    <3>2. QED
      BY <1>2, <2>2, <2>5, <3>1, HostEnters
  <2>4. QED
    BY <1>1, <1>4, <2>1, <2>3, RingSteps DEF execute
<1>5. ASSUME NEW r \in Returns, bl(r) PROVE Guest' /\ Host' /\ Ring'
  <2>1. Host'
    BY <1>1, <1>5, PcTypes, HostReaches DEF bl, Branches
  <2>2. QED
    BY <1>1, <1>5, <2>1, GuestSteps, RingSteps DEF bl
<1>6. CASE b \/ b_local
  <2>1. Host'
    BY <1>1, <1>6, HostReaches DEF b, b_local, Branches
  <2>2. QED
    BY <1>1, <1>6, <2>1, GuestSteps, RingSteps DEF b, b_local, ring
<1>7. CASE bx_lr
  <2>1. Host'
    BY <1>1, <1>7, HostReaches DEF bx_lr, Branches
  <2>2. QED
    BY <1>1, <1>7, <2>1, GuestSteps, RingSteps DEF bx_lr
<1>8. CASE ldm_pc
  <2>1. Host'
    BY <1>1, <1>8, HostReaches DEF ldm_pc, Branches
  <2>2. QED
    BY <1>1, <1>8, <2>1, GuestSteps, RingSteps DEF ldm_pc
<1>9. CASE fs_clear_overlay_returns
  <2>1. Host'
    BY <1>2, <1>9, HostLeaves DEF fs_clear_overlay_returns
  <2>2. QED
    BY <1>1, <1>9, <2>1, GuestSteps, RingSteps DEF fs_clear_overlay_returns
<1>10. CASE hle_function
  <2>1. Guest' /\ Ring' /\ Popped \in Pcs \cup {Empty}
    BY <1>1, <1>10, GuestSteps, RingSteps DEF hle_function
  <2>2. op' \in Ops /\ op'.do = "hle"
    BY <1>10, <2>1 DEF hle_function, Ops, Branches
  <2>3. FramesShaped' /\ host' \in Seq(Frames) /\ in_interrupt' \in BOOLEAN /\ interrupt_sp' \in Nat
    BY <1>2, <1>10 DEF hle_function, FramesShaped
  <2>4. resumed' \in Frames
    BY <1>10, FrameTypes DEF hle_function
  <2>5. QED
    BY <2>1, <2>2, <2>3, <2>4 DEF Host
<1>11. CASE breakout_imm
  <2>1. Host'
    BY <1>2, <1>11, HostLeaves DEF breakout_imm
  <2>2. Guest'
    BY <1>1, <1>11, PcTypes, GuestSteps DEF breakout_imm
  <2>3. QED
    BY <1>1, <1>11, <2>1, <2>2, RingSteps DEF breakout_imm
<1>12. CASE handle_interrupt
  <2>1. Guest'
    BY <1>1, <1>2, <1>12, GuestSteps DEF handle_interrupt
  <2>2. CASE TooDeep
    <3>1. Host'
      BY <1>2, <1>12, <2>2, HostLeaves DEF handle_interrupt
    <3>2. QED
      BY <1>1, <1>12, <2>1, <2>2, <3>1, RingSteps DEF handle_interrupt
  <2>3. CASE ~TooDeep
    <3> DEFINE o == [op EXCEPT !.checked = TRUE]
               hs == Append(host, IrqFrame(pc, o))
    <3>1. o \in Ops /\ o.do = op.do /\ op.do \in Branches
      BY <1>2, <1>12 DEF Ops, handle_interrupt
    <3>2. /\ IrqFrame(pc, o) \in Frames /\ IrqFrame(pc, o).kind = "irq"
          /\ IrqFrame(pc, o).then = o
      BY <1>2, <3>1, FrameTypes
    <3>3. pc' = Irq /\ pc' \in Pcs
      BY <1>12, PcTypes DEF handle_interrupt, GuestInterrupted
    <3>4. call_jit_fun(hs, pc') /\ push_return_stack(pc)
          /\ in_interrupt' = TRUE /\ interrupt_sp' = Len(host) + 1
      BY <1>12, <2>3, <3>3 DEF handle_interrupt
    <3> HIDE DEF o
    <3>5. /\ hs \in Seq(Frames) /\ Len(hs) = Len(host) + 1
          /\ \A i \in 1 .. Len(host) : hs[i] = host[i]
          /\ hs[Len(host) + 1] = IrqFrame(pc, o)
      BY <1>2, <3>2, Appended
    <3> HIDE DEF hs
    <3>6. \A i \in 1 .. Len(hs) :
               /\ hs[i].kind = "call" => hs[i].then = Run
               /\ hs[i].kind = "irq" => hs[i].then.do \in Branches
      <4> SUFFICES ASSUME NEW i \in 1 .. Len(hs)
                   PROVE  /\ hs[i].kind = "call" => hs[i].then = Run
                          /\ hs[i].kind = "irq" => hs[i].then.do \in Branches
        OBVIOUS
      <4>1. CASE i \in 1 .. Len(host)
        BY <1>2, <3>5, <4>1 DEF FramesShaped
      <4>2. CASE i = Len(host) + 1
        BY <3>1, <3>2, <3>5, <4>2
      <4>3. QED
        BY <1>2, <3>5, <4>1, <4>2
    <3>7. in_interrupt' \in BOOLEAN /\ interrupt_sp' \in Nat
      BY <1>2, <3>4
    <3>8. Host'
      BY <3>3, <3>4, <3>5, <3>6, <3>7, HostEnters
    <3>9. QED
      BY <1>1, <1>2, <2>1, <3>4, <3>8, RingSteps
  <2>4. QED
    BY <2>2, <2>3
<1>13. CASE branch_reg
  <2>1. Guest' /\ pc' = pc /\ in_interrupt' \in BOOLEAN /\ interrupt_sp' \in Nat
    BY <1>1, <1>2, <1>13, GuestSteps DEF branch_reg, guest
  <2>2. CASE op.do = "call" /\ push_return_stack(op.arg)
             /\ call_jit_fun(Append(host, CallFrame(op.arg)), pc)
    <3> DEFINE hs == Append(host, CallFrame(op.arg))
    <3>1. op.arg \in Pcs \cup {Empty}
      BY <1>2 DEF Ops
    <3>2. CallFrame(op.arg) \in Frames /\ CallFrame(op.arg).kind = "call" /\ CallFrame(op.arg).then = Run
      BY <3>1, FrameTypes
    <3>3. /\ hs \in Seq(Frames) /\ Len(hs) = Len(host) + 1
          /\ \A i \in 1 .. Len(host) : hs[i] = host[i]
          /\ hs[Len(host) + 1] = CallFrame(op.arg)
      BY <1>2, <3>2, Appended
    <3>4. call_jit_fun(hs, pc')
      BY <2>1, <2>2
    <3> HIDE DEF hs
    <3>5. \A i \in 1 .. Len(hs) :
               /\ hs[i].kind = "call" => hs[i].then = Run
               /\ hs[i].kind = "irq" => hs[i].then.do \in Branches
      BY <1>2, <3>2, <3>3 DEF FramesShaped
    <3>6. Host'
      BY <1>2, <2>1, <3>3, <3>4, <3>5, HostEnters
    <3>7. QED
      BY <1>1, <2>1, <2>2, <3>1, <3>6, RingSteps
  <2>3. CASE op.do \in {"jump", "any"} /\ call_jit_fun(host, pc) /\ UNCHANGED ring
    <3>1. Host'
      BY <1>2, <2>1, <2>3, HostEnters DEF FramesShaped
    <3>2. QED
      BY <1>1, <2>1, <2>3, <3>1, RingSteps
  <2>4. QED
    BY <1>13, <2>2, <2>3 DEF branch_reg
<1>14. CASE loop
  <2>1. Guest' /\ Ring' /\ pc' = pc /\ UNCHANGED <<in_interrupt, interrupt_sp>>
    BY <1>1, <1>14, GuestSteps, RingSteps DEF loop, guest
  <2>2. CASE exit_guest_context
    BY <1>2, <2>1, <2>2, HostLeaves
  <2>3. CASE op' = Run /\ resumed' = NoFrame /\ UNCHANGED host
    BY <1>1, <2>1, <2>3, OpTypes, FrameTypes DEF Host, FramesShaped
  <2>4. QED
    BY <1>14, <2>1, <2>2, <2>3 DEF loop
<1>15. CASE branch_lr
  <2>1. Guest' /\ pc' = pc
    BY <1>1, <1>15, GuestSteps DEF branch_lr, guest
  <2>2. Ring'
    BY <1>1, <1>15, RingSteps DEF branch_lr
  <2>3. CASE ReturnInto(host)
    BY <1>1, <1>2, <2>1, <2>2, <2>3, HostReturns
  <2>4. CASE call_jit_fun(Append(host, Leaving("replay")), pc) /\ UNCHANGED <<in_interrupt, interrupt_sp>>
    <3> DEFINE hs == Append(host, Leaving("replay"))
    <3>1. /\ hs \in Seq(Frames) /\ Len(hs) = Len(host) + 1
          /\ \A i \in 1 .. Len(host) : hs[i] = host[i]
          /\ hs[Len(host) + 1] = Leaving("replay") /\ Leaving("replay").kind = "replay"
      BY <1>2, FrameTypes, Appended
    <3>2. call_jit_fun(hs, pc')
      BY <2>1, <2>4
    <3> HIDE DEF hs
    <3>3. \A i \in 1 .. Len(hs) :
               /\ hs[i].kind = "call" => hs[i].then = Run
               /\ hs[i].kind = "irq" => hs[i].then.do \in Branches
      BY <1>2, <3>1 DEF FramesShaped
    <3>4. Host'
      BY <1>2, <2>1, <2>4, <3>1, <3>2, <3>3, HostEnters
    <3>5. QED
      BY <2>1, <2>2, <3>4
  <2>5. CASE exit_guest_context /\ UNCHANGED <<in_interrupt, interrupt_sp>>
    BY <1>2, <2>1, <2>2, <2>5, HostLeaves
  <2>6. QED
    BY <1>15, <2>3, <2>4, <2>5 DEF branch_lr
<1>16. CASE hle_post_function
  <2>1. Guest' /\ Ring' /\ pc' = pc
    BY <1>1, <1>16, GuestSteps, RingSteps DEF hle_post_function, guest
  <2>2. CASE ReturnInto(host)
    BY <1>1, <1>2, <2>1, <2>2, HostReturns
  <2>3. CASE exit_guest_context /\ UNCHANGED <<in_interrupt, interrupt_sp>>
    BY <1>2, <2>1, <2>3, HostLeaves
  <2>4. QED
    BY <1>16, <2>2, <2>3 DEF hle_post_function
<1>17. CASE hle_bios_uninterrupt
  <2>1. Guest' /\ pc' \in Pcs
    BY <1>1, <1>17, GuestSteps DEF hle_bios_uninterrupt, Host, Guest
  <2>2. Ring'
    BY <1>1, <1>17, RingSteps DEF hle_bios_uninterrupt
  <2>3. CASE exit_guest_context /\ UNCHANGED <<in_interrupt, interrupt_sp>>
    BY <1>2, <2>1, <2>2, <2>3, HostLeaves
  <2>4. CASE in_interrupt /\ ReturnInto(SubSeq(host, 1, interrupt_sp))
    <3> DEFINE hs == SubSeq(host, 1, interrupt_sp)
    <3>1. /\ hs \in Seq(Frames) /\ Len(hs) = interrupt_sp /\ interrupt_sp \in 1 .. Len(host)
          /\ \A i \in 1 .. interrupt_sp : hs[i] = host[i]
      BY <1>2, <1>17, <2>4, Cut DEF hle_bios_uninterrupt
    <3>2. ReturnInto(hs)
      BY <2>4
    <3> HIDE DEF hs
    <3>3. Len(hs) <= Len(host)
      BY <1>2, <3>1
    <3>4. Host'
      BY <1>1, <3>1, <3>2, <3>3, HostReturns
    <3>5. QED
      BY <2>1, <2>2, <3>4
  <2>5. CASE call_jit_fun(host, pc') /\ UNCHANGED <<in_interrupt, interrupt_sp>>
    BY <1>2, <2>1, <2>2, <2>5, HostEnters DEF FramesShaped
  <2>6. QED
    BY <1>17, <2>3, <2>4, <2>5 DEF hle_bios_uninterrupt
<1>18. CASE UNCHANGED vars
  BY <1>1, <1>18 DEF vars, Guest, Host, Ring, FramesShaped, guest, ring
<1>19. QED
  BY <1>4, <1>5, <1>6, <1>7, <1>8, <1>9, <1>10, <1>11, <1>12, <1>13, <1>14, <1>15, <1>16,
     <1>17, <1>18 DEF Next

-----------------------------------------------------------------------------
(* The frame an interrupt returns to.                                      *)

\* InterruptFrameLive of a host stack.
FrameLive(sp, hs) ==
    /\ sp \in 1 .. Len(hs)
    /\ hs[sp].kind = "irq"
    /\ \A i \in sp + 1 .. Len(hs) : hs[i].kind # "irq"

\* Frames put on top of it do not hide it unless they are an interrupt's own.
LEMMA LiveBelow ==
    ASSUME NEW hs \in Seq(Frames), NEW target \in Pcs, call_jit_fun(hs, target),
           NEW sp, FrameLive(sp, hs)
    PROVE  FrameLive(sp, host')
<1>1. /\ host' \in Seq(Frames) /\ Len(host') \in {Len(hs), Len(hs) + 1}
      /\ \A i \in 1 .. Len(hs) : host'[i].kind = hs[i].kind
      /\ Len(host') = Len(hs) + 1 => host'[Len(hs) + 1].kind = "flushed"
  BY Entered
<1>2. Len(hs) \in Nat /\ sp \in 1 .. Len(hs) /\ sp \in 1 .. Len(host')
  BY <1>1 DEF FrameLive
<1>3. ASSUME NEW i \in sp + 1 .. Len(host') PROVE host'[i].kind # "irq"
  BY <1>1, <1>2, <1>3 DEF FrameLive
<1>4. QED
  BY <1>1, <1>2, <1>3 DEF FrameLive

LEMMA LiveAppended ==
    ASSUME NEW hs \in Seq(Frames), NEW f \in Frames, f.kind # "irq", NEW sp, FrameLive(sp, hs)
    PROVE  FrameLive(sp, Append(hs, f))
<1>1. /\ Len(Append(hs, f)) = Len(hs) + 1 /\ Len(hs) \in Nat
      /\ \A i \in 1 .. Len(hs) : Append(hs, f)[i] = hs[i]
      /\ Append(hs, f)[Len(hs) + 1] = f
  BY Appended
<1>2. ASSUME NEW i \in sp + 1 .. Len(hs) + 1 PROVE Append(hs, f)[i].kind # "irq"
  BY <1>1, <1>2 DEF FrameLive
<1>3. QED
  BY <1>1, <1>2 DEF FrameLive

\* A return takes a call's frame off, which is above it, or ends the interrupt.
LEMMA LiveReturned ==
    ASSUME Host, ReturnInto(host), in_interrupt => FrameLive(interrupt_sp, host)
    PROVE  InterruptFrameLive'
<1>1. host \in Seq(Frames) /\ in_interrupt \in BOOLEAN
  BY DEF Host
<1>2. CASE op' = Exited
  BY <1>2, OpTypes DEF InterruptFrameLive
<1>3. CASE /\ host # <<>> /\ Len(host) > 0 /\ host[Len(host)].kind \in {"call", "irq"}
           /\ host' = Front(host)
           /\ in_interrupt' = (in_interrupt /\ host[Len(host)].kind # "irq")
           /\ UNCHANGED interrupt_sp
  <2>1. SUFFICES ASSUME in_interrupt' PROVE FrameLive(interrupt_sp, host')
    BY <1>3 DEF InterruptFrameLive, FrameLive
  <2>2. FrameLive(interrupt_sp, host) /\ host[Len(host)].kind # "irq"
    BY <1>3, <2>1
  <2>3. Len(host') = Len(host) - 1 /\ \A i \in 1 .. Len(host) - 1 : host'[i] = host[i]
    BY <1>1, <1>3, SequenceEnds
  <2>4. Len(host) \in Nat /\ interrupt_sp \in 1 .. Len(host) - 1
    BY <1>1, <2>2 DEF FrameLive
  <2>5. QED
    BY <2>2, <2>3, <2>4 DEF FrameLive
<1>4. QED
  BY <1>1, <1>2, <1>3, Returned

LEMMA FrameLiveStep == Contexts /\ InterruptFrameLive /\ [Next]_vars => InterruptFrameLive'
<1> SUFFICES ASSUME Contexts, InterruptFrameLive, [Next]_vars PROVE InterruptFrameLive'
  OBVIOUS
<1>1. /\ Host /\ op \in Ops /\ host \in Seq(Frames) /\ pc \in Pcs
      /\ in_interrupt \in BOOLEAN /\ interrupt_sp \in Nat /\ Len(host) \in Nat
  BY ContextParts DEF Guest, Host
<1>2. ASSUME op.do # "exited", in_interrupt PROVE FrameLive(interrupt_sp, host)
  BY <1>2 DEF InterruptFrameLive, FrameLive
<1>3. ASSUME op'.do = "exited" \/ (in_interrupt' => FrameLive(interrupt_sp', host'))
      PROVE  InterruptFrameLive'
  BY <1>3 DEF InterruptFrameLive, FrameLive
<1>4. ASSUME exit_guest_context PROVE InterruptFrameLive'
  BY <1>3, <1>4, OpTypes DEF exit_guest_context
<1>5. CASE execute
  BY <1>3, <1>5 DEF execute
<1>6. ASSUME op.do # "exited", UNCHANGED <<host, in_interrupt, interrupt_sp>>
      PROVE  InterruptFrameLive'
  BY <1>2, <1>3, <1>6
<1>7. ASSUME NEW do, NEW arg, NEW c, Reaches(do, arg, c) PROVE InterruptFrameLive'
  BY <1>4, <1>6, <1>7 DEF Reaches
<1>8. CASE b \/ b_local \/ bx_lr \/ ldm_pc \/ \E r \in Returns : bl(r)
  BY <1>7, <1>8 DEF b, b_local, bx_lr, ldm_pc, bl
<1>9. CASE fs_clear_overlay_returns \/ breakout_imm
  BY <1>4, <1>9 DEF fs_clear_overlay_returns, breakout_imm
<1>10. CASE hle_function
  BY <1>6, <1>10 DEF hle_function
<1>11. CASE handle_interrupt
  <2>1. CASE TooDeep
    BY <1>4, <1>11, <2>1 DEF handle_interrupt
  <2>2. CASE ~TooDeep
    <3> DEFINE f == IrqFrame(pc, [op EXCEPT !.checked = TRUE])
               hs == Append(host, f)
    <3>1. f \in Frames /\ f.kind = "irq"
      <4>1. [op EXCEPT !.checked = TRUE] \in Ops
        BY <1>1 DEF Ops
      <4>2. QED
        BY <1>1, <4>1, FrameTypes
    <3>2. call_jit_fun(hs, Irq) /\ interrupt_sp' = Len(host) + 1
      BY <1>11, <2>2 DEF handle_interrupt
    <3> HIDE DEF f
    <3>3. hs \in Seq(Frames) /\ Len(hs) = Len(host) + 1 /\ hs[Len(host) + 1] = f
      BY <1>1, <3>1, Appended
    <3> HIDE DEF hs
    <3>4. FrameLive(interrupt_sp', hs)
      BY <1>1, <3>1, <3>2, <3>3 DEF FrameLive
    <3>5. FrameLive(interrupt_sp', host')
      BY <3>2, <3>3, <3>4, PcTypes, LiveBelow
    <3>6. QED
      BY <1>3, <3>5
  <2>3. QED
    BY <2>1, <2>2
<1>12. CASE branch_reg
  <2>1. UNCHANGED <<in_interrupt, interrupt_sp>> /\ op.do # "exited"
    BY <1>12 DEF branch_reg
  <2>2. SUFFICES ASSUME in_interrupt PROVE FrameLive(interrupt_sp, host')
    BY <1>3, <2>1
  <2>3. FrameLive(interrupt_sp, host)
    BY <1>2, <2>1, <2>2
  <2>4. CASE call_jit_fun(Append(host, CallFrame(op.arg)), pc)
    <3>1. op.arg \in Pcs \cup {Empty}
      BY <1>1 DEF Ops
    <3>2. CallFrame(op.arg) \in Frames /\ CallFrame(op.arg).kind # "irq"
      BY <3>1, FrameTypes
    <3>3. /\ Append(host, CallFrame(op.arg)) \in Seq(Frames)
          /\ FrameLive(interrupt_sp, Append(host, CallFrame(op.arg)))
      BY <1>1, <2>3, <3>2, Appended, LiveAppended
    <3>4. QED
      BY <1>1, <2>4, <3>3, LiveBelow
  <2>5. CASE call_jit_fun(host, pc)
    BY <1>1, <2>3, <2>5, LiveBelow
  <2>6. QED
    BY <1>12, <2>4, <2>5 DEF branch_reg
<1>13. CASE loop
  BY <1>4, <1>6, <1>13 DEF loop
<1>14. CASE branch_lr
  <2>1. CASE ReturnInto(host)
    BY <1>1, <1>2, <1>14, <2>1, LiveReturned DEF branch_lr
  <2>2. CASE call_jit_fun(Append(host, Leaving("replay")), pc) /\ UNCHANGED <<in_interrupt, interrupt_sp>>
    <3>1. SUFFICES ASSUME in_interrupt PROVE FrameLive(interrupt_sp, host')
      BY <1>3, <2>2
    <3>2. FrameLive(interrupt_sp, host)
      BY <1>2, <1>14, <3>1 DEF branch_lr
    <3>3. /\ Append(host, Leaving("replay")) \in Seq(Frames)
          /\ FrameLive(interrupt_sp, Append(host, Leaving("replay")))
      BY <1>1, <3>2, FrameTypes, Appended, LiveAppended
    <3>4. QED
      BY <1>1, <2>2, <3>3, LiveBelow
  <2>3. CASE exit_guest_context
    BY <1>4, <2>3
  <2>4. QED
    BY <1>14, <2>1, <2>2, <2>3 DEF branch_lr
<1>15. CASE hle_post_function
  BY <1>1, <1>2, <1>4, <1>15, LiveReturned DEF hle_post_function
<1>16. CASE hle_bios_uninterrupt
  <2>1. op.do # "exited" /\ pc' \in Pcs
    BY <1>16, ContextsStep DEF hle_bios_uninterrupt, Contexts, TypeOK
  <2>2. CASE exit_guest_context
    BY <1>4, <2>2
  <2>3. CASE in_interrupt /\ ReturnInto(SubSeq(host, 1, interrupt_sp))
    <3> DEFINE hs == SubSeq(host, 1, interrupt_sp)
    <3>1. /\ hs \in Seq(Frames) /\ Len(hs) = interrupt_sp /\ interrupt_sp \in 1 .. Len(host)
          /\ \A i \in 1 .. interrupt_sp : hs[i] = host[i]
      BY <1>1, <2>1, <2>3, Cut
    <3>2. ReturnInto(hs)
      BY <2>3
    <3> HIDE DEF hs
    <3>3. hs[Len(hs)].kind = "irq"
      BY <1>2, <2>1, <2>3, <3>1 DEF FrameLive
    <3>4. op' = Exited \/ in_interrupt' = FALSE
      BY <1>1, <3>1, <3>2, <3>3, Returned
    <3>5. QED
      BY <1>3, <3>4, OpTypes
  <2>4. CASE call_jit_fun(host, pc') /\ UNCHANGED <<in_interrupt, interrupt_sp>>
    BY <1>1, <1>2, <1>3, <2>1, <2>4, LiveBelow
  <2>5. QED
    BY <1>16, <2>2, <2>3, <2>4 DEF hle_bios_uninterrupt
<1>17. CASE UNCHANGED vars
  BY <1>17 DEF vars, InterruptFrameLive
<1>18. QED
  BY <1>5, <1>8, <1>9, <1>10, <1>11, <1>12, <1>13, <1>14, <1>15, <1>16, <1>17 DEF Next

\* The types, the guest's discipline, and that a frame goes on with the branch it
\* interrupted, together with the frame of the newest interrupt.
THEOREM ContextsSafe == Spec => [](Contexts /\ InterruptFrameLive)
<1>1. Init => Contexts /\ InterruptFrameLive
  BY ContextsInit DEF Init, InterruptFrameLive
<1>2. Contexts /\ InterruptFrameLive /\ [Next]_vars => (Contexts /\ InterruptFrameLive)'
  BY ContextsStep, FrameLiveStep
<1>3. QED
  BY <1>1, <1>2, PTL DEF Spec

\* hle_bios_uninterrupt cuts the host stack back to interrupt_sp without looking
\* what is there: for any number of threads and nested interrupts and any depth,
\* it is the frame of the newest interrupt on the stack.
THEOREM InterruptReturnsLive == Spec => []InterruptFrameLive
  BY ContextsSafe, PTL

-----------------------------------------------------------------------------
(* How many entries of the ring agree with the unlimited stack.            *)

LEMMA SlotSteps ==
    ASSUME NEW p \in Slots
    PROVE  /\ SlotBelow(Above(p), 0) = p /\ Above(p) # p
           /\ SlotBelow(Above(p), RETURN_STACK_SIZE - 1) = Above(p)
           /\ SlotBelow(p, RETURN_STACK_SIZE - 1) = p
           /\ \A k \in 0 .. RETURN_STACK_SIZE - 2 :
                 /\ SlotBelow(Above(p), k + 1) = SlotBelow(p, k)
                 /\ SlotBelow(Below(p), k) = SlotBelow(p, k + 1)
                 /\ SlotBelow(p, k) # p
                 /\ SlotBelow(p, k) = Above(p) <=> k = RETURN_STACK_SIZE - 2
<1> DEFINE R == RETURN_STACK_SIZE
<1>1. R \in Nat /\ R > 1 /\ p \in 0 .. R - 1
  BY ContextAssumption DEF Slots
<1>2. Above(p) = (IF p = R - 1 THEN 0 ELSE p + 1) /\ Below(p) = SlotBelow(p, 0)
  BY RingSlots
<1> HIDE DEF R
<1>3. \A q, k : SlotBelow(q, k) = IF k < q THEN q - 1 - k ELSE q - 1 - k + R
  BY DEF SlotBelow, R
<1>4. Below(p) = (IF p = 0 THEN R - 1 ELSE p - 1)
  BY <1>1, <1>2, <1>3
<1>5. SlotBelow(Above(p), 0) = p /\ Above(p) # p /\ SlotBelow(Above(p), R - 1) = Above(p)
      /\ SlotBelow(p, R - 1) = p
  BY <1>1, <1>2, <1>3
<1>6. ASSUME NEW k \in 0 .. R - 2
      PROVE  /\ SlotBelow(Above(p), k + 1) = SlotBelow(p, k)
             /\ SlotBelow(Below(p), k) = SlotBelow(p, k + 1)
             /\ SlotBelow(p, k) # p
             /\ SlotBelow(p, k) = Above(p) <=> k = R - 2
  BY <1>1, <1>2, <1>3, <1>4, <1>6
<1>7. QED
  BY <1>5, <1>6 DEF R

\* A push: one entry more agrees, or the ring is full and ends in a mark.
LEMMA PushAgrees ==
    ASSUME Ring, NEW v \in Pcs \cup {Empty}, push_return_stack(v), NEW d \in Slots, Agrees(d)
    PROVE  /\ d + 1 \in Slots => Agrees(d + 1)'
           /\ d + 1 \notin Slots => RingMarked'
           /\ return_stack[SlotBelow(return_stack_ptr, d)] = Empty => RingMarked'
           /\ 0 + 1 \in Slots
<1> DEFINE R == RETURN_STACK_SIZE
           p == return_stack_ptr
           At(k) == return_stack[SlotBelow(p, k)]
           New(k) == return_stack'[SlotBelow(p', k)]
<1>1. /\ R \in Nat /\ R > 1 /\ p \in Slots /\ Above(p) \in Slots /\ d \in 0 .. R - 1
      /\ \A k \in Slots : SlotBelow(p, k) \in Slots
  BY RingSlots DEF Ring, Slots
<1>2. p' = Above(p) /\ \A s \in Slots :
        return_stack'[s] = IF s = Above(p) THEN Empty ELSE IF s = p THEN v ELSE return_stack[s]
  BY <1>1 DEF push_return_stack, Ring
<1>3. /\ SlotBelow(Above(p), 0) = p /\ Above(p) # p
      /\ SlotBelow(Above(p), R - 1) = Above(p)
      /\ \A k \in 0 .. R - 2 :
            /\ SlotBelow(Above(p), k + 1) = SlotBelow(p, k)
            /\ SlotBelow(p, k) # p
            /\ SlotBelow(p, k) = Above(p) <=> k = R - 2
  BY <1>1, SlotSteps
<1>4. New(0) = v /\ New(R - 1) = Empty
  BY <1>1, <1>2, <1>3
<1>5. ASSUME NEW k \in 0 .. R - 2 PROVE k \in Slots /\ (k # R - 2 => New(k + 1) = At(k))
  BY <1>1, <1>2, <1>3, <1>5 DEF Slots
<1>6. /\ ideal \in Seq(Pcs \cup {Empty}) /\ ideal' = Append(ideal, v)
      /\ Len(ideal') = Len(ideal) + 1 /\ Len(ideal) \in Nat
      /\ ideal'[Len(ideal) + 1] = v /\ \A i \in 1 .. Len(ideal) : ideal'[i] = ideal[i]
  BY Appended DEF Ring, push_return_stack
<1>7. d <= Len(ideal) /\ \A k \in 0 .. d - 1 : At(k) = ideal[Len(ideal) - k]
  BY DEF Agrees
<1> HIDE DEF At, New, R
<1>8. ASSUME NEW n \in 1 .. R - 1, n <= d + 1
      PROVE  /\ n <= Len(ideal')
             /\ \A k \in 0 .. n - 1 : New(k) = ideal'[Len(ideal') - k]
  <2>1. n <= Len(ideal')
    BY <1>1, <1>6, <1>7, <1>8
  <2>2. ASSUME NEW k \in 0 .. n - 1 PROVE New(k) = ideal'[Len(ideal') - k]
    <3>1. CASE k = 0
      BY <1>4, <1>6, <3>1
    <3>2. CASE k > 0
      <4>1. k - 1 \in 0 .. R - 2 /\ k - 1 # R - 2 /\ (k - 1) + 1 = k /\ k - 1 \in 0 .. d - 1
        BY <1>1, <1>8, <2>2, <3>2
      <4>2. New(k) = At(k - 1) /\ At(k - 1) = ideal[Len(ideal) - (k - 1)]
        BY <1>5, <1>7, <4>1
      <4>3. Len(ideal) - (k - 1) = Len(ideal') - k /\ Len(ideal') - k \in 1 .. Len(ideal)
        BY <1>1, <1>6, <1>7, <4>1
      <4>4. QED
        BY <1>6, <4>2, <4>3
    <3>3. QED
      BY <2>2, <3>1, <3>2
  <2>3. QED
    BY <2>1, <2>2
<1>9. ASSUME NEW n \in 1 .. R - 1, n <= d + 1 PROVE Agrees(n)' /\ n \in Slots
  <2>1. n <= Len(ideal') /\ \A k \in 0 .. n - 1 : New(k) = ideal'[Len(ideal') - k]
    BY <1>8, <1>9
  <2>2. n \in Slots
    BY <1>1, <1>9 DEF R, Slots
  <2>3. QED
    BY <2>1, <2>2 DEF Agrees, New
<1>10. d + 1 \in Slots => Agrees(d + 1)'
  BY <1>1, <1>9 DEF Slots, R
<1>11. d + 1 \notin Slots => RingMarked'
  <2> SUFFICES ASSUME d + 1 \notin Slots PROVE RingMarked'
    OBVIOUS
  <2>1. R - 1 \in 1 .. R - 1 /\ R - 1 <= d + 1
    BY <1>1 DEF Slots, R
  <2>2. Agrees(R - 1)' /\ R - 1 \in Slots
    BY <1>9, <2>1
  <2>3. QED
    BY <1>4, <2>2 DEF RingMarked, New
<1>12. ASSUME At(d) = Empty PROVE RingMarked'
  <2>1. CASE d = R - 1
    BY <1>1, <1>11, <2>1 DEF Slots, R
  <2>2. CASE d # R - 1
    <3>1. d \in 0 .. R - 2 /\ d + 1 \in 1 .. R - 1
      BY <1>1, <2>2
    <3>2. New(d + 1) = Empty
      BY <1>1, <1>4, <1>5, <1>12, <3>1
    <3>3. Agrees(d + 1)' /\ d + 1 \in Slots
      BY <1>1, <1>9, <3>1
    <3>4. QED
      BY <3>2, <3>3 DEF RingMarked, New
  <2>3. QED
    BY <2>1, <2>2
<1>13. 0 + 1 \in Slots
  BY <1>1 DEF Slots, R
<1>14. QED
  BY <1>10, <1>11, <1>12, <1>13 DEF At

\* A pop: what agrees is one entry less, and what was popped is the newest.
LEMMA PopAgrees ==
    ASSUME Ring, NEW d \in Slots, Agrees(d), d > 0
    PROVE  /\ ideal # <<>> /\ Popped = Last(ideal)
           /\ pop_return_stack => d - 1 \in Slots /\ Agrees(d - 1)'
           /\ pop_return_stack /\ return_stack[SlotBelow(return_stack_ptr, d)] = Empty => RingMarked'
<1> DEFINE R == RETURN_STACK_SIZE
           p == return_stack_ptr
           At(k) == return_stack[SlotBelow(p, k)]
<1>1. R \in Nat /\ R > 1 /\ p \in Slots /\ d \in 1 .. R - 1 /\ Below(p) = SlotBelow(p, 0)
  BY RingSlots DEF Ring, Slots
<1>2. ideal \in Seq(Pcs \cup {Empty}) /\ Len(ideal) \in Nat
  BY DEF Ring
<1>3. d <= Len(ideal) /\ \A k \in 0 .. d - 1 : At(k) = ideal[Len(ideal) - k]
  BY DEF Agrees
<1>4. ideal # <<>>
  BY <1>1, <1>2, <1>3
<1>5. Popped = Last(ideal)
  BY <1>1, <1>2, <1>3 DEF Popped, Last
<1>6. ASSUME pop_return_stack PROVE d - 1 \in Slots /\ Agrees(d - 1)'
                                    /\ (At(d) = Empty => RingMarked')
  <2> DEFINE New(k) == return_stack'[SlotBelow(p', k)]
  <2>1. p' = Below(p) /\ return_stack' = return_stack /\ ideal' = Front(ideal)
    BY <1>4, <1>6 DEF pop_return_stack, IdealRest, Front
  <2>2. \A k \in 0 .. R - 2 : SlotBelow(Below(p), k) = SlotBelow(p, k + 1)
    BY <1>1, SlotSteps
  <2>3. Len(ideal') = Len(ideal) - 1 /\ \A i \in 1 .. Len(ideal) - 1 : ideal'[i] = ideal[i]
    BY <1>2, <1>4, <2>1, SequenceEnds
  <2>4. \A k \in 0 .. R - 2 : New(k) = At(k + 1)
    BY <2>1, <2>2
  <2> HIDE DEF New, At, R
  <2>5. ASSUME NEW k \in 0 .. d - 1 - 1 PROVE New(k) = ideal'[Len(ideal') - k]
    <3>1. k \in 0 .. R - 2 /\ k + 1 \in 0 .. d - 1
      BY <1>1, <2>5
    <3>2. New(k) = ideal[Len(ideal) - (k + 1)]
      BY <1>3, <2>4, <3>1
    <3>3. Len(ideal) - (k + 1) = Len(ideal') - k /\ Len(ideal') - k \in 1 .. Len(ideal) - 1
      BY <1>1, <1>2, <1>3, <2>3, <3>1
    <3>4. QED
      BY <2>3, <3>2, <3>3
  <2>6. d - 1 \in Slots /\ d - 1 <= Len(ideal')
    BY <1>1, <1>2, <1>3, <2>3 DEF Slots, R
  <2>7. Agrees(d - 1)'
    BY <2>5, <2>6 DEF Agrees, New
  <2>8. New(d - 1) = At(d)
    BY <1>1, <2>4
  <2>9. QED
    BY <2>6, <2>7, <2>8 DEF RingMarked, New
<1>7. QED
  BY <1>4, <1>5, <1>6

\* A return that is run on top of the host stack puts back what it popped.
LEMMA PushBackAgrees ==
    ASSUME Ring, pop_and_push_back, NEW d \in Slots, Agrees(d)
    PROVE  /\ Agrees(d)'
           /\ return_stack[SlotBelow(return_stack_ptr, d)] = Empty => RingMarked'
<1> DEFINE R == RETURN_STACK_SIZE
           p == return_stack_ptr
           At(k) == return_stack[SlotBelow(p, k)]
           New(k) == return_stack'[SlotBelow(p', k)]
<1>1. /\ R \in Nat /\ R > 1 /\ p \in Slots /\ d \in 0 .. R - 1
      /\ \A k \in Slots : SlotBelow(p, k) \in Slots
  BY RingSlots DEF Ring, Slots
<1>2. p' = p /\ \A s \in Slots : return_stack'[s] = IF s = p THEN Empty ELSE return_stack[s]
  BY <1>1 DEF pop_and_push_back, Ring
<1>3. SlotBelow(p, R - 1) = p /\ \A k \in 0 .. R - 2 : SlotBelow(p, k) # p
  BY <1>1, SlotSteps
<1>4. New(R - 1) = Empty /\ \A k \in 0 .. R - 2 : k \in Slots /\ New(k) = At(k)
  BY <1>1, <1>2, <1>3 DEF Slots
<1>5. d <= Len(ideal) /\ \A k \in 0 .. d - 1 : At(k) = ideal[Len(ideal) - k]
  BY DEF Agrees
<1>6. ideal \in Seq(Pcs \cup {Empty}) /\ Len(ideal) \in Nat /\ Popped \in Pcs \cup {Empty}
  BY RingSteps DEF Ring
<1>7. d > 0 => /\ Len(ideal') = Len(ideal)
               /\ \A i \in 1 .. Len(ideal) : ideal'[i] = ideal[i]
  <2> SUFFICES ASSUME d > 0 PROVE Len(ideal') = Len(ideal) /\ \A i \in 1 .. Len(ideal) : ideal'[i] = ideal[i]
    OBVIOUS
  <2>1. ideal # <<>> /\ Popped = Last(ideal)
    BY PopAgrees
  <2>2. ideal' = Append(Front(ideal), Popped)
    BY <2>1 DEF pop_and_push_back, IdealRest, Front
  <2>3. /\ Front(ideal) \in Seq(Pcs \cup {Empty}) /\ Len(Front(ideal)) = Len(ideal) - 1
        /\ \A i \in 1 .. Len(ideal) - 1 : Front(ideal)[i] = ideal[i]
        /\ Last(ideal) = ideal[Len(ideal)]
    BY <1>6, <2>1, SequenceEnds
  <2>4. /\ Len(ideal') = Len(ideal) - 1 + 1
        /\ \A i \in 1 .. Len(ideal) - 1 : ideal'[i] = Front(ideal)[i]
        /\ ideal'[Len(ideal) - 1 + 1] = Popped
    BY <1>6, <2>2, <2>3, Appended
  <2>5. QED
    BY <1>6, <2>1, <2>3, <2>4
<1>8. Len(ideal') \in Nat
  BY RingSteps DEF Ring
<1> HIDE DEF New, At, R
<1>9. ASSUME NEW k \in 0 .. d - 1 PROVE New(k) = ideal'[Len(ideal') - k]
  <2>1. k \in 0 .. R - 2 /\ d > 0 /\ Len(ideal) - k \in 1 .. Len(ideal)
    BY <1>1, <1>5, <1>6, <1>9
  <2>2. New(k) = ideal[Len(ideal) - k]
    BY <1>4, <1>5, <1>9, <2>1
  <2>3. QED
    BY <1>7, <2>1, <2>2
<1>10. d <= Len(ideal')
  BY <1>1, <1>5, <1>6, <1>7, <1>8
<1>11. Agrees(d)'
  BY <1>9, <1>10 DEF Agrees, New
<1>12. At(d) = Empty => New(d) = Empty
  BY <1>1, <1>4
<1>13. QED
  BY <1>11, <1>12 DEF RingMarked, New, At

LEMMA ClearMarks ==
    ASSUME Ring, clear_return_stack_ptr
    PROVE  RingMarked'
<1> DEFINE R == RETURN_STACK_SIZE
<1>1. R \in Nat /\ R > 1 /\ 0 \in Slots /\ R - 1 \in Slots
  BY ContextAssumption DEF Slots
<1>2. return_stack_ptr' = 0 /\ ideal' = <<>> /\ return_stack'[R - 1] = Empty
  BY <1>1 DEF clear_return_stack_ptr, Ring
<1>3. SlotBelow(0, 0) = R - 1
  BY <1>1 DEF SlotBelow
<1>4. Agrees(0)'
  <2>1. Len(ideal') = 0
    BY <1>2
  <2>2. \A k \in 0 .. 0 - 1 : FALSE
    OBVIOUS
  <2>3. QED
    BY <2>1, <2>2 DEF Agrees
<1>5. return_stack'[SlotBelow(return_stack_ptr', 0)] = Empty
  BY <1>2, <1>3
<1>6. QED
  BY <1>1, <1>4, <1>5 DEF RingMarked

-----------------------------------------------------------------------------
(* The frames that stand in for a mark.                                    *)

LEMMA WeightIs ==
    ASSUME NEW f \in Frames
    PROVE  Weight(f) \in {0, 1}
  BY DEF Weight

LEMMA BacksAppended ==
    ASSUME NEW hs \in Seq(Frames), NEW f \in Frames, NEW n \in Int, Backs(hs, n),
           n + Weight(f) <= RETURN_STACK_SIZE
    PROVE  Backs(Append(hs, f), n + Weight(f))
<1> DEFINE L == Len(hs)
           gs == Append(hs, f)
           m == n + Weight(f)
<1>1. /\ gs \in Seq(Frames) /\ Len(gs) = L + 1 /\ L \in Nat /\ gs[L + 1] = f
      /\ \A i \in 1 .. L : gs[i] = hs[i]
  BY Appended
<1>2. PICK h \in 1 .. L :
        /\ hs[h].kind = "irq" /\ Doomed(hs[h].then)
        /\ \E need \in [h .. L -> 1 .. RETURN_STACK_SIZE] :
              /\ \A i, j \in h .. L : i < j => need[j] >= need[i] + Weight(hs[j])
              /\ need[L] <= n
  BY DEF Backs
<1>3. PICK need \in [h .. L -> 1 .. RETURN_STACK_SIZE] :
              /\ \A i, j \in h .. L : i < j => need[j] >= need[i] + Weight(hs[j])
              /\ need[L] <= n
  BY <1>2
<1>4. RETURN_STACK_SIZE \in Nat /\ Weight(f) \in {0, 1} /\ \A i \in 1 .. L : Weight(hs[i]) \in {0, 1}
  BY ContextAssumption, WeightIs
<1>5. L \in h .. L /\ h \in 1 .. L + 1
  BY <1>1, <1>2
<1> HIDE DEF gs, m, L
<1>6. ASSUME NEW i \in h .. L PROVE need[i] \in Int /\ 1 <= need[i] /\ need[i] <= n
  <2>1. need[i] \in 1 .. RETURN_STACK_SIZE /\ need[L] \in 1 .. RETURN_STACK_SIZE
    BY <1>3, <1>5, <1>6
  <2>2. CASE i = L
    BY <1>3, <1>4, <2>1, <2>2
  <2>3. CASE i # L
    <3>1. i < L /\ L \in 1 .. L
      BY <1>1, <1>2, <1>6, <2>3
    <3>2. need[L] >= need[i] + Weight(hs[L]) /\ Weight(hs[L]) \in {0, 1}
      BY <1>3, <1>4, <1>5, <1>6, <3>1
    <3>3. QED
      BY <1>3, <1>4, <2>1, <3>2
  <2>4. QED
    BY <2>2, <2>3
<1>7. m \in 1 .. RETURN_STACK_SIZE /\ m = n + Weight(f)
  BY <1>4, <1>5, <1>6 DEF m
<1> DEFINE more == [i \in h .. L + 1 |-> IF i = L + 1 THEN m ELSE need[i]]
<1>8. more \in [h .. L + 1 -> 1 .. RETURN_STACK_SIZE]
  <2>1. ASSUME NEW i \in h .. L + 1, i # L + 1 PROVE i \in h .. L
    BY <1>1, <1>2, <2>1
  <2>2. QED
    BY <1>3, <1>7, <2>1
<1>9. more[L + 1] = m /\ \A i \in h .. L : more[i] = need[i]
  BY <1>1, <1>2, <1>5
<1> HIDE DEF more
<1>10. ASSUME NEW i \in h .. L + 1, NEW j \in h .. L + 1, i < j
       PROVE  more[j] >= more[i] + Weight(gs[j])
  <2>1. i \in h .. L /\ more[i] = need[i]
    BY <1>1, <1>2, <1>9, <1>10
  <2>2. CASE j = L + 1
    <3>1. more[j] = n + Weight(f) /\ gs[j] = f
      BY <1>1, <1>7, <1>9, <2>2
    <3>2. QED
      BY <1>4, <1>6, <2>1, <3>1
  <2>3. CASE j # L + 1
    <3>1. j \in h .. L /\ j \in 1 .. L
      <4>1. h \in Nat /\ h >= 1 /\ L \in Nat /\ j \in Int /\ h <= j /\ j <= L + 1
        BY <1>1, <1>2, <1>10
      <4>2. QED
        BY <2>3, <4>1
    <3>2. more[j] = need[j] /\ gs[j] = hs[j]
      BY <1>1, <1>9, <3>1
    <3>3. QED
      BY <1>3, <1>10, <2>1, <3>1, <3>2
  <2>4. QED
    BY <2>2, <2>3
<1>11. gs[h].kind = "irq" /\ Doomed(gs[h].then) /\ h \in 1 .. Len(gs)
  BY <1>1, <1>2, <1>5
<1>12. Backs(gs, m)
  <2>1. more[Len(gs)] <= m
    BY <1>1, <1>7, <1>9
  <2>2. \E need2 \in [h .. Len(gs) -> 1 .. RETURN_STACK_SIZE] :
              /\ \A i, j \in h .. Len(gs) : i < j => need2[j] >= need2[i] + Weight(gs[j])
              /\ need2[Len(gs)] <= m
    BY <1>1, <1>8, <1>10, <2>1
  <2>3. QED
    BY <1>11, <2>2 DEF Backs
<1>13. QED
  BY <1>12 DEF gs, m

\* Only kinds and continuations of frames matter.
LEMMA BacksSame ==
    ASSUME NEW hs \in Seq(Frames), NEW gs \in Seq(Frames), NEW n \in Int, Backs(hs, n),
           Len(gs) = Len(hs),
           \A i \in 1 .. Len(hs) : gs[i].kind = hs[i].kind /\ gs[i].then = hs[i].then
    PROVE  Backs(gs, n)
<1> DEFINE L == Len(hs)
<1>1. PICK h \in 1 .. L :
        /\ hs[h].kind = "irq" /\ Doomed(hs[h].then)
        /\ \E need \in [h .. L -> 1 .. RETURN_STACK_SIZE] :
              /\ \A i, j \in h .. L : i < j => need[j] >= need[i] + Weight(hs[j])
              /\ need[L] <= n
  BY DEF Backs
<1>2. PICK need \in [h .. L -> 1 .. RETURN_STACK_SIZE] :
              /\ \A i, j \in h .. L : i < j => need[j] >= need[i] + Weight(hs[j])
              /\ need[L] <= n
  BY <1>1
<1>3. \A i \in h .. L : i \in 1 .. L /\ Weight(gs[i]) = Weight(hs[i])
  BY <1>1 DEF Weight
<1>4. \A i, j \in h .. L : i < j => need[j] >= need[i] + Weight(gs[j])
  BY <1>2, <1>3
<1>5. \E need2 \in [h .. Len(gs) -> 1 .. RETURN_STACK_SIZE] :
              /\ \A i, j \in h .. Len(gs) : i < j => need2[j] >= need2[i] + Weight(gs[j])
              /\ need2[Len(gs)] <= n
  BY <1>2, <1>4
<1>6. gs[h].kind = "irq" /\ Doomed(gs[h].then) /\ h \in 1 .. Len(gs)
  BY <1>1
<1>7. QED
  BY <1>5, <1>6 DEF Backs

LEMMA BacksAtLeast ==
    ASSUME NEW hs \in Seq(Frames), NEW n \in Int, Backs(hs, n)
    PROVE  n >= 1 /\ \A m \in Int : m >= n => Backs(hs, m)
<1> DEFINE L == Len(hs)
<1>1. PICK h \in 1 .. L :
        /\ hs[h].kind = "irq" /\ Doomed(hs[h].then)
        /\ \E need \in [h .. L -> 1 .. RETURN_STACK_SIZE] :
              /\ \A i, j \in h .. L : i < j => need[j] >= need[i] + Weight(hs[j])
              /\ need[L] <= n
  BY DEF Backs
<1>2. PICK need \in [h .. L -> 1 .. RETURN_STACK_SIZE] :
              /\ \A i, j \in h .. L : i < j => need[j] >= need[i] + Weight(hs[j])
              /\ need[L] <= n
  BY <1>1
<1>3. RETURN_STACK_SIZE \in Nat /\ L \in h .. L /\ need[L] \in 1 .. RETURN_STACK_SIZE
  BY <1>1, <1>2, ContextAssumption
<1>4. n >= 1
  BY <1>2, <1>3
<1>5. ASSUME NEW m \in Int, m >= n PROVE Backs(hs, m)
  <2>1. need[L] <= m
    BY <1>2, <1>3, <1>5
  <2>2. QED
    BY <1>1, <1>2, <2>1 DEF Backs
<1>6. QED
  BY <1>4, <1>5

\* Entering code on top of hs.
LEMMA BacksEntered ==
    ASSUME NEW hs \in Seq(Frames), NEW target \in Pcs, call_jit_fun(hs, target),
           NEW n \in Int, n <= RETURN_STACK_SIZE, Backs(hs, n)
    PROVE  Backs(host', n)
<1> DEFINE L == Len(hs)
<1>1. /\ host' \in Seq(Frames) /\ Len(host') \in {L, L + 1} /\ L \in Nat
      /\ \A i \in 1 .. L : host'[i].kind = hs[i].kind /\ host'[i].then = hs[i].then
      /\ Len(host') = L + 1 => host'[L + 1].kind = "flushed"
  BY Entered
<1>2. CASE Len(host') = L
  BY <1>1, <1>2, BacksSame
<1>3. CASE Len(host') = L + 1
  <2> DEFINE f == host'[L + 1]
             gs == Append(hs, f)
  <2>1. f \in Frames /\ Weight(f) = 0
    BY <1>1, <1>3 DEF Weight
  <2> HIDE DEF f
  <2>2. /\ gs \in Seq(Frames) /\ Len(gs) = L + 1 /\ gs[L + 1] = f
        /\ \A i \in 1 .. L : gs[i] = hs[i]
    BY <2>1, Appended
  <2>3. n + Weight(f) = n
    BY <2>1
  <2>4. Backs(gs, n)
    BY <2>1, <2>3, BacksAppended
  <2> HIDE DEF gs
  <2>5. \A i \in 1 .. Len(gs) : host'[i].kind = gs[i].kind /\ host'[i].then = gs[i].then
    BY <1>1, <2>2 DEF f
  <2>6. QED
    BY <1>1, <1>3, <2>2, <2>4, <2>5, BacksSame
<1>4. QED
  BY <1>1, <1>2, <1>3

\* Returning into frame sp: it is a doomed one, or the frames below it pop less.
LEMMA BacksReturned ==
    ASSUME NEW hs \in Seq(Frames), NEW n \in Int, Backs(hs, n), NEW sp \in 1 .. Len(hs),
           \A i \in sp + 1 .. Len(hs) : hs[i].kind # "irq",
           NEW gs \in Seq(Frames), Len(gs) = sp - 1, \A i \in 1 .. sp - 1 : gs[i] = hs[i]
    PROVE  \/ hs[sp].kind = "irq" /\ Doomed(hs[sp].then)
           \/ Backs(gs, n - Weight(hs[sp]))
<1> DEFINE L == Len(hs)
           m == n - Weight(hs[sp])
<1>1. PICK h \in 1 .. L :
        /\ hs[h].kind = "irq" /\ Doomed(hs[h].then)
        /\ \E need \in [h .. L -> 1 .. RETURN_STACK_SIZE] :
              /\ \A i, j \in h .. L : i < j => need[j] >= need[i] + Weight(hs[j])
              /\ need[L] <= n
  BY DEF Backs
<1>2. PICK need \in [h .. L -> 1 .. RETURN_STACK_SIZE] :
              /\ \A i, j \in h .. L : i < j => need[j] >= need[i] + Weight(hs[j])
              /\ need[L] <= n
  BY <1>1
<1>3. /\ L \in Nat /\ RETURN_STACK_SIZE \in Nat /\ \A i \in 1 .. L : Weight(hs[i]) \in {0, 1}
      /\ \A i \in h .. L : need[i] \in 1 .. RETURN_STACK_SIZE
  <2>1. L \in Nat /\ \A i \in 1 .. L : Weight(hs[i]) \in {0, 1}
    BY WeightIs
  <2>2. RETURN_STACK_SIZE \in Nat
    BY ContextAssumption
  <2>3. \A i \in h .. L : need[i] \in 1 .. RETURN_STACK_SIZE
    BY <1>2
  <2>4. QED
    BY <2>1, <2>2, <2>3
<1>4. h <= sp
  BY <1>1, <1>3
<1>5. CASE h = sp
  BY <1>1, <1>5
<1>6. CASE h < sp
  <2>1. /\ sp \in h .. L /\ sp - 1 \in h .. L /\ L \in h .. L /\ sp \in 1 .. L
        /\ h .. sp - 1 \subseteq h .. L /\ h \in 1 .. sp - 1
    BY <1>1, <1>3, <1>6
  <2>2. need[sp] <= need[L]
    <3>1. CASE sp = L
      BY <1>3, <2>1, <3>1
    <3>2. CASE sp < L
      <4>1. need[L] >= need[sp] + Weight(hs[L])
        BY <1>2, <2>1, <3>2
      <4>2. Weight(hs[L]) \in {0, 1} /\ need[L] \in Nat /\ need[sp] \in Nat
        BY <1>3, <2>1, <3>2
      <4>3. QED
        BY <4>1, <4>2
    <3>3. QED
      BY <1>3, <3>1, <3>2
  <2>3. need[sp] >= need[sp - 1] + Weight(hs[sp])
    BY <1>2, <1>3, <2>1
  <2>4. need[sp - 1] <= m
    <3>1. /\ Weight(hs[sp]) \in {0, 1} /\ need[L] \in Nat /\ need[sp] \in Nat
          /\ need[sp - 1] \in Nat /\ need[L] <= n
      BY <1>2, <1>3, <2>1
    <3>2. QED
      BY <2>2, <2>3, <3>1
  <2> HIDE DEF m
  <2> DEFINE less == [i \in h .. sp - 1 |-> need[i]]
  <2>5. less \in [h .. Len(gs) -> 1 .. RETURN_STACK_SIZE] /\ \A i \in h .. sp - 1 : less[i] = need[i]
    BY <1>2, <2>1
  <2> HIDE DEF less
  <2>6. \A i, j \in h .. Len(gs) : i < j => less[j] >= less[i] + Weight(gs[j])
    <3>1. ASSUME NEW i \in h .. sp - 1, NEW j \in h .. sp - 1, i < j
          PROVE  less[j] >= less[i] + Weight(gs[j])
      <4>1. gs[j] = hs[j] /\ i \in h .. L /\ j \in h .. L
        BY <1>1, <1>3, <2>1, <3>1
      <4>2. QED
        BY <1>2, <2>5, <3>1, <4>1
    <3>2. QED
      BY <3>1
  <2>7. less[Len(gs)] <= m
    BY <1>3, <2>1, <2>4, <2>5
  <2>8. gs[h].kind = "irq" /\ Doomed(gs[h].then) /\ h \in 1 .. Len(gs)
    BY <1>1, <2>1
  <2>9. Backs(gs, m)
    BY <2>5, <2>6, <2>7, <2>8 DEF Backs
  <2>10. QED
    BY <2>9 DEF m
<1>7. QED
  BY <1>3, <1>4, <1>5, <1>6

\* An interrupt of a doomed return.
LEMMA BacksNew ==
    ASSUME NEW hs \in Seq(Frames), NEW f \in Frames, f.kind = "irq", Doomed(f.then)
    PROVE  Backs(Append(hs, f), 1)
<1> DEFINE gs == Append(hs, f)
           h == Len(hs) + 1
           need == [i \in h .. h |-> 1]
<1>1. Len(gs) = h /\ gs[h] = f /\ Len(hs) \in Nat
  BY Appended
<1> HIDE DEF gs
<1>2. h \in 1 .. Len(gs) /\ gs[h].kind = "irq" /\ Doomed(gs[h].then) /\ h \in Nat
  BY <1>1
<1> HIDE DEF h
<1>3. RETURN_STACK_SIZE \in Nat /\ 1 \in 1 .. RETURN_STACK_SIZE
  BY ContextAssumption
<1>4. need \in [h .. Len(gs) -> 1 .. RETURN_STACK_SIZE] /\ need[Len(gs)] <= 1
  BY <1>1, <1>2, <1>3
<1>5. \A i, j \in h .. Len(gs) : ~(i < j)
  BY <1>1, <1>2
<1>6. QED
  BY <1>2, <1>4, <1>5 DEF Backs, gs

-----------------------------------------------------------------------------
(* RingInv is an invariant.                                                *)

\* What is open when the ring is backed: the entry of a library function that is
\* returning has been popped already.
Open(o) == IF o.do = "hle" THEN 1 ELSE 0

\* A pop that found the expected address, or none, and a return into frame sp.
LEMMA RingReturned ==
    ASSUME Contexts, NEW d \in Slots, Agrees(d)',
           NEW n \in Int, Backs(host, n), n <= d + 1,
           NEW sp \in 1 .. Len(host), \A i \in sp + 1 .. Len(host) : host[i].kind # "irq",
           host[sp].kind \in {"call", "irq"}, op' = host[sp].then,
           host' \in Seq(Frames), Len(host') = sp - 1, \A i \in 1 .. sp - 1 : host'[i] = host[i]
    PROVE  Doomed(op') \/ RingBacked'
<1>1. host \in Seq(Frames) /\ FramesShaped
  BY DEF Contexts, TypeOK
<1>2. CASE host[sp].kind = "irq" /\ Doomed(host[sp].then)
  BY <1>2
<1>3. CASE Backs(host', n - Weight(host[sp]))
  <2>1. Open(op') = 1 - Weight(host[sp])
    <3>1. CASE host[sp].kind = "call"
      <4>1. op' = Run
        BY <1>1, <3>1 DEF FramesShaped
      <4>2. QED
        BY <3>1, <4>1, OpTypes DEF Weight, Open
    <3>2. CASE host[sp].kind = "irq"
      BY <3>2 DEF Weight, Open
    <3>3. QED
      BY <3>1, <3>2
  <2>2. Weight(host[sp]) \in {0, 1} /\ d \in Int
    BY <1>1, WeightIs, ContextAssumption DEF Slots
  <2>3. n - Weight(host[sp]) <= d + Open(op') /\ d + Open(op') \in Int /\ n - Weight(host[sp]) \in Int
    BY <2>1, <2>2
  <2>4. Backs(host', d + Open(op'))
    BY <1>3, <2>3, BacksAtLeast
  <2>5. QED
    BY <2>4 DEF RingBacked, Open
<1>4. QED
  BY <1>1, <1>2, <1>3, BacksReturned

\* Code entered on top of a host stack that backs the ring.
LEMMA RingEntered ==
    ASSUME NEW hs \in Seq(Frames), NEW target \in Pcs, call_jit_fun(hs, target),
           NEW d \in Slots, Agrees(d)', Backs(hs, d)
    PROVE  RingBacked'
<1>1. d \in Int /\ d <= RETURN_STACK_SIZE
  BY ContextAssumption DEF Slots
<1>2. Backs(host', d)
  BY <1>1, BacksEntered
<1>3. op'.do # "hle"
  BY Entered
<1>4. d + 0 = d
  BY <1>1
<1>5. Backs(host', d + Open(op'))
  BY <1>2, <1>3, <1>4 DEF Open
<1>6. QED
  BY <1>5 DEF RingBacked, Open

\* Whatever is popped and does not mean "nothing known" was pushed for it.
LEMMA RingPopped ==
    ASSUME Contexts, RingMarked \/ RingBacked, op.do # "hle", Popped # Empty
    PROVE  /\ ideal # <<>> /\ Popped = Last(ideal)
           /\ \/ pop_return_stack => RingMarked'
              \/ \E d \in Slots : d > 0 /\ Agrees(d) /\ Backs(host, d)
<1>1. Ring /\ host \in Seq(Frames)
  BY ContextParts DEF Host
<1>2. CASE RingMarked
  <2>1. PICK d \in Slots : Agrees(d) /\ return_stack[SlotBelow(return_stack_ptr, d)] = Empty
    BY <1>2 DEF RingMarked
  <2>2. d # 0
    BY <1>1, <2>1, RingSlots DEF Popped, Ring
  <2>3. d > 0
    BY <2>2, ContextAssumption DEF Slots
  <2>4. QED
    BY <1>1, <2>1, <2>3, PopAgrees
<1>3. CASE RingBacked
  <2>1. PICK d \in Slots : Agrees(d) /\ Backs(host, d + Open(op))
    BY <1>3 DEF RingBacked, Open
  <2>2. d \in Int /\ d + Open(op) = d
    BY ContextAssumption DEF Slots, Open
  <2>3. d > 0
    BY <1>1, <2>1, <2>2, BacksAtLeast
  <2>4. QED
    BY <1>1, <2>1, <2>2, <2>3, PopAgrees
<1>4. QED
  BY <1>2, <1>3

\* The same ring, under a handler that has popped as much.
LEMMA RingKept ==
    ASSUME RingMarked \/ RingBacked, UNCHANGED <<ring, host>>, Open(op') = Open(op)
    PROVE  RingMarked' \/ RingBacked'
<1>1. return_stack' = return_stack /\ return_stack_ptr' = return_stack_ptr /\ ideal' = ideal
      /\ host' = host
  BY DEF ring
<1>2. \A d : Agrees(d) => Agrees(d)'
  BY <1>1 DEF Agrees
<1>3. CASE RingMarked
  BY <1>1, <1>2, <1>3 DEF RingMarked
<1>4. CASE RingBacked
  <2>1. PICK d \in Slots : Agrees(d) /\ Backs(host, d + Open(op))
    BY <1>4 DEF RingBacked, Open
  <2>2. Agrees(d)' /\ Backs(host', d + Open(op'))
    BY <1>1, <1>2, <2>1
  <2>3. QED
    BY <2>2 DEF RingBacked, Open
<1>5. QED
  BY <1>3, <1>4

LEMMA RingPushed ==
    ASSUME Contexts, RingMarked \/ RingBacked, NEW v \in Pcs \cup {Empty}, push_return_stack(v),
           NEW f \in Frames, Weight(f) = 1 - Open(op),
           NEW target \in Pcs, call_jit_fun(Append(host, f), target)
    PROVE  RingMarked' \/ RingBacked'
<1>1. Ring /\ host \in Seq(Frames)
  BY ContextParts DEF Host
<1>2. CASE RingMarked
  BY <1>1, <1>2, PushAgrees DEF RingMarked
<1>3. CASE RingBacked /\ ~RingMarked'
  <2>1. PICK d \in Slots : Agrees(d) /\ Backs(host, d + Open(op))
    BY <1>3 DEF RingBacked, Open
  <2>2. d + 1 \in Slots /\ Agrees(d + 1)'
    BY <1>1, <1>3, <2>1, PushAgrees
  <2>3. /\ d \in Int /\ Open(op) \in {0, 1} /\ d + Open(op) \in Int
        /\ d + Open(op) + Weight(f) = d + 1 /\ d + 1 <= RETURN_STACK_SIZE
    BY <2>2, ContextAssumption DEF Slots, Open
  <2>4. Backs(Append(host, f), d + Open(op) + Weight(f))
    BY <1>1, <2>1, <2>3, BacksAppended
  <2>5. Append(host, f) \in Seq(Frames) /\ Backs(Append(host, f), d + 1)
    BY <1>1, <2>3, <2>4, Appended
  <2>6. QED
    BY <2>2, <2>5, RingEntered
<1>4. QED
  BY <1>2, <1>3

LEMMA RingStep == Contexts /\ InterruptFrameLive /\ RingInv /\ [Next]_vars => RingInv'
<1> SUFFICES ASSUME Contexts, InterruptFrameLive, RingInv, [Next]_vars PROVE RingInv'
  OBVIOUS
<1>1. /\ Host /\ Guest /\ Ring /\ op \in Ops /\ host \in Seq(Frames) /\ pc \in Pcs
      /\ in_interrupt \in BOOLEAN /\ Len(host) \in Nat /\ Empty \notin Pcs
  BY ContextParts, PcTypes DEF Guest, Host
<1>2. op.do = "exited" \/ Doomed(op) \/ RingMarked \/ RingBacked
  BY DEF RingInv
<1>3. SUFFICES op'.do = "exited" \/ Doomed(op') \/ RingMarked' \/ RingBacked'
  BY DEF RingInv, Doomed
<1>4. ASSUME exit_guest_context PROVE op'.do = "exited"
  BY <1>4, OpTypes DEF exit_guest_context
<1>5. ASSUME op.do # "exited", op.do # "hle" PROVE RingMarked \/ RingBacked
  BY <1>2, <1>5 DEF Doomed
<1>6. CASE execute
  BY <1>1, <1>6, ClearMarks DEF execute
<1>7. ASSUME NEW do \in Branches \ {"hle"}, NEW arg, NEW c, Reaches(do, arg, c), UNCHANGED ring
      PROVE  op'.do = "exited" \/ RingMarked' \/ RingBacked'
  <2>1. CASE c /\ TooDeep
    BY <1>4, <1>7, <2>1 DEF Reaches
  <2>2. CASE ~(c /\ TooDeep)
    <3>1. op.do = "run" /\ host' = host /\ op'.do = do
      BY <1>7, <2>2 DEF Reaches
    <3>2. RingMarked \/ RingBacked
      BY <1>5, <3>1
    <3>3. Open(op') = Open(op)
      BY <1>7, <3>1 DEF Open
    <3>4. QED
      BY <1>7, <3>1, <3>2, <3>3, RingKept
  <2>3. QED
    BY <2>1, <2>2
<1>8. CASE b \/ b_local \/ bx_lr \/ ldm_pc \/ \E r \in Returns : bl(r)
  <2>1. {"jump", "loop", "return", "any", "call"} \subseteq Branches \ {"hle"}
    BY DEF Branches
  <2>2. QED
    BY <1>7, <1>8, <2>1 DEF b, b_local, bx_lr, ldm_pc, bl, ring
<1>9. CASE fs_clear_overlay_returns \/ breakout_imm
  BY <1>4, <1>9 DEF fs_clear_overlay_returns, breakout_imm
<1>10. CASE hle_function
  <2>1. /\ op.do = "run" /\ op' = [do |-> "hle", arg |-> Popped, checked |-> FALSE]
        /\ pop_return_stack /\ host' = host
    BY <1>10 DEF hle_function
  <2>2. RingMarked \/ RingBacked
    BY <1>5, <2>1
  <2>3. CASE Popped = Empty
    BY <2>1, <2>3 DEF Doomed
  <2>4. CASE Popped # Empty /\ ~RingMarked'
    <3>1. PICK d \in Slots : d > 0 /\ Agrees(d) /\ Backs(host, d)
      BY <2>1, <2>2, <2>4, RingPopped
    <3>2. d - 1 \in Slots /\ Agrees(d - 1)'
      BY <1>1, <2>1, <3>1, PopAgrees
    <3>3. (d - 1) + Open(op') = d
      BY <2>1, ContextAssumption DEF Open, Slots
    <3>4. QED
      BY <2>1, <3>1, <3>2, <3>3 DEF RingBacked, Open
  <2>5. QED
    BY <2>3, <2>4
<1>11. CASE handle_interrupt
  <2>1. CASE TooDeep
    BY <1>4, <1>11, <2>1 DEF handle_interrupt
  <2>2. CASE ~TooDeep
    <3> DEFINE o == [op EXCEPT !.checked = TRUE]
               f == IrqFrame(pc, o)
    <3>1. o \in Ops /\ o.do = op.do /\ o.arg = op.arg /\ op.do \in Branches
      BY <1>1, <1>11 DEF Ops, handle_interrupt
    <3>2. push_return_stack(pc) /\ call_jit_fun(Append(host, f), Irq)
      BY <1>11, <2>2 DEF handle_interrupt
    <3> HIDE DEF o
    <3>3. f \in Frames /\ f.kind = "irq" /\ f.then = o
      BY <1>1, <3>1, FrameTypes
    <3> HIDE DEF f
    <3>4. Weight(f) = 1 - Open(op)
      BY <3>1, <3>3 DEF Weight, Open
    <3>5. CASE RingMarked \/ RingBacked
      BY <1>1, <3>2, <3>3, <3>4, <3>5, PcTypes, RingPushed
    <3>6. CASE Doomed(op)
      <4>1. Doomed(f.then)
        BY <3>1, <3>3, <3>6 DEF Doomed
      <4>2. Append(host, f) \in Seq(Frames) /\ Backs(Append(host, f), 1)
        BY <1>1, <3>3, <4>1, Appended, BacksNew
      <4>3. 0 \in Slots /\ Agrees(0)
        <5>1. 0 \in Slots /\ Len(ideal) \in Nat
          BY <1>1, ContextAssumption DEF Ring, Slots
        <5>2. \A k \in 0 .. 0 - 1 : FALSE
          OBVIOUS
        <5>3. QED
          BY <5>1, <5>2 DEF Agrees
      <4>4. 0 + 1 \in Slots /\ Agrees(0 + 1)'
        BY <1>1, <3>2, <4>3, PushAgrees
      <4>5. 1 \in Slots /\ Agrees(1)'
        <5>1. 0 + 1 = 1
          OBVIOUS
        <5>2. QED
          BY <4>4, <5>1
      <4>6. QED
        BY <3>2, <4>2, <4>5, PcTypes, RingEntered
    <3>7. op.do # "exited"
      BY <3>1 DEF Branches
    <3>8. QED
      BY <1>2, <3>5, <3>6, <3>7
  <2>3. QED
    BY <2>1, <2>2
<1>12. CASE branch_reg
  <2>1. CASE op.do = "call" /\ push_return_stack(op.arg)
             /\ call_jit_fun(Append(host, CallFrame(op.arg)), pc)
    <3>1. op.arg \in Pcs \cup {Empty}
      BY <1>1 DEF Ops
    <3>2. CallFrame(op.arg) \in Frames /\ CallFrame(op.arg).kind = "call"
      BY <3>1, FrameTypes
    <3>3. Weight(CallFrame(op.arg)) = 1 - Open(op)
      BY <2>1, <3>2 DEF Weight, Open
    <3>4. RingMarked \/ RingBacked
      BY <1>5, <2>1
    <3>5. QED
      BY <1>1, <2>1, <3>1, <3>2, <3>3, <3>4, RingPushed
  <2>2. CASE op.do \in {"jump", "any"} /\ call_jit_fun(host, pc) /\ UNCHANGED ring
    <3>1. RingMarked \/ RingBacked
      BY <1>5, <2>2
    <3>2. \A d : Agrees(d) => Agrees(d)'
      BY <2>2 DEF Agrees, ring
    <3>3. CASE RingMarked
      BY <2>2, <3>2, <3>3 DEF RingMarked, ring
    <3>4. CASE RingBacked
      <4>1. PICK d \in Slots : Agrees(d) /\ Backs(host, d + Open(op))
        BY <3>4 DEF RingBacked, Open
      <4>2. d + Open(op) = d
        BY <2>2, ContextAssumption DEF Slots, Open
      <4>3. QED
        BY <1>1, <2>2, <3>2, <4>1, <4>2, RingEntered
    <3>5. QED
      BY <3>1, <3>3, <3>4
  <2>3. QED
    BY <1>12, <2>1, <2>2 DEF branch_reg
<1>13. CASE loop
  <2>1. CASE exit_guest_context
    BY <1>4, <2>1
  <2>2. CASE op' = Run /\ host' = host
    <3>1. Open(op') = Open(op) /\ (RingMarked \/ RingBacked) /\ UNCHANGED ring
      BY <1>5, <1>13, <2>2, OpTypes DEF loop, Open
    <3>2. QED
      BY <2>2, <3>1, RingKept
  <2>3. QED
    BY <1>13, <2>1, <2>2 DEF loop
<1>14. ASSUME ReturnInto(host), op'.do # "exited"
       PROVE  LET sp == Len(host) IN
              /\ sp \in 1 .. Len(host) /\ \A i \in sp + 1 .. Len(host) : host[i].kind # "irq"
              /\ host[sp].kind \in {"call", "irq"} /\ op' = host[sp].then
              /\ host' \in Seq(Frames) /\ Len(host') = sp - 1
              /\ \A i \in 1 .. sp - 1 : host'[i] = host[i]
  <2>1. /\ host # <<>> /\ Len(host) > 0 /\ host[Len(host)].kind \in {"call", "irq"}
        /\ host' = Front(host) /\ op' = host[Len(host)].then
    BY <1>1, <1>14, Returned, OpTypes
  <2>2. host' \in Seq(Frames) /\ Len(host') = Len(host) - 1
        /\ \A i \in 1 .. Len(host) - 1 : host'[i] = host[i]
    BY <1>1, <2>1, SequenceEnds
  <2>3. QED
    BY <1>1, <2>1, <2>2
<1>15. CASE branch_lr
  <2>1. op.do = "return" /\ (RingMarked \/ RingBacked)
    BY <1>5, <1>15 DEF branch_lr
  <2>2. CASE Popped = pc /\ pop_return_stack /\ ReturnInto(host)
    <3>1. SUFFICES ASSUME ~RingMarked', op'.do # "exited" PROVE Doomed(op') \/ RingBacked'
      OBVIOUS
    <3>2. Popped # Empty
      BY <1>1, <2>2
    <3>3. PICK d \in Slots : d > 0 /\ Agrees(d) /\ Backs(host, d)
      BY <2>1, <2>2, <3>1, <3>2, RingPopped
    <3>4. d - 1 \in Slots /\ Agrees(d - 1)'
      BY <1>1, <2>2, <3>3, PopAgrees
    <3>5. d \in Int /\ d <= (d - 1) + 1
      BY ContextAssumption DEF Slots
    <3>6. QED
      BY <1>14, <2>2, <3>1, <3>3, <3>4, <3>5, RingReturned
  <2>3. CASE pop_and_push_back /\ call_jit_fun(Append(host, Leaving("replay")), pc)
    <3>1. CASE RingMarked
      BY <1>1, <2>3, <3>1, PushBackAgrees DEF RingMarked
    <3>2. CASE RingBacked
      <4>1. PICK d \in Slots : Agrees(d) /\ Backs(host, d + Open(op))
        BY <3>2 DEF RingBacked, Open
      <4>2. d + Open(op) = d /\ d \in Int /\ d <= RETURN_STACK_SIZE
        BY <2>1, ContextAssumption DEF Slots, Open
      <4>3. Leaving("replay") \in Frames /\ Weight(Leaving("replay")) = 0
        BY FrameTypes DEF Weight
      <4>4. d + Weight(Leaving("replay")) = d
        BY <4>2, <4>3
      <4>5. Append(host, Leaving("replay")) \in Seq(Frames) /\ Backs(Append(host, Leaving("replay")), d)
        BY <1>1, <4>1, <4>2, <4>3, <4>4, Appended, BacksAppended
      <4>6. Agrees(d)'
        BY <1>1, <2>3, <4>1, PushBackAgrees
      <4>7. QED
        BY <1>1, <2>3, <4>5, <4>6, RingEntered
    <3>3. QED
      BY <2>1, <3>1, <3>2
  <2>4. CASE exit_guest_context
    BY <1>4, <2>4
  <2>5. QED
    BY <1>15, <2>2, <2>3, <2>4 DEF branch_lr
<1>16. CASE hle_post_function
  <2>1. CASE exit_guest_context
    BY <1>4, <2>1
  <2>2. CASE op.arg = pc /\ ReturnInto(host)
    <3>1. op.do = "hle" /\ UNCHANGED ring
      BY <1>16 DEF hle_post_function
    <3>2. RingMarked \/ RingBacked
      BY <1>1, <1>2, <2>2, <3>1 DEF Doomed
    <3>3. \A d : Agrees(d) => Agrees(d)'
      BY <3>1 DEF Agrees, ring
    <3>4. CASE RingMarked
      BY <3>1, <3>3, <3>4 DEF RingMarked, ring
    <3>5. CASE RingBacked /\ op'.do # "exited"
      <4>1. PICK d \in Slots : Agrees(d) /\ Backs(host, d + Open(op))
        BY <3>5 DEF RingBacked, Open
      <4>2. d + Open(op) = d + 1 /\ d + 1 \in Int /\ d + 1 <= d + 1
        BY <3>1, ContextAssumption DEF Slots, Open
      <4>3. QED
        BY <1>14, <2>2, <3>3, <3>5, <4>1, <4>2, RingReturned
    <3>6. QED
      BY <3>2, <3>4, <3>5
  <2>3. QED
    BY <1>16, <2>1, <2>2 DEF hle_post_function
<1>17. CASE hle_bios_uninterrupt
  <2>1. op.do = "uninterrupt" /\ (RingMarked \/ RingBacked) /\ pc' \in Pcs
    BY <1>5, <1>17, ContextsStep DEF hle_bios_uninterrupt, Contexts, TypeOK
  <2>2. CASE exit_guest_context
    BY <1>4, <2>2
  <2>3. CASE clear_return_stack_ptr
    BY <1>1, <2>3, ClearMarks
  <2>4. CASE /\ in_interrupt /\ Popped = pc' /\ pop_return_stack
             /\ ReturnInto(SubSeq(host, 1, interrupt_sp))
    <3>1. SUFFICES ASSUME ~RingMarked', op'.do # "exited" PROVE Doomed(op') \/ RingBacked'
      OBVIOUS
    <3>2. Popped # Empty
      BY <1>1, <2>1, <2>4
    <3>3. PICK d \in Slots : d > 0 /\ Agrees(d) /\ Backs(host, d)
      BY <2>1, <2>4, <3>1, <3>2, RingPopped
    <3>4. d - 1 \in Slots /\ Agrees(d - 1)'
      BY <1>1, <2>4, <3>3, PopAgrees
    <3>5. d \in Int /\ d <= (d - 1) + 1
      BY ContextAssumption DEF Slots
    <3> DEFINE hs == SubSeq(host, 1, interrupt_sp)
    <3>6. /\ hs \in Seq(Frames) /\ Len(hs) = interrupt_sp /\ interrupt_sp \in 1 .. Len(host)
          /\ \A i \in 1 .. interrupt_sp : hs[i] = host[i]
      BY <1>1, <2>1, <2>4, Cut
    <3>7. ReturnInto(hs)
      BY <2>4
    <3> HIDE DEF hs
    <3>8. hs[Len(hs)] = host[interrupt_sp]
      BY <1>1, <3>6
    <3>9. /\ hs # <<>> /\ host[interrupt_sp].kind \in {"call", "irq"}
          /\ host' = Front(hs) /\ op' = host[interrupt_sp].then
      BY <1>1, <3>1, <3>6, <3>7, <3>8, Returned, OpTypes
    <3>10. /\ host' \in Seq(Frames) /\ Len(host') = interrupt_sp - 1
           /\ \A i \in 1 .. interrupt_sp - 1 : host'[i] = host[i]
      <4>1. /\ host' \in Seq(Frames) /\ Len(host') = interrupt_sp - 1
            /\ \A i \in 1 .. interrupt_sp - 1 : host'[i] = hs[i]
        BY <3>6, <3>9, SequenceEnds
      <4>2. QED
        BY <1>1, <3>6, <4>1
    <3>11. \A i \in interrupt_sp + 1 .. Len(host) : host[i].kind # "irq"
      BY <2>1, <2>4 DEF InterruptFrameLive
    <3>12. QED
      BY <3>3, <3>4, <3>5, <3>6, <3>9, <3>10, <3>11, RingReturned
  <2>5. QED
    BY <1>17, <2>2, <2>3, <2>4 DEF hle_bios_uninterrupt
<1>18. CASE UNCHANGED vars
  <2>1. op' = op /\ UNCHANGED <<ring, host>>
    BY <1>18 DEF vars
  <2>2. QED
    BY <1>2, <2>1, RingKept
<1>19. QED
  BY <1>6, <1>8, <1>9, <1>10, <1>11, <1>12, <1>13, <1>15, <1>16, <1>17, <1>18 DEF Next

\* For a ring of any size, a return address that the code pops and acts on is the
\* one that a stack without limit would give, although pushes wrap around, pops
\* go below the bottom, and an interrupt may come after a pop of the mark.
THEOREM ReturnsNeverMadeUp == Spec => []ReturnStackSound
<1>1. Init => RingInv
  BY OpTypes DEF Init, RingInv
<1>2. Contexts /\ InterruptFrameLive /\ RingInv => ReturnStackSound
  <2> SUFFICES ASSUME Contexts, RingInv, op.do \in {"run", "return", "uninterrupt"}, Popped # Empty
               PROVE  ideal # <<>> /\ Popped = Last(ideal)
    BY DEF ReturnStackSound
  <2>1. RingMarked \/ RingBacked
    BY DEF RingInv, Doomed
  <2>2. QED
    BY <2>1, RingPopped
<1>3. QED
  BY <1>1, <1>2, ContextsSafe, RingStep, PTL DEF Spec

-----------------------------------------------------------------------------
(* The host stack and the entries of the ring.                             *)

\* A set of naturals that has a member and a bound has a greatest member.
LEMMA Greatest ==
    ASSUME NEW n \in Nat, NEW T \in SUBSET (1 .. n), T # {}
    PROVE  \E x \in T : \A y \in T : y <= x
<1> DEFINE D == {d \in Nat : n - d \in T}
<1>1. D \subseteq Nat /\ D # {}
  <2>1. PICK x \in T : TRUE
    OBVIOUS
  <2>2. n - x \in Nat /\ n - (n - x) = x
    OBVIOUS
  <2>3. n - x \in D
    BY <2>1, <2>2
  <2>4. QED
    BY <2>3
<1> DEFINE R == OpToRel(<, Nat)
<1>2. IsWellFoundedOn(R, Nat)
  BY NatLessThanWellFounded
<1>3. \A x, y \in Nat : x < y => <<x, y>> \in R
  BY DEF OpToRel
<1> HIDE DEF R
<1>4. PICK d \in D : \A y \in D : ~(<<y, d>> \in R)
  BY <1>1, <1>2, WFMin
<1>5. \A y \in D : d <= y
  <2> SUFFICES ASSUME NEW y \in D PROVE d <= y
    OBVIOUS
  <2>1. d \in Nat /\ y \in Nat
    BY <1>1
  <2>2. ~(y < d)
    BY <1>3, <1>4, <2>1
  <2>3. QED
    BY <2>1, <2>2
<1>6. n - d \in T /\ d \in Nat
  OBVIOUS
<1>7. ASSUME NEW y \in T PROVE y <= n - d
  <2>1. n - y \in Nat /\ n - (n - y) = y
    OBVIOUS
  <2>2. n - y \in D /\ n - y \in Nat
    BY <2>1
  <2> HIDE DEF D
  <2>3. d <= n - y
    BY <1>5, <2>2
  <2>4. QED
    BY <1>6, <2>2, <2>3
<1>8. QED
  BY <1>6, <1>7

LEMMA Between ==
    ASSUME NEW n \in Nat, NEW i \in 1 .. n, NEW j \in i + 1 .. n + 1, j # n + 1
    PROVE  j \in i + 1 .. n /\ j \in 1 .. n
  OBVIOUS

LEMMA PopsIs == \A o : Pops(o) \in {0, 1} /\ (o.do = "hle" => Pops(o) = 0) /\ (o.do # "hle" => Pops(o) = 1)
  BY DEF Pops

\* A host stack on top of which is a frame that leaves the guest context.
LEMMA AlignedShielded ==
    ASSUME NEW hs, NEW n \in Nat, n > 0 => hs[n].kind \notin {"call", "irq"},
           NEW o, NEW il, NEW len \in Nat
    PROVE  Aligned(hs, n, o, il, len)
<1> DEFINE at == [i \in 1 .. n |-> 0]
<1>1. at \in [1 .. n -> 0 .. len]
  OBVIOUS
<1>2. ASSUME NEW i \in 1 .. n PROVE ~Unshielded(hs, i, n)
  BY <1>2 DEF Unshielded
<1> HIDE DEF at
<1>3. QED
  BY <1>1, <1>2, Zenon DEF Aligned

\* What is aligned about frame i.
AlignedAt(hs, n, o, il, len, at, i) ==
    /\ i = n => at[i] = len
    /\ i < n => at[i] = IF at[i + 1] = 0 THEN 0
                        ELSE at[i + 1] - Pops(After(hs, i + 1, n, o))
    /\ \A j \in i + 1 .. n : at[i] = 0 \/ at[i] <= at[j] - Pops(After(hs, j, n, o))
    /\ IF Pops(After(hs, i, n, o)) = 0
       THEN After(hs, i, n, o).arg \in {hs[i].ret, Empty}
       ELSE at[i] > 0 => il[at[i]] \in {hs[i].ret, Empty}

LEMMA AlignedIs ==
    ASSUME NEW hs, NEW n, NEW o, NEW il, NEW len
    PROVE  Aligned(hs, n, o, il, len) <=>
             \E at \in [1 .. n -> 0 .. len] :
                 \A i \in 1 .. n : Unshielded(hs, i, n) => AlignedAt(hs, n, o, il, len, at, i)
  BY Zenon DEF Aligned, AlignedAt

\* Nothing that Aligned looks at has changed.
LEMMA AlignedSame ==
    ASSUME NEW n \in Nat, NEW hs, NEW hs2,
           \A i \in 1 .. n : /\ hs2[i].kind = hs[i].kind /\ hs2[i].ret = hs[i].ret
                             /\ hs2[i].then = hs[i].then,
           NEW o, NEW o2, Pops(o2) = Pops(o), Pops(o) = 0 => o2.arg = o.arg,
           NEW il, NEW il2, NEW len \in Nat, \A k \in 1 .. len : il2[k] = il[k],
           Aligned(hs, n, o, il, len)
    PROVE  Aligned(hs2, n, o2, il2, len)
<1>1. PICK at \in [1 .. n -> 0 .. len] :
          \A i \in 1 .. n : Unshielded(hs, i, n) => AlignedAt(hs, n, o, il, len, at, i)
  BY AlignedIs
<1>2. ASSUME NEW i \in 1 .. n
      PROVE  /\ Pops(After(hs2, i, n, o2)) = Pops(After(hs, i, n, o))
             /\ Pops(After(hs, i, n, o)) = 0 => After(hs2, i, n, o2).arg = After(hs, i, n, o).arg
  BY DEF After
<1>3. ASSUME NEW i \in 1 .. n, Unshielded(hs2, i, n)
      PROVE  AlignedAt(hs2, n, o2, il2, len, at, i)
  <2>1. Unshielded(hs, i, n)
    BY <1>3 DEF Unshielded
  <2>2. AlignedAt(hs, n, o, il, len, at, i)
    BY <1>1, <2>1
  <2>3. at[i] > 0 => il2[at[i]] = il[at[i]]
    BY <1>1
  <2>4. i < n => Pops(After(hs2, i + 1, n, o2)) = Pops(After(hs, i + 1, n, o))
    BY <1>2
  <2>5. \A j \in i + 1 .. n : Pops(After(hs2, j, n, o2)) = Pops(After(hs, j, n, o))
    BY <1>2
  <2>6. hs2[i].ret = hs[i].ret
    OBVIOUS
  <2>7. QED
    BY <1>2, <2>2, <2>3, <2>4, <2>5, <2>6 DEF AlignedAt
<1>4. QED
  BY <1>1, <1>3, AlignedIs

\* A frame and its entry are pushed, for a branch that has popped as much as o.
LEMMA AlignedPushed ==
    ASSUME NEW n \in Nat, NEW hs, NEW hs2,
           \A i \in 1 .. n : /\ hs2[i].kind = hs[i].kind /\ hs2[i].ret = hs[i].ret
                             /\ hs2[i].then = hs[i].then,
           NEW o, Pops(hs2[n + 1].then) = Pops(o), Pops(o) = 0 => hs2[n + 1].then.arg = o.arg,
           NEW o2, Pops(o2) = 1,
           NEW il, NEW il2, NEW len \in Nat, \A k \in 1 .. len : il2[k] = il[k],
           il2[len + 1] = hs2[n + 1].ret,
           Aligned(hs, n, o, il, len)
    PROVE  Aligned(hs2, n + 1, o2, il2, len + 1)
<1>1. PICK at \in [1 .. n -> 0 .. len] :
          \A i \in 1 .. n : Unshielded(hs, i, n) => AlignedAt(hs, n, o, il, len, at, i)
  BY AlignedIs
<1> DEFINE at2 == [i \in 1 .. n + 1 |-> IF i = n + 1 THEN len + 1 ELSE at[i]]
<1>2. /\ at2 \in [1 .. n + 1 -> 0 .. len + 1] /\ at2[n + 1] = len + 1
      /\ \A i \in 1 .. n : at2[i] = at[i]
  BY <1>1
<1> HIDE DEF at2
<1>3. ASSUME NEW i \in 1 .. n
      PROVE  /\ Pops(After(hs2, i, n + 1, o2)) = Pops(After(hs, i, n, o))
             /\ Pops(After(hs, i, n, o)) = 0 => After(hs2, i, n + 1, o2).arg = After(hs, i, n, o).arg
  <2>1. CASE i = n
    BY <2>1 DEF After
  <2>2. CASE i < n
    BY <2>2 DEF After
  <2>3. QED
    BY <2>1, <2>2
<1>4. After(hs2, n + 1, n + 1, o2) = o2
  BY DEF After
<1>5. ASSUME NEW i \in 1 .. n, Unshielded(hs2, i, n + 1)
      PROVE  AlignedAt(hs2, n + 1, o2, il2, len + 1, at2, i)
  <2>1. Unshielded(hs, i, n)
    <3>1. \A j \in i .. n : j \in i .. n + 1 /\ j \in 1 .. n
      OBVIOUS
    <3>2. QED
      BY <1>5, <3>1 DEF Unshielded
  <2>2. AlignedAt(hs, n, o, il, len, at, i)
    BY <1>1, <2>1
  <2>3. at2[i] = at[i] /\ at[i] \in 0 .. len /\ (at[i] > 0 => il2[at[i]] = il[at[i]])
    BY <1>1, <1>2
  <2>4. at2[i] = IF at2[i + 1] = 0 THEN 0 ELSE at2[i + 1] - Pops(After(hs2, i + 1, n + 1, o2))
    <3>1. CASE i = n
      BY <1>2, <1>4, <2>2, <2>3, <3>1 DEF AlignedAt
    <3>2. CASE i < n
      <4>1. i + 1 \in 1 .. n
        BY <3>2
      <4>2. at2[i + 1] = at[i + 1] /\ Pops(After(hs2, i + 1, n + 1, o2)) = Pops(After(hs, i + 1, n, o))
        BY <1>2, <1>3, <4>1
      <4>3. QED
        BY <2>2, <2>3, <3>2, <4>2 DEF AlignedAt
    <3>3. QED
      BY <3>1, <3>2
  <2>5. ASSUME NEW j \in i + 1 .. n + 1
        PROVE  at2[i] = 0 \/ at2[i] <= at2[j] - Pops(After(hs2, j, n + 1, o2))
    <3>1. CASE j = n + 1
      BY <1>2, <1>4, <2>3, <3>1
    <3>2. CASE j # n + 1
      <4>1. j \in i + 1 .. n /\ j \in 1 .. n
        BY <3>2, Between
      <4>2. at2[j] = at[j] /\ Pops(After(hs2, j, n + 1, o2)) = Pops(After(hs, j, n, o))
        BY <1>2, <1>3, <4>1
      <4>3. at[i] = 0 \/ at[i] <= at[j] - Pops(After(hs, j, n, o))
        BY <2>2, <4>1, Zenon DEF AlignedAt
      <4>4. QED
        BY <2>3, <4>2, <4>3
    <3>3. QED
      BY <3>1, <3>2
  <2>6. IF Pops(After(hs2, i, n + 1, o2)) = 0
        THEN After(hs2, i, n + 1, o2).arg \in {hs2[i].ret, Empty}
        ELSE at2[i] > 0 => il2[at2[i]] \in {hs2[i].ret, Empty}
    <3>1. hs2[i].ret = hs[i].ret
      OBVIOUS
    <3>2. QED
      BY <1>3, <2>2, <2>3, <3>1 DEF AlignedAt
  <2>7. i # n + 1
    OBVIOUS
  <2>8. QED
    BY <2>4, <2>5, <2>6, <2>7 DEF AlignedAt
<1>6. AlignedAt(hs2, n + 1, o2, il2, len + 1, at2, n + 1)
  BY <1>2, <1>4 DEF AlignedAt
<1>7. QED
  BY <1>2, <1>5, <1>6, AlignedIs

\* The newest frame goes on, after what o pops: where o or the ring said.
LEMMA AlignedReturned ==
    ASSUME NEW n \in Nat, n > 0, NEW hs, hs[n].kind \in {"call", "irq"}, NEW o,
           NEW il, NEW len \in Nat, Aligned(hs, n, o, il, len)
    PROVE  /\ Aligned(hs, n - 1, hs[n].then, il, IF len = 0 THEN 0 ELSE len - Pops(o))
           /\ IF Pops(o) = 0 THEN o.arg \in {hs[n].ret, Empty}
              ELSE len > 0 => il[len] \in {hs[n].ret, Empty}
<1> DEFINE m == IF len = 0 THEN 0 ELSE len - Pops(o)
<1>1. PICK at \in [1 .. n -> 0 .. len] :
          \A i \in 1 .. n : Unshielded(hs, i, n) => AlignedAt(hs, n, o, il, len, at, i)
  BY AlignedIs
<1>2. After(hs, n, n, o) = o /\ Pops(o) \in {0, 1}
  BY PopsIs DEF After
<1>3. m \in Nat
  BY <1>2
<1>4. n \in 1 .. n /\ Unshielded(hs, n, n)
  BY DEF Unshielded
<1>5. AlignedAt(hs, n, o, il, len, at, n)
  BY <1>1, <1>4
<1>6. at[n] = len
  BY <1>5 DEF AlignedAt
<1>7. ASSUME NEW i \in 1 .. n - 1, Unshielded(hs, i, n - 1)
      PROVE  Unshielded(hs, i, n) /\ AlignedAt(hs, n, o, il, len, at, i)
  <2>1. i \in 1 .. n
    OBVIOUS
  <2>2. Unshielded(hs, i, n)
    BY <1>7 DEF Unshielded
  <2>3. QED
    BY <1>1, <2>1, <2>2
<1> DEFINE at2 == [i \in 1 .. n - 1 |-> IF Unshielded(hs, i, n - 1) THEN at[i] ELSE 0]
<1>8. \A i \in 1 .. n - 1 : Unshielded(hs, i, n - 1) => at[i] \in 0 .. m
  <2> SUFFICES ASSUME NEW i \in 1 .. n - 1, Unshielded(hs, i, n - 1) PROVE at[i] \in 0 .. m
    OBVIOUS
  <2>1. at[i] = 0 \/ at[i] <= at[n] - Pops(After(hs, n, n, o))
    <3>1. n \in i + 1 .. n
      OBVIOUS
    <3>2. QED
      BY <1>7, <3>1, Zenon DEF AlignedAt
  <2>2. at[i] \in 0 .. len
    OBVIOUS
  <2>3. QED
    BY <1>2, <1>6, <2>1, <2>2
<1> HIDE DEF m
<1>9. at2 \in [1 .. n - 1 -> 0 .. m]
  <2>1. 0 \in 0 .. m
    BY <1>3
  <2>2. QED
    BY <1>8, <2>1
<1>10. \A i \in 1 .. n - 1 : Unshielded(hs, i, n - 1) => at2[i] = at[i]
  OBVIOUS
<1> HIDE DEF at2
<1>11. \A i \in 1 .. n - 1 : After(hs, i, n - 1, hs[n].then) = After(hs, i, n, o)
  <2> SUFFICES ASSUME NEW i \in 1 .. n - 1
               PROVE  After(hs, i, n - 1, hs[n].then) = After(hs, i, n, o)
    OBVIOUS
  <2>1. CASE i = n - 1
    <3>1. i + 1 = n /\ i # n
      BY <2>1
    <3>2. QED
      BY <2>1, <3>1 DEF After
  <2>2. CASE i # n - 1
    <3>1. i # n
      OBVIOUS
    <3>2. QED
      BY <2>2, <3>1 DEF After
  <2>3. QED
    BY <2>1, <2>2
<1>12. ASSUME NEW i \in 1 .. n - 1, Unshielded(hs, i, n - 1)
       PROVE  AlignedAt(hs, n - 1, hs[n].then, il, m, at2, i)
  <2>1. AlignedAt(hs, n, o, il, len, at, i) /\ at2[i] = at[i]
    BY <1>7, <1>10, <1>12
  <2>2. i < n /\ i \in Int /\ at[i] \in 0 .. len
    OBVIOUS
  <2>3. at[i] = IF at[i + 1] = 0 THEN 0 ELSE at[i + 1] - Pops(After(hs, i + 1, n, o))
    BY <2>1, <2>2 DEF AlignedAt
  <2>4. \A j \in i + 1 .. n - 1 : j \in 1 .. n - 1 /\ j \in i + 1 .. n /\ at2[j] = at[j]
    <3> SUFFICES ASSUME NEW j \in i + 1 .. n - 1
                 PROVE  j \in 1 .. n - 1 /\ j \in i + 1 .. n /\ at2[j] = at[j]
      OBVIOUS
    <3>1. j \in 1 .. n - 1 /\ j \in i + 1 .. n
      OBVIOUS
    <3>2. Unshielded(hs, j, n - 1)
      BY <1>12 DEF Unshielded
    <3>3. QED
      BY <1>10, <3>1, <3>2
  <2>5. i = n - 1 => at2[i] = m
    <3>1. SUFFICES ASSUME i = n - 1 PROVE at[i] = m
      BY <2>1
    <3>2. i + 1 = n
      BY <3>1
    <3>3. QED
      BY <1>2, <1>6, <2>3, <3>2 DEF m
  <2>6. i < n - 1 => at2[i] = IF at2[i + 1] = 0 THEN 0
                              ELSE at2[i + 1] - Pops(After(hs, i + 1, n - 1, hs[n].then))
    <3>1. SUFFICES ASSUME i < n - 1
                   PROVE  at2[i] = IF at2[i + 1] = 0 THEN 0
                              ELSE at2[i + 1] - Pops(After(hs, i + 1, n - 1, hs[n].then))
      OBVIOUS
    <3>2. i + 1 \in i + 1 .. n - 1
      BY <3>1
    <3>3. at2[i + 1] = at[i + 1] /\ After(hs, i + 1, n - 1, hs[n].then) = After(hs, i + 1, n, o)
      BY <1>11, <2>4, <3>2
    <3>4. QED
      BY <2>1, <2>3, <3>3
  <2>7. ASSUME NEW j \in i + 1 .. n - 1
        PROVE  at2[i] = 0 \/ at2[i] <= at2[j] - Pops(After(hs, j, n - 1, hs[n].then))
    <3>1. j \in 1 .. n - 1 /\ j \in i + 1 .. n /\ at2[j] = at[j]
      BY <2>4
    <3>2. After(hs, j, n - 1, hs[n].then) = After(hs, j, n, o)
      BY <1>11, <3>1
    <3>3. at[i] = 0 \/ at[i] <= at[j] - Pops(After(hs, j, n, o))
      BY <2>1, <3>1, Zenon DEF AlignedAt
    <3>4. QED
      BY <2>1, <3>1, <3>2, <3>3
  <2>8. IF Pops(After(hs, i, n, o)) = 0
        THEN After(hs, i, n, o).arg \in {hs[i].ret, Empty}
        ELSE at[i] > 0 => il[at[i]] \in {hs[i].ret, Empty}
    BY <2>1, Zenon DEF AlignedAt
  <2>9. QED
    BY <1>11, <2>1, <2>5, <2>6, <2>7, <2>8 DEF AlignedAt
<1>13. Aligned(hs, n - 1, hs[n].then, il, m)
  BY <1>9, <1>12, AlignedIs
<1>14. IF Pops(o) = 0 THEN o.arg \in {hs[n].ret, Empty}
       ELSE len > 0 => il[len] \in {hs[n].ret, Empty}
  BY <1>2, <1>5, <1>6, Zenon DEF AlignedAt
<1>15. QED
  BY <1>13, <1>14 DEF m

\* A library function pops its entry: it keeps the address, or nothing is known.
LEMMA AlignedPopped ==
    ASSUME NEW n \in Nat, NEW hs, NEW o, Pops(o) = 1, NEW o2, Pops(o2) = 0,
           NEW il, NEW il2, NEW len \in Nat, Aligned(hs, n, o, il, len),
           o2.arg = Empty \/ (len > 0 /\ o2.arg = il[len]),
           NEW m \in Nat, m = (IF len = 0 THEN 0 ELSE len - 1), \A k \in 1 .. m : il2[k] = il[k]
    PROVE  Aligned(hs, n, o2, il2, m)
<1>1. PICK at \in [1 .. n -> 0 .. len] :
          \A i \in 1 .. n : Unshielded(hs, i, n) => AlignedAt(hs, n, o, il, len, at, i)
  BY AlignedIs
<1>2. After(hs, n, n, o) = o /\ After(hs, n, n, o2) = o2
  BY DEF After
<1>3. \A i \in 1 .. n : i # n => After(hs, i, n, o2) = After(hs, i, n, o)
  BY DEF After
<1> DEFINE at2 == [i \in 1 .. n |-> IF i = n THEN m
                                    ELSE IF Unshielded(hs, i, n) THEN at[i] ELSE 0]
<1>4. \A i \in 1 .. n : i # n /\ Unshielded(hs, i, n) => at[i] \in 0 .. m
  <2> SUFFICES ASSUME NEW i \in 1 .. n, i # n, Unshielded(hs, i, n) PROVE at[i] \in 0 .. m
    OBVIOUS
  <2>1. AlignedAt(hs, n, o, il, len, at, i)
    BY <1>1
  <2>2. n \in i + 1 .. n /\ n \in 1 .. n /\ Unshielded(hs, n, n)
    BY DEF Unshielded
  <2>3. AlignedAt(hs, n, o, il, len, at, n)
    BY <1>1, <2>2
  <2>4. at[n] = len
    BY <2>3 DEF AlignedAt
  <2>5. at[i] = 0 \/ at[i] <= at[n] - Pops(After(hs, n, n, o))
    BY <2>1, <2>2, Zenon DEF AlignedAt
  <2>6. at[i] \in 0 .. len
    OBVIOUS
  <2>7. QED
    BY <1>2, <2>4, <2>5, <2>6
<1>5. at2 \in [1 .. n -> 0 .. m]
  <2>1. 0 \in 0 .. m /\ m \in 0 .. m
    OBVIOUS
  <2>2. QED
    BY <1>4, <2>1
<1>6. \A i \in 1 .. n : /\ i # n /\ Unshielded(hs, i, n) => at2[i] = at[i]
                        /\ i = n => at2[i] = m
  OBVIOUS
<1> HIDE DEF at2
<1>7. ASSUME NEW i \in 1 .. n, Unshielded(hs, i, n), i # n
      PROVE  AlignedAt(hs, n, o2, il2, m, at2, i)
  <2>1. AlignedAt(hs, n, o, il, len, at, i)
    BY <1>1, <1>7
  <2>2. at2[i] = at[i] /\ at[i] \in 0 .. m /\ i < n
    BY <1>4, <1>6, <1>7
  <2>3. n \in i + 1 .. n /\ n \in 1 .. n /\ Unshielded(hs, n, n)
    BY <1>7 DEF Unshielded
  <2>4. AlignedAt(hs, n, o, il, len, at, n)
    BY <1>1, <2>3
  <2>5. at[n] = len /\ at2[n] = m
    BY <1>6, <2>3, <2>4 DEF AlignedAt
  <2>6. \A j \in i + 1 .. n : j # n => at2[j] = at[j] /\ After(hs, j, n, o2) = After(hs, j, n, o)
    <3> SUFFICES ASSUME NEW j \in i + 1 .. n, j # n
                 PROVE  at2[j] = at[j] /\ After(hs, j, n, o2) = After(hs, j, n, o)
      OBVIOUS
    <3>1. j \in 1 .. n /\ Unshielded(hs, j, n)
      BY <1>7 DEF Unshielded
    <3>2. QED
      BY <1>3, <1>6, <3>1
  <2>7. at[i] = IF at[i + 1] = 0 THEN 0 ELSE at[i + 1] - Pops(After(hs, i + 1, n, o))
    BY <2>1, <2>2 DEF AlignedAt
  <2>8. at2[i] = IF at2[i + 1] = 0 THEN 0 ELSE at2[i + 1] - Pops(After(hs, i + 1, n, o2))
    <3>1. CASE i + 1 = n
      <4>1. at[i] = IF len = 0 THEN 0 ELSE len - 1
        BY <1>2, <2>5, <2>7, <3>1
      <4>2. at2[i + 1] = m /\ Pops(After(hs, i + 1, n, o2)) = 0
        BY <1>2, <2>5, <3>1
      <4>3. QED
        BY <2>2, <4>1, <4>2
    <3>2. CASE i + 1 # n
      <4>1. i + 1 \in i + 1 .. n
        BY <2>2
      <4>2. at2[i + 1] = at[i + 1] /\ After(hs, i + 1, n, o2) = After(hs, i + 1, n, o)
        BY <2>6, <3>2, <4>1
      <4>3. QED
        BY <2>2, <2>7, <4>2
    <3>3. QED
      BY <3>1, <3>2
  <2>9. ASSUME NEW j \in i + 1 .. n
        PROVE  at2[i] = 0 \/ at2[i] <= at2[j] - Pops(After(hs, j, n, o2))
    <3>1. CASE j = n
      BY <1>2, <2>2, <2>5, <3>1
    <3>2. CASE j # n
      <4>1. at2[j] = at[j] /\ After(hs, j, n, o2) = After(hs, j, n, o)
        BY <2>6, <3>2
      <4>2. at[i] = 0 \/ at[i] <= at[j] - Pops(After(hs, j, n, o))
        BY <2>1, Zenon DEF AlignedAt
      <4>3. QED
        BY <2>2, <4>1, <4>2
    <3>3. QED
      BY <3>1, <3>2
  <2>10. IF Pops(After(hs, i, n, o)) = 0
         THEN After(hs, i, n, o).arg \in {hs[i].ret, Empty}
         ELSE at[i] > 0 => il[at[i]] \in {hs[i].ret, Empty}
    BY <2>1, Zenon DEF AlignedAt
  <2>11. After(hs, i, n, o2) = After(hs, i, n, o) /\ (at[i] > 0 => il2[at[i]] = il[at[i]])
    BY <1>3, <1>7, <2>2
  <2>12. QED
    BY <1>7, <2>2, <2>8, <2>9, <2>10, <2>11 DEF AlignedAt
<1>8. ASSUME n \in 1 .. n, Unshielded(hs, n, n)
      PROVE  AlignedAt(hs, n, o2, il2, m, at2, n)
  <2>1. AlignedAt(hs, n, o, il, len, at, n)
    BY <1>1, <1>8
  <2>2. at[n] = len /\ at2[n] = m
    BY <1>6, <1>8, <2>1 DEF AlignedAt
  <2>3. at[n] > 0 => il[at[n]] \in {hs[n].ret, Empty}
    BY <1>2, <2>1 DEF AlignedAt
  <2>4. o2.arg \in {hs[n].ret, Empty}
    BY <2>2, <2>3
  <2>5. QED
    BY <1>2, <2>2, <2>4 DEF AlignedAt
<1>9. QED
  BY <1>5, <1>7, <1>8, AlignedIs

\* The ring is emptied.
LEMMA AlignedDry ==
    ASSUME NEW n \in Nat, NEW hs, NEW o, NEW o2, Pops(o2) = 1,
           NEW il, NEW il2, NEW len \in Nat, Aligned(hs, n, o, il, len)
    PROVE  Aligned(hs, n, o2, il2, 0)
<1>1. PICK at \in [1 .. n -> 0 .. len] :
          \A i \in 1 .. n : Unshielded(hs, i, n) => AlignedAt(hs, n, o, il, len, at, i)
  BY AlignedIs
<1> DEFINE at2 == [i \in 1 .. n |-> 0]
<1>2. at2 \in [1 .. n -> 0 .. 0] /\ \A i \in 1 .. n : at2[i] = 0
  OBVIOUS
<1> HIDE DEF at2
<1>3. ASSUME NEW i \in 1 .. n, Unshielded(hs, i, n)
      PROVE  AlignedAt(hs, n, o2, il2, 0, at2, i)
  <2>1. AlignedAt(hs, n, o, il, len, at, i)
    BY <1>1, <1>3
  <2>2. Pops(After(hs, i, n, o2)) = 0 => After(hs, i, n, o2).arg \in {hs[i].ret, Empty}
    <3>1. CASE i = n
      BY <3>1 DEF After
    <3>2. CASE i # n
      <4>1. After(hs, i, n, o2) = After(hs, i, n, o)
        BY <3>2 DEF After
      <4>2. QED
        BY <2>1, <4>1 DEF AlignedAt
    <3>3. QED
      BY <3>1, <3>2
  <2>3. i < n => at2[i + 1] = 0
    BY <1>2
  <2>4. QED
    BY <1>2, <2>2, <2>3 DEF AlignedAt
<1>4. QED
  BY <1>2, <1>3, AlignedIs

-----------------------------------------------------------------------------
(* The handler the host may return from.                                   *)

Alike(hs, hs2, n) ==
    \A i \in 1 .. n : /\ hs2[i].kind = hs[i].kind /\ hs2[i].ret = hs[i].ret
                      /\ hs2[i].then = hs[i].then

\* The entry of the interrupt may be lost, but not become another one.
LEMMA ReturnableKept ==
    ASSUME NEW sp \in Nat, sp > 0, NEW hs, NEW hs2, Alike(hs, hs2, sp),
           NEW il, NEW il2, NEW q \in Nat, q > 0, \A k \in 1 .. q - 1 : il2[k] = il[k],
           il2[q] \in {il[q], Empty}, Returnable(hs, sp, il, q)
    PROVE  Returnable(hs2, sp, il2, q)
<1>1. sp - 1 \in Nat /\ q - 1 \in Nat /\ sp \in 1 .. sp
  OBVIOUS
<1>2. \A i \in 1 .. sp - 1 : /\ hs2[i].kind = hs[i].kind /\ hs2[i].ret = hs[i].ret
                             /\ hs2[i].then = hs[i].then
  BY DEF Alike
<1>3. hs2[sp].ret = hs[sp].ret /\ hs2[sp].then = hs[sp].then
  BY <1>1 DEF Alike
<1>4. il[q] \in {hs[sp].ret, Empty} /\ Aligned(hs, sp - 1, hs[sp].then, il, q - 1)
  BY DEF Returnable
<1>5. Aligned(hs2, sp - 1, hs2[sp].then, il2, q - 1)
  <2> DEFINE n == sp - 1
             len == q - 1
             o == hs[sp].then
             o2 == hs2[sp].then
  <2>1. n \in Nat /\ len \in Nat /\ o2 = o /\ Aligned(hs, n, o, il, len)
    BY <1>1, <1>3, <1>4
  <2>2. /\ \A i \in 1 .. n : /\ hs2[i].kind = hs[i].kind /\ hs2[i].ret = hs[i].ret
                             /\ hs2[i].then = hs[i].then
        /\ \A k \in 1 .. len : il2[k] = il[k]
    BY <1>2
  <2> HIDE DEF n, len, o, o2
  <2>3. Aligned(hs2, n, o2, il2, len)
    BY <2>1, <2>2, AlignedSame
  <2>4. QED
    BY <2>3 DEF n, len, o2
<1>6. il2[q] \in {hs2[sp].ret, Empty}
  BY <1>3, <1>4
<1>7. QED
  BY <1>5, <1>6 DEF Returnable

LEMMA ReturnableSame ==
    ASSUME NEW sp \in Nat, sp > 0, NEW hs, NEW hs2, Alike(hs, hs2, sp),
           NEW il, NEW il2, NEW q \in Nat, q > 0, \A k \in 1 .. q : il2[k] = il[k],
           Returnable(hs, sp, il, q)
    PROVE  Returnable(hs2, sp, il2, q)
<1>1. \A k \in 1 .. q - 1 : il2[k] = il[k]
  OBVIOUS
<1>2. il2[q] \in {il[q], Empty}
  OBVIOUS
<1>3. QED
  BY <1>1, <1>2, ReturnableKept

\* Nothing is counted under a frame that is not a call's.
LEMMA CountedShielded ==
    ASSUME NEW hs \in Seq(Frames), NEW sp \in Nat, hs[Len(hs)].kind # "call",
           NEW o, Pops(o) = 1, NEW m \in Nat
    PROVE  Counted(hs, sp, o, m)
<1> SUFFICES ASSUME NEW i \in sp .. Len(hs), \A j \in i + 1 .. Len(hs) : hs[j].kind = "call"
             PROVE  Len(hs) - i <= m + 1 - Pops(o)
  BY DEF Counted
<1>1. CASE i = Len(hs)
  BY <1>1
<1>2. CASE i # Len(hs)
  <2>1. Len(hs) \in i + 1 .. Len(hs)
    BY <1>2
  <2>2. QED
    BY <2>1
<1>3. QED
  BY <1>1, <1>2

\* Code is entered on top of hs.
LEMMA CountedEntered ==
    ASSUME NEW hs \in Seq(Frames), NEW hs2 \in Seq(Frames), NEW sp \in 1 .. Len(hs),
           Len(hs2) \in {Len(hs), Len(hs) + 1}, Alike(hs, hs2, Len(hs)),
           Len(hs2) = Len(hs) + 1 => hs2[Len(hs) + 1].kind = "flushed",
           NEW o, NEW o2, Pops(o) = 1, Pops(o2) = 1,
           NEW m \in Nat, Counted(hs, sp, o, m)
    PROVE  Counted(hs2, sp, o2, m)
<1> SUFFICES ASSUME NEW i \in sp .. Len(hs2), \A j \in i + 1 .. Len(hs2) : hs2[j].kind = "call"
             PROVE  Len(hs2) - i <= m + 1 - Pops(o2)
  BY DEF Counted
<1>1. Len(hs) \in Nat /\ Len(hs2) \in Nat
  OBVIOUS
<1>2. CASE i = Len(hs2)
  BY <1>1, <1>2
<1>3. CASE i # Len(hs2)
  <2>1. Len(hs2) \in i + 1 .. Len(hs2)
    BY <1>1, <1>3
  <2>2. Len(hs2) = Len(hs)
    BY <2>1
  <2>3. i \in sp .. Len(hs) /\ \A j \in i + 1 .. Len(hs) : j \in 1 .. Len(hs) /\ j \in i + 1 .. Len(hs2)
    BY <1>1, <2>2
  <2>4. \A j \in i + 1 .. Len(hs) : hs[j].kind = "call"
    BY <2>3 DEF Alike
  <2>5. Len(hs) - i <= m + 1 - Pops(o)
    BY <2>3, <2>4, Zenon DEF Counted
  <2>6. QED
    BY <2>2, <2>5
<1>4. QED
  BY <1>2, <1>3

\* A call pushes its frame.
LEMMA CountedPushed ==
    ASSUME NEW hs \in Seq(Frames), NEW hs2 \in Seq(Frames), NEW sp \in 1 .. Len(hs),
           Len(hs2) = Len(hs) + 1, Alike(hs, hs2, Len(hs)),
           NEW o, NEW o2, Pops(o) = 1, Pops(o2) = 1,
           NEW m \in Nat, Counted(hs, sp, o, m)
    PROVE  Counted(hs2, sp, o2, m + 1)
<1> SUFFICES ASSUME NEW i \in sp .. Len(hs2), \A j \in i + 1 .. Len(hs2) : hs2[j].kind = "call"
             PROVE  Len(hs2) - i <= m + 1 + 1 - Pops(o2)
  BY DEF Counted
<1>1. Len(hs) \in Nat /\ Len(hs2) \in Nat
  OBVIOUS
<1>2. CASE i = Len(hs2)
  BY <1>1, <1>2
<1>3. CASE i # Len(hs2)
  <2>3. i \in sp .. Len(hs) /\ \A j \in i + 1 .. Len(hs) : j \in 1 .. Len(hs) /\ j \in i + 1 .. Len(hs2)
    BY <1>1, <1>3
  <2>4. \A j \in i + 1 .. Len(hs) : hs[j].kind = "call"
    BY <2>3 DEF Alike
  <2>5. Len(hs) - i <= m + 1 - Pops(o)
    BY <2>3, <2>4, Zenon DEF Counted
  <2>6. QED
    BY <1>1, <2>3, <2>5
<1>4. QED
  BY <1>2, <1>3

\* A library function pops its entry before its frame.
LEMMA CountedPopped ==
    ASSUME NEW hs \in Seq(Frames), NEW sp \in Nat,
           NEW o, NEW o2, Pops(o) = 1, Pops(o2) = 0, NEW m \in Nat, Counted(hs, sp, o, m)
    PROVE  Counted(hs, sp, o2, m - 1)
<1>1. m + 1 - Pops(o) = m - 1 + 1 - Pops(o2)
  OBVIOUS
<1>2. QED
  BY <1>1, Zenon DEF Counted

\* A call's frame goes on.
LEMMA CountedReturned ==
    ASSUME NEW hs \in Seq(Frames), NEW hs2 \in Seq(Frames), NEW sp \in 1 .. Len(hs),
           hs[Len(hs)].kind = "call",
           Len(hs2) = Len(hs) - 1, Alike(hs, hs2, Len(hs2)),
           NEW o, NEW o2, Pops(o2) = 1, NEW m \in Nat, Counted(hs, sp, o, m)
    PROVE  Counted(hs2, sp, o2, m - Pops(o))
<1> SUFFICES ASSUME NEW i \in sp .. Len(hs2), \A j \in i + 1 .. Len(hs2) : hs2[j].kind = "call"
             PROVE  Len(hs2) - i <= m - Pops(o) + 1 - Pops(o2)
  BY DEF Counted
<1>1. Len(hs) \in Nat /\ Len(hs2) \in Nat /\ Pops(o) \in {0, 1}
  BY PopsIs
<1>2. i \in sp .. Len(hs)
  BY <1>1
<1>3. ASSUME NEW j \in i + 1 .. Len(hs) PROVE hs[j].kind = "call"
  <2>1. CASE j = Len(hs)
    BY <2>1
  <2>2. CASE j # Len(hs)
    <3>1. i \in 1 .. Len(hs2) /\ Len(hs) = Len(hs2) + 1
      BY <1>1
    <3>2. j \in i + 1 .. Len(hs2) /\ j \in 1 .. Len(hs2)
      BY <1>1, <2>2, <3>1, Between
    <3>3. QED
      BY <3>2 DEF Alike
  <2>3. QED
    BY <2>1, <2>2
<1>4. Len(hs) - i <= m + 1 - Pops(o)
  BY <1>2, <1>3, Zenon DEF Counted
<1>5. QED
  BY <1>1, <1>4

\* Neither the calls nor the ring have changed.
LEMMA HandledAlike ==
    ASSUME NEW oc, NEW c, NEW o, NEW o2, NEW hs, NEW hs2, NEW sp \in Nat, sp > 0, Alike(hs, hs2, sp),
           NEW il, Len(il) \in Nat,
           \A m \in Nat : Counted(hs, sp, o, m) => Counted(hs2, sp, o2, m),
           Handled(oc, c, o, hs, sp, il)
    PROVE  Handled(oc, c, o2, hs2, sp, il)
<1>1. PICK q \in 0 .. Len(il) :
          /\ Followed(oc, c, il, q)
          /\ q > 0 => /\ Returnable(hs, sp, il, q)
                      /\ Len(oc) - c <= Len(il) - q
                      /\ Counted(hs, sp, o, Len(il) - q)
  BY DEF Handled
<1>2. ASSUME q > 0 PROVE Returnable(hs2, sp, il, q) /\ Counted(hs2, sp, o2, Len(il) - q)
  <2>1. Len(il) - q \in Nat /\ q \in Nat
    OBVIOUS
  <2>2. QED
    BY <1>1, <1>2, <2>1, ReturnableSame
<1>3. QED
  BY <1>1, <1>2 DEF Handled

\* A call, and the entry for it.
LEMMA HandledPushed ==
    ASSUME NEW oc, NEW oc2, Len(oc) \in Nat, Len(oc2) = Len(oc) + 1,
           \A k \in 1 .. Len(oc) : oc2[k] = oc[k],
           NEW c \in Nat, c <= Len(oc),
           NEW il \in Seq(Pcs \cup {Empty}), NEW v \in Pcs \cup {Empty}, oc2[Len(oc2)].ret = v,
           NEW o, NEW o2, NEW hs, NEW hs2, NEW sp \in Nat, sp > 0, Alike(hs, hs2, sp),
           \A m \in Nat : Counted(hs, sp, o, m) => Counted(hs2, sp, o2, m + 1),
           Handled(oc, c, o, hs, sp, il)
    PROVE  Handled(oc2, c, o2, hs2, sp, Append(il, v))
<1> DEFINE il2 == Append(il, v)
<1>1. PICK q \in 0 .. Len(il) :
          /\ Followed(oc, c, il, q)
          /\ q > 0 => /\ Returnable(hs, sp, il, q)
                      /\ Len(oc) - c <= Len(il) - q
                      /\ Counted(hs, sp, o, Len(il) - q)
  BY DEF Handled
<1>2. /\ Len(il2) = Len(il) + 1 /\ Len(il) \in Nat /\ il2[Len(il) + 1] = v
      /\ \A k \in 1 .. Len(il) : il2[k] = il[k]
  BY Appended
<1> HIDE DEF il2
<1>3. ASSUME q > 0 PROVE /\ Returnable(hs2, sp, il2, q) /\ Counted(hs2, sp, o2, Len(il2) - q)
                         /\ Len(oc2) - c <= Len(il2) - q
  <2>1. Len(il) - q \in Nat /\ q \in Nat /\ \A k \in 1 .. q : il2[k] = il[k]
    BY <1>2
  <2>2. Len(il2) - q = Len(il) - q + 1
    BY <1>2
  <2>3. Counted(hs2, sp, o2, Len(il2) - q)
    BY <1>1, <1>3, <2>1, <2>2
  <2>4. QED
    BY <1>1, <1>2, <1>3, <2>1, <2>3, ReturnableSame
<1>4. Followed(oc2, c, il2, q)
  <2> SUFFICES ASSUME NEW k \in 0 .. Len(il2) - q - 1, \A j \in 0 .. k : il2[Len(il2) - j] # Empty
               PROVE  k < Len(oc2) - c /\ il2[Len(il2) - k] = oc2[Len(oc2) - k].ret
    BY DEF Followed
  <2>1. CASE k = 0
    BY <1>2, <2>1
  <2>2. CASE k # 0
    <3>1. k - 1 \in 0 .. Len(il) - q - 1
      BY <1>2, <2>2
    <3>2. ASSUME NEW j \in 0 .. k - 1 PROVE il[Len(il) - j] # Empty
      <4>1. j + 1 \in 0 .. k /\ Len(il2) - (j + 1) = Len(il) - j /\ Len(il) - j \in 1 .. Len(il)
        BY <1>2
      <4>2. QED
        BY <1>2, <4>1
    <3>3. k - 1 < Len(oc) - c /\ il[Len(il) - (k - 1)] = oc[Len(oc) - (k - 1)].ret
      BY <1>1, <3>1, <3>2, Zenon DEF Followed
    <3>4. /\ Len(il2) - k = Len(il) - (k - 1) /\ Len(il) - (k - 1) \in 1 .. Len(il)
          /\ Len(oc2) - k = Len(oc) - (k - 1) /\ Len(oc) - (k - 1) \in 1 .. Len(oc)
          /\ k < Len(oc2) - c
      <4>1. k \in Int /\ k > 0 /\ k - 1 < Len(oc) - c /\ k - 1 <= Len(il) - q - 1
        BY <1>2, <2>2, <3>1, <3>3
      <4>2. Len(il2) - k = Len(il) - (k - 1) /\ Len(il) - (k - 1) \in 1 .. Len(il)
        BY <1>2, <4>1
      <4>3. Len(oc2) - k = Len(oc) - (k - 1) /\ k < Len(oc2) - c
        BY <4>1
      <4>4. Len(oc) - (k - 1) \in 1 .. Len(oc)
        BY <4>1
      <4>5. QED
        BY <4>2, <4>3, <4>4
    <3>5. QED
      BY <1>2, <3>3, <3>4
  <2>3. QED
    BY <2>1, <2>2
<1>5. q \in 0 .. Len(il2)
  BY <1>2
<1>6. Handled(oc2, c, o2, hs2, sp, il2)
  BY <1>3, <1>4, <1>5 DEF Handled
<1>7. QED
  BY <1>6 DEF il2

\* A return, and the entry for it: never that of the interrupt.
LEMMA HandledPopped ==
    ASSUME NEW oc, NEW oc2, Len(oc) \in Nat, Len(oc2) = Len(oc) - 1,
           \A k \in 1 .. Len(oc2) : oc2[k] = oc[k],
           NEW c \in Nat, c < Len(oc),
           NEW il \in Seq(Pcs \cup {Empty}), il # <<>>, il[Len(il)] # Empty,
           NEW o, NEW o2, NEW hs, NEW hs2, NEW sp \in Nat, sp > 0, Alike(hs, hs2, sp),
           \A m \in Nat : Counted(hs, sp, o, m) => Counted(hs2, sp, o2, m - 1),
           Handled(oc, c, o, hs, sp, il)
    PROVE  Handled(oc2, c, o2, hs2, sp, Front(il))
<1> DEFINE il2 == Front(il)
<1>1. PICK q \in 0 .. Len(il) :
          /\ Followed(oc, c, il, q)
          /\ q > 0 => /\ Returnable(hs, sp, il, q)
                      /\ Len(oc) - c <= Len(il) - q
                      /\ Counted(hs, sp, o, Len(il) - q)
  BY DEF Handled
<1>2. /\ Len(il2) = Len(il) - 1 /\ Len(il) \in Nat /\ Len(il) > 0
      /\ \A k \in 1 .. Len(il) - 1 : il2[k] = il[k]
  BY SequenceEnds
<1> HIDE DEF il2
<1>3. q \in 0 .. Len(il2)
  BY <1>1, <1>2
<1>4. ASSUME q > 0 PROVE /\ Returnable(hs2, sp, il2, q) /\ Counted(hs2, sp, o2, Len(il2) - q)
                         /\ Len(oc2) - c <= Len(il2) - q
  <2>1. Len(il) - q \in Nat /\ q \in Nat /\ \A k \in 1 .. q : il2[k] = il[k]
    BY <1>2, <1>3
  <2>2. Len(il2) - q = Len(il) - q - 1
    BY <1>2
  <2>3. Counted(hs2, sp, o2, Len(il2) - q)
    BY <1>1, <1>4, <2>1, <2>2
  <2>4. QED
    BY <1>1, <1>2, <1>4, <2>1, <2>3, ReturnableSame
<1>5. Followed(oc2, c, il2, q)
  <2> SUFFICES ASSUME NEW k \in 0 .. Len(il2) - q - 1, \A j \in 0 .. k : il2[Len(il2) - j] # Empty
               PROVE  k < Len(oc2) - c /\ il2[Len(il2) - k] = oc2[Len(oc2) - k].ret
    BY DEF Followed
  <2>1. k + 1 \in 0 .. Len(il) - q - 1
    BY <1>2
  <2>2. ASSUME NEW j \in 0 .. k + 1 PROVE il[Len(il) - j] # Empty
    <3>1. CASE j = 0
      BY <1>2, <3>1
    <3>2. CASE j # 0
      <4>1. j - 1 \in 0 .. k /\ Len(il2) - (j - 1) = Len(il) - j /\ Len(il) - j \in 1 .. Len(il) - 1
        BY <1>2, <1>3, <2>1, <3>2
      <4>2. QED
        BY <1>2, <4>1
    <3>3. QED
      BY <3>1, <3>2
  <2>3. k + 1 < Len(oc) - c /\ il[Len(il) - (k + 1)] = oc[Len(oc) - (k + 1)].ret
    BY <1>1, <2>1, <2>2, Zenon DEF Followed
  <2>4. /\ Len(il2) - k = Len(il) - (k + 1) /\ Len(il) - (k + 1) \in 1 .. Len(il) - 1
        /\ Len(oc2) - k = Len(oc) - (k + 1) /\ Len(oc) - (k + 1) \in 1 .. Len(oc2)
        /\ k < Len(oc2) - c
    <3>1. k \in Nat /\ k + 1 < Len(oc) - c /\ k + 1 <= Len(il) - q - 1
      BY <1>2, <2>1, <2>3
    <3>2. Len(il2) - k = Len(il) - (k + 1) /\ Len(il) - (k + 1) \in 1 .. Len(il) - 1
      BY <1>2, <3>1
    <3>3. Len(oc2) - k = Len(oc) - (k + 1) /\ k < Len(oc2) - c
      BY <3>1
    <3>4. Len(oc) - (k + 1) \in 1 .. Len(oc2)
      BY <3>1
    <3>5. QED
      BY <3>2, <3>3, <3>4
  <2>5. QED
    BY <1>2, <2>3, <2>4
<1>6. Handled(oc2, c, o2, hs2, sp, il2)
  BY <1>3, <1>4, <1>5 DEF Handled
<1>7. QED
  BY <1>6 DEF il2

\* A handler has been called, and has called nothing.
LEMMA HandledNew ==
    ASSUME NEW n \in Nat, NEW len \in Nat, NEW cs, Len(cs) \in Nat, NEW il, NEW il2,
           Len(il2) = len + 1, \A k \in 1 .. len : il2[k] = il[k],
           NEW o, NEW o2, Pops(o2) = 1,
           NEW hs, NEW hs2 \in Seq(Frames), Len(hs2) \in {n + 1, n + 2}, Alike(hs, hs2, n),
           il2[len + 1] = hs2[n + 1].ret,
           Pops(hs2[n + 1].then) = Pops(o), hs2[n + 1].then.arg = o.arg,
           Len(hs2) = n + 2 => hs2[n + 2].kind = "flushed",
           Aligned(hs, n, o, il, len)
    PROVE  Handled(cs, Len(cs), o2, hs2, n + 1, il2)
<1> DEFINE q == len + 1
           sp == n + 1
           f == hs2[sp].then
<1>1. /\ q \in 0 .. Len(il2) /\ Len(il2) - q = 0 /\ q - 1 = len /\ sp - 1 = n
      /\ Pops(f) = Pops(o) /\ f.arg = o.arg /\ il2[q] = hs2[sp].ret
  OBVIOUS
<1> HIDE DEF q, sp, f
<1>2. Followed(cs, Len(cs), il2, q)
  BY <1>1 DEF Followed
<1>3. Aligned(hs2, n, f, il2, len)
  <2>1. \A i \in 1 .. n : /\ hs2[i].kind = hs[i].kind /\ hs2[i].ret = hs[i].ret
                           /\ hs2[i].then = hs[i].then
    BY DEF Alike
  <2>2. Pops(f) = Pops(o) /\ (Pops(o) = 0 => f.arg = o.arg)
    BY <1>1
  <2>3. QED
    BY <2>1, <2>2, AlignedSame
<1>4. Returnable(hs2, sp, il2, q)
  BY <1>1, <1>3 DEF Returnable, f
<1>5. Counted(hs2, sp, o2, 0)
  <2> SUFFICES ASSUME NEW i \in sp .. Len(hs2), \A j \in i + 1 .. Len(hs2) : hs2[j].kind = "call"
               PROVE  Len(hs2) - i <= 0 + 1 - Pops(o2)
    BY DEF Counted
  <2>1. CASE i = Len(hs2)
    BY <2>1
  <2>2. CASE i # Len(hs2)
    <3>1. Len(hs2) = n + 2 /\ n + 2 \in i + 1 .. Len(hs2)
      BY <2>2 DEF sp
    <3>2. QED
      BY <3>1
  <2>3. QED
    BY <2>1, <2>2
<1>6. Len(cs) - Len(cs) <= Len(il2) - q
  BY <1>1
<1>7. Handled(cs, Len(cs), o2, hs2, sp, il2)
  BY <1>1, <1>2, <1>4, <1>5, <1>6 DEF Handled
<1>8. QED
  BY <1>7 DEF sp

-----------------------------------------------------------------------------
(* What the guest's steps do to its open calls.                            *)

LEMMA OpenAtCall ==
    ASSUME NEW cs, NEW o, NEW p, o.do = "call"
    PROVE  OpenCalls(cs, o, p) = Front(cs)
  BY DEF OpenCalls

LEMMA OpenAtReturn ==
    ASSUME NEW cs, NEW o, NEW p, o.do = "return", p \notin {Uninterrupt, Entry}
    PROVE  OpenCalls(cs, o, p) = Append(cs, [ret |-> p, irq |-> FALSE])
  BY DEF OpenCalls

LEMMA OpenElse ==
    ASSUME NEW cs, NEW o, NEW p, o.do # "call", o.do = "return" => p \in {Uninterrupt, Entry}
    PROVE  OpenCalls(cs, o, p) = cs
  BY DEF OpenCalls

\* The thread that is switched to waits outside its interrupts.
LEMMA SwitchedTo ==
    ASSUME Guest, NEW t \in Threads, GuestSwitches(t)
    PROVE  ~Interrupted(calls[current])' /\ (op.do # "uninterrupt" => ~Interrupted(calls[current]))
<1>1. current' = t /\ t # current /\ calls[t] # <<>> /\ calls[t] \in Seq(Calls)
  BY DEF GuestSwitches, Guest
<1>2. calls'[t] = Front(calls[t])
  BY DEF GuestSwitches, Guest
<1>3. Len(calls[t]) \in Nat /\ Len(Front(calls[t])) = Len(calls[t]) - 1
      /\ \A i \in 1 .. Len(calls[t]) - 1 : Front(calls[t])[i] = calls[t][i]
  BY <1>1, SequenceEnds
<1>4. ASSUME NEW i \in 1 .. Len(calls'[t]) PROVE ~calls'[t][i].irq
  <2>1. i \in 1 .. Len(calls[t]) - 1 /\ i \in 1 .. Len(calls[t]) /\ i < Len(calls[t])
    BY <1>2, <1>3
  <2>2. ~calls[t][i].irq
    BY <1>1, <2>1 DEF Guest
  <2>3. QED
    BY <1>2, <1>3, <2>1, <2>2
<1>5. ~Interrupted(calls'[t])
  BY <1>4 DEF Interrupted
<1>6. op.do # "uninterrupt" => ~Interrupted(calls[current])
  BY DEF GuestSwitches, Interrupted
<1>7. QED
  BY <1>1, <1>5, <1>6 DEF Interrupted

\* A return from a call leaves the interrupts open, and goes where it came from.
LEMMA ReturnedTo ==
    ASSUME Guest, calls[current] # <<>>, ~Last(calls[current]).irq, GuestReturns
    PROVE  /\ calls[current]' = Front(calls[current]) /\ pc' = Last(calls[current]).ret
           /\ pc' # Uninterrupt /\ (Interrupted(calls[current])' => pc' # Entry)
           /\ Append(calls[current]', [ret |-> pc', irq |-> FALSE]) = calls[current]
           /\ Interrupted(calls[current])' => Interrupted(calls[current])
           /\ \A c : \A o, o2 : Inside(calls[current], c, o) /\ o2.do # "call" =>
                  Inside(calls[current]', c, o2) /\ c < Len(calls[current])
<1> DEFINE cs == calls[current]
<1>1. cs \in Seq(Calls) /\ cs # <<>> /\ current' = current /\ current \in Threads
  BY DEF Guest, GuestReturns
<1>2. calls'[current] = Front(cs) /\ pc' = Last(cs).ret
  BY DEF Guest, GuestReturns
<1> HIDE DEF cs
<1>3. /\ Len(cs) \in Nat /\ Len(cs) > 0 /\ Last(cs) \in Calls /\ Last(cs) = cs[Len(cs)]
      /\ Front(cs) \in Seq(Calls) /\ Len(Front(cs)) = Len(cs) - 1
      /\ \A i \in 1 .. Len(cs) - 1 : Front(cs)[i] = cs[i]
  BY <1>1, SequenceEnds
<1>4. pc' # Uninterrupt
  <2>1. Len(cs) \in 1 .. Len(cs)
    BY <1>3
  <2>2. cs[Len(cs)].ret = Uninterrupt => cs[Len(cs)].irq
    BY <1>1, <2>1 DEF Guest, cs
  <2>3. QED
    BY <1>2, <1>3, <2>2 DEF cs
<1>5. Append(Front(cs), [ret |-> pc', irq |-> FALSE]) = cs
  <2> DEFINE x == [ret |-> pc', irq |-> FALSE]
             s == Append(Front(cs), x)
  <2>1. x = Last(cs)
    <3>1. Last(cs).irq = FALSE
      BY <1>3 DEF Calls, cs
    <3>2. QED
      BY <1>2, <1>3, <3>1 DEF Calls
  <2>2. x \in Calls
    BY <1>3, <2>1
  <2> HIDE DEF x
  <2>3. /\ s \in Seq(Calls) /\ Len(s) = Len(cs)
        /\ \A i \in 1 .. Len(cs) - 1 : s[i] = cs[i]
        /\ s[Len(cs)] = x
    <3>1. /\ s \in Seq(Calls) /\ Len(s) = Len(Front(cs)) + 1
          /\ \A i \in 1 .. Len(Front(cs)) : s[i] = Front(cs)[i]
          /\ s[Len(Front(cs)) + 1] = x
      BY <1>3, <2>2, Appended
    <3>2. Len(Front(cs)) + 1 = Len(cs)
      BY <1>3
    <3>3. QED
      BY <1>3, <3>1, <3>2
  <2> HIDE DEF s
  <2>4. \A i \in 1 .. Len(cs) : s[i] = cs[i]
    BY <1>3, <2>1, <2>3
  <2>5. s = cs
    BY <1>1, <2>3, <2>4, SeqEqual
  <2>6. QED
    BY <2>5 DEF s, x
<1>6. Interrupted(Front(cs)) => Interrupted(cs)
  BY <1>3 DEF Interrupted
<1>7. ASSUME NEW c, NEW o, NEW o2, Inside(cs, c, o), o2.do # "call"
      PROVE  Inside(Front(cs), c, o2) /\ c < Len(cs)
  <2>1. c \in 1 .. Len(cs) /\ cs[c].irq
    BY <1>7 DEF Inside
  <2>2. c # Len(cs)
    BY <1>3, <2>1 DEF cs
  <2>3. c \in 1 .. Len(Front(cs)) /\ c < Len(cs) /\ Front(cs)[c] = cs[c]
    BY <1>3, <2>1, <2>2
  <2>4. ASSUME NEW i \in c + 1 .. Len(Front(cs)) PROVE ~Front(cs)[i].irq
    <3>1. i \in 1 .. Len(cs) - 1 /\ i \in c + 1 .. Len(cs)
      BY <1>3, <2>1
    <3>2. QED
      BY <1>3, <1>7, <3>1 DEF Inside
  <2>5. QED
    BY <1>7, <2>1, <2>3, <2>4 DEF Inside
<1>8. calls'[current'] = Front(cs)
  BY <1>1, <1>2
<1>9. Interrupted(calls[current])' => Interrupted(cs)
  BY <1>6, <1>8 DEF Interrupted
<1>10. Interrupted(calls[current])' => pc' # Entry
  <2> SUFFICES ASSUME Interrupted(Front(cs)), Last(cs).ret = Entry PROVE FALSE
    BY <1>2, <1>8 DEF Interrupted, cs
  <2>1. Len(cs) - 1 > 0
    BY <1>3 DEF Interrupted
  <2>2. Len(cs) \in 1 .. Len(cs) /\ Len(cs) # 1 /\ ~cs[Len(cs)].irq
    BY <1>3, <2>1 DEF cs
  <2>3. QED
    BY <1>1, <1>3, <2>2 DEF Guest, cs
<1>11. QED
  BY <1>2, <1>4, <1>5, <1>7, <1>8, <1>9, <1>10 DEF cs

-----------------------------------------------------------------------------
(* The host follows the guest: one step per action.                        *)

Follows == HostInv /\ HostFollowsGuest

\* A step after which the entries are no better known than before.
LeftKept ==
    /\ leftover' # "taken" => leftover # "taken"
    /\ leftover' = "none" => leftover = "none"

LEMMA FollowsLeaves ==
    ASSUME exit_guest_context, ideal' \in Seq(Pcs \cup {Empty})
    PROVE  Follows'
<1>1. host' = <<>> /\ op'.do = "exited" /\ resumed' = NoFrame
  BY OpTypes DEF exit_guest_context
<1>2. Len(host') = 0 /\ 0 \in Nat /\ Len(ideal') \in Nat
  BY <1>1
<1>3. Aligned(host', 0, op', ideal', Len(ideal'))
  BY <1>2, AlignedShielded
<1>4. HostInv'
  BY <1>1, <1>2, <1>3 DEF HostInv
<1>5. QED
  BY <1>1, <1>4 DEF Follows, HostFollowsGuest

\* Nothing is pushed or popped, but for the frame of a translation that flushed.
LEMMA FollowsKept ==
    ASSUME Contexts, InterruptFrameLive, HostInv, LeftKept, op.do \notin {"exited", "hle"}, op'.do # "hle",
           UNCHANGED <<ideal, in_interrupt, interrupt_sp>>, resumed' = NoFrame,
           host' \in Seq(Frames), Len(host') \in {Len(host), Len(host) + 1},
           Alike(host, host', Len(host)),
           Len(host') = Len(host) + 1 => host'[Len(host) + 1].kind = "flushed",
           leftover' = "none" /\ Interrupted(calls'[current']) =>
               /\ Interrupted(calls[current])
               /\ \A c : Inside(calls[current], c, op) => Inside(calls'[current'], c, op')
               /\ OpenCalls(calls'[current'], op', pc') = OpenCalls(calls[current], op, pc)
    PROVE  Follows'
<1>1. host \in Seq(Frames) /\ Len(host) \in Nat /\ Len(ideal) \in Nat /\ Len(host') \in Nat
  BY DEF Contexts, TypeOK
<1>2. Pops(op) = 1 /\ Pops(op') = 1
  BY PopsIs
<1>3. ASSUME leftover' # "taken"
      PROVE  Aligned(host', Len(host'), op', ideal', Len(ideal'))
  <2>1. CASE Len(host') = Len(host)
    <3>1. Aligned(host, Len(host), op, ideal, Len(ideal))
      BY <1>3 DEF HostInv, LeftKept
    <3>2. Aligned(host', Len(host), op', ideal, Len(ideal))
      <4>1. \A i \in 1 .. Len(host) :
                /\ host'[i].kind = host[i].kind /\ host'[i].ret = host[i].ret
                /\ host'[i].then = host[i].then
        BY DEF Alike
      <4>2. Pops(op') = Pops(op) /\ (Pops(op) = 0 => op'.arg = op.arg)
        BY <1>2
      <4>3. QED
        BY <1>1, <3>1, <4>1, <4>2, AlignedSame
    <3>3. QED
      BY <2>1, <3>2
  <2>2. CASE Len(host') = Len(host) + 1
    BY <1>1, <2>2, AlignedShielded
  <2>3. QED
    BY <2>1, <2>2
<1>4. ASSUME leftover' = "none", in_interrupt', Interrupted(calls'[current'])
      PROVE  Handling(calls'[current'], op', pc', host', interrupt_sp', ideal')
  <2>1. ~Doomed(op)
    BY DEF Doomed
  <2>2. Handling(calls[current], op, pc, host, interrupt_sp, ideal)
    BY <1>4, <2>1 DEF HostInv, LeftKept
  <2>3. PICK c : /\ Inside(calls[current], c, op)
                 /\ Handled(OpenCalls(calls[current], op, pc), c, op, host, interrupt_sp, ideal)
    BY <2>2 DEF Handling
  <2>4. Inside(calls'[current'], c, op')
    BY <1>4, <2>3
  <2>5. interrupt_sp \in 1 .. Len(host) /\ interrupt_sp \in Nat /\ interrupt_sp > 0
    BY <1>1, <1>4 DEF InterruptFrameLive
  <2>6. Alike(host, host', interrupt_sp)
    BY <1>1, <2>5 DEF Alike
  <2>7. \A m \in Nat : Counted(host, interrupt_sp, op, m) => Counted(host', interrupt_sp, op', m)
    BY <1>1, <1>2, <2>5, CountedEntered
  <2>8. Handled(OpenCalls(calls[current], op, pc), c, op', host', interrupt_sp, ideal)
    BY <1>1, <2>3, <2>5, <2>6, <2>7, HandledAlike
  <2>9. Handled(OpenCalls(calls'[current'], op', pc'), c, op', host', interrupt_sp', ideal')
    BY <1>4, <2>8
  <2>10. c \in 1 .. Len(calls'[current'])
    BY <2>4 DEF Inside
  <2>11. QED
    BY <2>4, <2>9, <2>10 DEF Handling
<1>5. HostInv'
  BY <1>3, <1>4 DEF HostInv, Interrupted, Handling, Doomed
<1>6. QED
  BY <1>5 DEF Follows, HostFollowsGuest

\* A branch is reached.
LEMMA FollowsReaches ==
    ASSUME Contexts, InterruptFrameLive, HostInv, LeftKept, UNCHANGED ring,
           NEW do, do # "hle", NEW arg, NEW d, Reaches(do, arg, d),
           op'.do = do /\ op'.arg = arg /\ leftover' = "none" /\ Interrupted(calls'[current']) =>
               /\ Interrupted(calls[current])
               /\ \A c : Inside(calls[current], c, op) => Inside(calls'[current'], c, op')
               /\ OpenCalls(calls'[current'], op', pc') = OpenCalls(calls[current], op, pc)
    PROVE  Follows'
<1>1. ideal' = ideal /\ ideal \in Seq(Pcs \cup {Empty}) /\ host \in Seq(Frames)
  BY DEF ring, Contexts, TypeOK
<1>2. CASE d /\ TooDeep
  BY <1>1, <1>2, FollowsLeaves DEF Reaches
<1>3. CASE ~(d /\ TooDeep)
  <2>1. /\ op.do = "run" /\ op'.do = do /\ op'.arg = arg /\ resumed' = NoFrame /\ host' = host
        /\ UNCHANGED <<in_interrupt, interrupt_sp>>
    BY <1>3 DEF Reaches
  <2>2. Alike(host, host', Len(host)) /\ Len(host') # Len(host) + 1
    BY <1>1, <2>1 DEF Alike
  <2>3. QED
    BY <1>1, <2>1, <2>2, FollowsKept
<1>4. QED
  BY <1>2, <1>3

\* The branches of the guest, before their handler runs.
LEMMA FollowsBranches ==
    ASSUME Contexts, InterruptFrameLive, HostInv,
           (\E r \in Returns : bl(r)) \/ b \/ b_local \/ bx_lr \/ ldm_pc
    PROVE  Follows'
<1> DEFINE cs == calls[current]
           cs2 == calls'[current']
<1>1. Guest /\ cs \in Seq(Calls)
  BY ContextParts DEF Guest
<1>2. op.do = "run" /\ UNCHANGED ring /\ LeftKept
  BY DEF bl, b, b_local, bx_lr, ldm_pc, Reaches, LeavesEntry, LeftKept
<1>3. OpenCalls(cs, op, pc) = cs
  BY <1>2, OpenElse
<1>4. ASSUME NEW r \in Returns, bl(r) PROVE Follows'
  <2> DEFINE x == [ret |-> r, irq |-> FALSE]
  <2>1. x \in Calls /\ x.ret = r /\ ~x.irq
    BY PcTypes DEF Calls
  <2>2. cs2 = Append(cs, x)
    BY <1>1, <1>4 DEF bl, GuestCalls, Guest
  <2> HIDE DEF x, cs, cs2
  <2>3. /\ Len(cs2) = Len(cs) + 1 /\ cs2[Len(cs) + 1] = x /\ Last(cs2) = x /\ Len(cs) \in Nat
        /\ cs2 \in Seq(Calls) /\ cs2 # <<>>
        /\ \A i \in 1 .. Len(cs) : cs2[i] = cs[i]
    BY <1>1, <2>1, <2>2, Appended
  <2>4. Front(cs2) = cs
    <3>1. /\ Front(cs2) \in Seq(Calls) /\ Len(Front(cs2)) = Len(cs)
          /\ \A i \in 1 .. Len(cs) : Front(cs2)[i] = cs[i]
      BY <2>3, SequenceEnds
    <3>2. QED
      BY <1>1, <3>1, SeqEqual
  <2>5. Interrupted(cs2) => Interrupted(cs)
    BY <2>1, <2>3 DEF Interrupted
  <2>6. ASSUME op'.do = "call", op'.arg = r, NEW c, Inside(cs, c, op) PROVE Inside(cs2, c, op')
    <3>1. c \in 1 .. Len(cs) /\ c \in 1 .. Len(cs2) /\ c < Len(cs2) /\ cs2[c].irq
      BY <2>3, <2>6 DEF Inside
    <3>2. ASSUME NEW i \in c + 1 .. Len(cs2) PROVE ~cs2[i].irq
      BY <2>1, <2>3, <2>6, <3>1 DEF Inside
    <3>3. QED
      BY <2>1, <2>3, <2>6, <3>1, <3>2 DEF Inside
  <2>7. op'.do = "call" => OpenCalls(cs2, op', pc') = OpenCalls(cs, op, pc)
    BY <1>3, <2>4, OpenAtCall
  <2>8. QED
    BY <1>2, <1>4, <2>5, <2>6, <2>7, FollowsReaches DEF bl, cs, cs2
<1>5. CASE b_local
  <2>1. cs2 = cs
    BY <1>5 DEF b_local
  <2>2. \A c : op'.do # "call" /\ Inside(cs, c, op) => Inside(cs, c, op')
    BY DEF Inside
  <2>3. op'.do = "loop" => OpenCalls(cs2, op', pc') = OpenCalls(cs, op, pc)
    BY <1>3, <2>1, OpenElse
  <2> HIDE DEF cs, cs2
  <2>4. QED
    BY <1>2, <1>5, <2>1, <2>2, <2>3, FollowsReaches DEF b_local, cs, cs2
<1>6. ASSUME NEW t \in Threads, GuestSwitches(t) PROVE ~Interrupted(cs2)
  BY <1>1, <1>6, SwitchedTo DEF Interrupted
<1>7. CASE b \/ ldm_pc
  <2>1. ASSUME leftover' = "none", Interrupted(cs2) PROVE cs2 = cs
    <3>1. LeavesEntry /\ GuestBranches
      BY <1>7 DEF b, ldm_pc
    <3>2. ~(leftover = "none" /\ Interrupted(cs) /\ calls' # calls)
      BY <2>1, <3>1 DEF LeavesEntry
    <3>3. leftover = "none"
      BY <1>2, <2>1 DEF LeftKept
    <3>4. CASE UNCHANGED <<current, calls>>
      BY <3>4
    <3>5. CASE GuestReturns /\ Last(cs).irq
      BY <3>5 DEF GuestReturns
    <3>6. CASE GuestReturns /\ ~Last(cs).irq
      <4>1. Interrupted(cs) /\ current' = current
        BY <1>1, <2>1, <3>6, ReturnedTo DEF GuestReturns, Interrupted
      <4>2. calls' = calls
        BY <3>2, <3>3, <4>1
      <4>3. QED
        BY <4>1, <4>2
    <3>7. QED
      BY <1>6, <2>1, <3>1, <3>4, <3>5, <3>6 DEF GuestBranches
  <2>2. \A c : op'.do # "call" /\ Inside(cs, c, op) => Inside(cs, c, op')
    BY DEF Inside
  <2>3. op'.do \in {"jump", "any"} /\ cs2 = cs => OpenCalls(cs2, op', pc') = OpenCalls(cs, op, pc)
    BY <1>3, OpenElse
  <2> HIDE DEF cs, cs2
  <2>4. QED
    BY <1>2, <1>7, <2>1, <2>2, <2>3, FollowsReaches DEF b, ldm_pc, cs, cs2
<1>8. CASE bx_lr
  <2>1. CASE \E t \in Threads : GuestSwitches(t)
    BY <1>2, <1>6, <1>8, <2>1, FollowsReaches DEF bx_lr
  <2>2. CASE (GuestReturns /\ Last(cs).irq) \/ (pc' = Entry /\ UNCHANGED <<current, calls>>)
    <3>1. cs2 = cs /\ pc' \in {Uninterrupt, Entry}
      BY <2>2 DEF GuestReturns
    <3>2. \A c : op'.do # "call" /\ Inside(cs, c, op) => Inside(cs, c, op')
      BY DEF Inside
    <3>3. op'.do = "return" => OpenCalls(cs2, op', pc') = OpenCalls(cs, op, pc)
      BY <1>3, <3>1, OpenElse
    <3> HIDE DEF cs, cs2
    <3>4. QED
      BY <1>2, <1>8, <3>1, <3>2, <3>3, FollowsReaches DEF bx_lr, cs, cs2
  <2>3. CASE GuestReturns /\ ~Last(cs).irq
    <3>1. cs # <<>>
      BY <2>3 DEF GuestReturns
    <3>2. /\ (Interrupted(cs2) => pc' \notin {Uninterrupt, Entry}) /\ Append(cs2, [ret |-> pc', irq |-> FALSE]) = cs
          /\ Interrupted(cs2) => Interrupted(cs)
          /\ \A c : op'.do # "call" /\ Inside(cs, c, op) => Inside(cs2, c, op')
      BY <1>1, <2>3, <3>1, ReturnedTo DEF Interrupted
    <3>3. op'.do = "return" /\ Interrupted(cs2) =>
              OpenCalls(cs2, op', pc') = OpenCalls(cs, op, pc)
      BY <1>3, <3>2, OpenAtReturn
    <3> HIDE DEF cs, cs2
    <3>4. QED
      BY <1>2, <1>8, <3>2, <3>3, FollowsReaches DEF bx_lr, cs, cs2
  <2>4. QED
    BY <1>8, <2>1, <2>2, <2>3 DEF bx_lr, GuestBranches
<1>9. QED
  BY <1>4, <1>5, <1>7, <1>8

\* A library function returns: its entry is popped before the scheduler is asked.
LEMMA FollowsHle ==
    ASSUME Contexts, InterruptFrameLive, RingInv, HostInv, hle_function
    PROVE  Follows'
<1> DEFINE cs == calls[current]
           cs2 == calls'[current']
<1>1. /\ Guest /\ cs \in Seq(Calls) /\ host \in Seq(Frames) /\ ideal \in Seq(Pcs \cup {Empty})
      /\ Len(host) \in Nat /\ Len(ideal) \in Nat
  BY ContextParts DEF Guest, Host, Ring
<1>2. /\ op.do = "run" /\ op'.do = "hle" /\ op'.arg = Popped /\ resumed' = NoFrame
      /\ pop_return_stack /\ UNCHANGED <<host, in_interrupt, interrupt_sp>>
      /\ cs # <<>> /\ ~Last(cs).irq /\ GuestReturns
      /\ LeftKept
  BY DEF hle_function, LeftKept
<1>3. Pops(op) = 1 /\ Pops(op') = 0
  BY <1>2, PopsIs
<1>4. ideal' = IF ideal = <<>> THEN <<>> ELSE Front(ideal)
  BY <1>2 DEF pop_return_stack, IdealRest, Front
<1>5. Popped # Empty => ideal # <<>> /\ Popped = Last(ideal)
  <2>1. RingMarked \/ RingBacked
    BY <1>2 DEF RingInv, Doomed
  <2>2. QED
    BY <1>2, <2>1, RingPopped
<1>6. /\ Len(ideal') \in Nat /\ Len(ideal') = (IF Len(ideal) = 0 THEN 0 ELSE Len(ideal) - 1)
      /\ \A k \in 1 .. Len(ideal') : ideal'[k] = ideal[k]
  <2>1. CASE ideal = <<>>
    BY <1>4, <2>1
  <2>2. CASE ideal # <<>>
    <3>1. /\ Len(ideal) \in Nat /\ Len(ideal) > 0 /\ Len(Front(ideal)) = Len(ideal) - 1
          /\ \A i \in 1 .. Len(ideal) - 1 : Front(ideal)[i] = ideal[i]
      BY <1>1, <2>2, SequenceEnds
    <3>2. ideal' = Front(ideal)
      BY <1>4, <2>2
    <3>3. QED
      BY <3>1, <3>2
  <2>3. QED
    BY <2>1, <2>2
<1>7. ASSUME leftover' # "taken"
      PROVE  Aligned(host', Len(host'), op', ideal', Len(ideal'))
  <2>1. Aligned(host, Len(host), op, ideal, Len(ideal))
    BY <1>2, <1>7 DEF HostInv, LeftKept
  <2>2. op'.arg = Empty \/ (Len(ideal) > 0 /\ op'.arg = ideal[Len(ideal)])
    BY <1>1, <1>2, <1>5, SequenceEnds
  <2>3. Aligned(host, Len(host), op', ideal', Len(ideal'))
    BY <1>1, <1>3, <1>6, <2>1, <2>2, AlignedPopped
  <2>4. QED
    BY <1>2, <2>3
<1>8. ASSUME leftover' = "none", in_interrupt', ~Doomed(op'), Interrupted(cs2)
      PROVE  Handling(cs2, op', pc', host', interrupt_sp', ideal')
  <2>1. /\ cs2 = Front(cs) /\ (Interrupted(cs2) => Interrupted(cs))
        /\ \A c : Inside(cs, c, op) => Inside(cs2, c, op') /\ c < Len(cs)
    BY <1>1, <1>2, ReturnedTo DEF Interrupted
  <2>2. Handling(cs, op, pc, host, interrupt_sp, ideal)
    BY <1>2, <1>8, <2>1 DEF HostInv, LeftKept, Doomed
  <2>3. PICK c : Inside(cs, c, op) /\ Handled(OpenCalls(cs, op, pc), c, op, host, interrupt_sp, ideal)
    BY <2>2 DEF Handling
  <2>4. OpenCalls(cs, op, pc) = cs /\ OpenCalls(cs2, op', pc') = cs2
    BY <1>2, OpenElse
  <2>5. Inside(cs2, c, op') /\ c < Len(cs) /\ c \in Nat /\ c \in 1 .. Len(cs2)
    BY <2>1, <2>3 DEF Inside
  <2>6. Popped # Empty
    BY <1>2, <1>8 DEF Doomed
  <2>7. ideal # <<>> /\ ideal[Len(ideal)] # Empty /\ ideal' = Front(ideal)
    BY <1>4, <1>5, <2>6 DEF Last
  <2>8. interrupt_sp \in Nat /\ interrupt_sp > 0
    BY <1>1, <1>2, <1>8 DEF InterruptFrameLive
  <2>9. Alike(host, host', interrupt_sp)
    BY <1>2 DEF Alike
  <2>10. \A m \in Nat : Counted(host, interrupt_sp, op, m) => Counted(host', interrupt_sp, op', m - 1)
    BY <1>1, <1>2, <1>3, <2>8, CountedPopped
  <2>11. /\ Len(cs) \in Nat /\ Len(cs2) = Len(cs) - 1
         /\ \A k \in 1 .. Len(cs2) : cs2[k] = cs[k]
    <3>1. cs2 = Front(cs) /\ cs # <<>> /\ cs \in Seq(Calls)
      BY <1>1, <1>2, <2>1
    <3> HIDE DEF cs, cs2
    <3>2. /\ Len(cs) \in Nat /\ Len(Front(cs)) = Len(cs) - 1
          /\ \A i \in 1 .. Len(cs) - 1 : Front(cs)[i] = cs[i]
      BY <3>1, SequenceEnds
    <3>3. QED
      BY <3>1, <3>2
  <2> HIDE DEF cs, cs2
  <2>12. Handled(cs, c, op, host, interrupt_sp, ideal)
    BY <2>3, <2>4
  <2>13. Handled(cs2, c, op', host', interrupt_sp, Front(ideal))
    BY <1>1, <2>5, <2>7, <2>8, <2>9, <2>10, <2>11, <2>12, HandledPopped
  <2>14. Handled(OpenCalls(cs2, op', pc'), c, op', host', interrupt_sp', ideal')
    BY <1>2, <2>4, <2>7, <2>13
  <2>15. QED
    BY <2>5, <2>14 DEF Handling
<1>9. HostInv'
  BY <1>7, <1>8 DEF HostInv, Interrupted, Handling, Doomed
<1>10. QED
  BY <1>2, <1>9 DEF Follows, HostFollowsGuest

\* An interrupt is found, and its handler called.
LEMMA FollowsInterrupt ==
    ASSUME Contexts, InterruptFrameLive, HostInv, handle_interrupt, Ring'
    PROVE  Follows'
<1> DEFINE cs == calls[current]
           cs2 == calls'[current']
           o == [op EXCEPT !.checked = TRUE]
           hs == Append(host, IrqFrame(pc, o))
           n == Len(host)
           len == Len(ideal)
<1>1. /\ Guest /\ cs \in Seq(Calls) /\ host \in Seq(Frames) /\ ideal \in Seq(Pcs \cup {Empty})
      /\ n \in Nat /\ len \in Nat /\ op \in Ops /\ pc \in Pcs /\ ideal' \in Seq(Pcs \cup {Empty})
  BY ContextParts DEF Guest, Host, Ring
<1>2. CASE TooDeep
  BY <1>1, <1>2, FollowsLeaves DEF handle_interrupt
<1>3. CASE ~TooDeep
  <2>1. o \in Ops /\ o.do = op.do /\ o.arg = op.arg
    BY <1>1 DEF Ops
  <2>2. Pops(o) = Pops(op)
    BY <2>1 DEF Pops
  <2>3. /\ call_jit_fun(hs, Irq) /\ push_return_stack(pc) /\ GuestInterrupted(pc)
        /\ in_interrupt' = TRUE /\ interrupt_sp' = n + 1
    BY <1>3 DEF handle_interrupt
  <2> HIDE DEF o
  <2>4. /\ IrqFrame(pc, o) \in Frames /\ IrqFrame(pc, o).kind = "irq"
        /\ IrqFrame(pc, o).then = o /\ IrqFrame(pc, o).ret = pc
    BY <1>1, <2>1, FrameTypes
  <2>5. /\ hs \in Seq(Frames) /\ Len(hs) = n + 1 /\ hs[n + 1] = IrqFrame(pc, o)
        /\ \A i \in 1 .. n : hs[i] = host[i]
    BY <1>1, <2>4, Appended
  <2> HIDE DEF hs
  <2>6. /\ host' \in Seq(Frames) /\ Len(host') \in {n + 1, n + 2}
        /\ \A i \in 1 .. n + 1 :
              /\ host'[i].kind = hs[i].kind /\ host'[i].ret = hs[i].ret
              /\ host'[i].then = hs[i].then
        /\ Len(host') = n + 2 => host'[n + 2].kind = "flushed"
        /\ op'.do = "run" /\ resumed' = NoFrame
    <3>1. /\ host' \in Seq(Frames) /\ Len(host') \in {Len(hs), Len(hs) + 1}
          /\ \A i \in 1 .. Len(hs) :
                /\ host'[i].kind = hs[i].kind /\ host'[i].ret = hs[i].ret
                /\ host'[i].then = hs[i].then
          /\ Len(host') = Len(hs) + 1 => host'[Len(hs) + 1].kind = "flushed"
          /\ op'.do = "run" /\ resumed' = NoFrame
      BY <2>3, <2>5, PcTypes, Entered
    <3>2. Len(hs) + 1 = n + 2
      BY <1>1, <2>5
    <3>3. QED
      BY <2>5, <3>1, <3>2
  <2>7. Pops(op') = 1
    BY <2>6, PopsIs
  <2>8. /\ Len(ideal') = len + 1 /\ ideal'[len + 1] = pc
        /\ \A k \in 1 .. len : ideal'[k] = ideal[k]
    BY <1>1, <2>3, Appended DEF push_return_stack
  <2>9. /\ host'[n + 1].ret = pc /\ host'[n + 1].then = o
        /\ \A i \in 1 .. n : /\ host'[i].kind = host[i].kind /\ host'[i].ret = host[i].ret
                             /\ host'[i].then = host[i].then
    <3>1. n + 1 \in 1 .. n + 1 /\ \A i \in 1 .. n : i \in 1 .. n + 1
      BY <1>1
    <3>2. QED
      BY <2>4, <2>5, <2>6, <3>1
  <2>10. leftover' = leftover /\ (leftover # "taken" => Aligned(host, n, op, ideal, len))
    BY DEF HostInv, handle_interrupt
  <2> HIDE DEF n, len
  <2>11. ASSUME leftover' # "taken"
         PROVE  Aligned(host', Len(host'), op', ideal', Len(ideal'))
    <3>1. CASE Len(host') = n + 1
      <4>1. Aligned(host', n + 1, op', ideal', len + 1)
        BY <1>1, <2>1, <2>2, <2>7, <2>8, <2>9, <2>10, <2>11, AlignedPushed
      <4>2. QED
        BY <2>8, <3>1, <4>1
    <3>2. CASE Len(host') = n + 2
      <4>1. n + 2 \in Nat /\ Len(ideal') \in Nat
        BY <1>1
      <4>2. QED
        BY <2>6, <3>2, <4>1, AlignedShielded
    <3>3. QED
      BY <2>6, <3>1, <3>2
  <2>12. /\ cs2 \in Seq(Calls) /\ Len(cs2) \in Nat /\ Len(cs2) > 0 /\ cs2[Len(cs2)].irq
    <3> DEFINE x == [ret |-> pc, irq |-> TRUE]
    <3>1. cs2 = Append(cs, x)
      BY <1>1, <2>3 DEF GuestInterrupted, Guest
    <3>2. x \in Calls /\ x.irq
      BY <1>1 DEF Calls
    <3> HIDE DEF cs, cs2, x
    <3>3. QED
      BY <1>1, <3>1, <3>2, Appended
  <2> DEFINE c == Len(cs2)
  <2>13. Inside(cs2, c, op')
    BY <2>6, <2>12 DEF Inside
  <2>14. OpenCalls(cs2, op', pc') = cs2
    BY <2>6, OpenElse
  <2>15. ASSUME leftover' = "none"
         PROVE  Handled(cs2, c, op', host', n + 1, ideal')
    <3>1. n + 1 \in Nat /\ Len(cs2) \in Nat /\ host'[n + 1].ret = pc
      BY <1>1, <2>9, <2>12
    <3>2. Alike(host, host', n) /\ Pops(host'[n + 1].then) = Pops(op) /\ host'[n + 1].then.arg = op.arg
      BY <2>1, <2>2, <2>9 DEF Alike
    <3> HIDE DEF cs, cs2
    <3>3. QED
      BY <1>1, <2>6, <2>7, <2>8, <2>10, <2>15, <3>1, <3>2, HandledNew
  <2>16. ASSUME leftover' = "none"
         PROVE  Handling(cs2, op', pc', host', interrupt_sp', ideal')
    <3>1. c \in 1 .. Len(cs2)
      BY <2>12
    <3> HIDE DEF c
    <3>2. QED
      BY <2>3, <2>13, <2>14, <2>15, <2>16, <3>1 DEF Handling
  <2>17. HostInv'
    BY <2>11, <2>16 DEF HostInv, Interrupted, Handling, Doomed
  <2>18. QED
    BY <2>6, <2>17 DEF Follows, HostFollowsGuest
<1>4. QED
  BY <1>2, <1>3

\* A call is made.
LEMMA FollowsCall ==
    ASSUME Contexts, InterruptFrameLive, HostInv, LeftKept, UNCHANGED <<guest, in_interrupt, interrupt_sp>>,
           op.do = "call", push_return_stack(op.arg),
           call_jit_fun(Append(host, CallFrame(op.arg)), pc)
    PROVE  Follows'
<1> DEFINE cs == calls[current]
           f == CallFrame(op.arg)
           hs == Append(host, f)
           n == Len(host)
           len == Len(ideal)
<1>1. /\ Guest /\ cs \in Seq(Calls) /\ host \in Seq(Frames) /\ ideal \in Seq(Pcs \cup {Empty})
      /\ n \in Nat /\ len \in Nat /\ op \in Ops /\ pc \in Pcs /\ op.arg \in Pcs \cup {Empty}
  BY ContextParts DEF Guest, Host, Ring, Ops
<1>2. calls'[current'] = cs /\ pc' = pc
  BY DEF guest
<1>3. f \in Frames /\ f.kind = "call" /\ f.then = Run /\ f.ret = op.arg
  BY <1>1, FrameTypes
<1>4. call_jit_fun(hs, pc)
  OBVIOUS
<1> HIDE DEF f
<1>5. /\ hs \in Seq(Frames) /\ Len(hs) = n + 1 /\ hs[n + 1] = f
      /\ \A i \in 1 .. n : hs[i] = host[i]
  BY <1>1, <1>3, Appended
<1> HIDE DEF hs
<1>6. /\ host' \in Seq(Frames) /\ Len(host') \in {Len(hs), Len(hs) + 1}
      /\ Alike(hs, host', Len(hs))
      /\ Len(host') = Len(hs) + 1 => host'[Len(hs) + 1].kind = "flushed"
      /\ op'.do \in {"run", "uninterrupt"} /\ resumed' = NoFrame
  BY <1>1, <1>4, <1>5, Entered DEF Alike
<1>7. Pops(op) = 1 /\ Pops(op') = 1 /\ Pops(Run) = 1
  BY <1>6, OpTypes, PopsIs
<1>8. ideal' = Append(ideal, op.arg)
  BY DEF push_return_stack
<1>9. /\ Len(ideal') = len + 1 /\ ideal'[len + 1] = op.arg
      /\ \A k \in 1 .. len : ideal'[k] = ideal[k]
  BY <1>1, <1>8, Appended
<1>10. leftover' # "taken" => Aligned(host, n, op, ideal, len)
  BY DEF HostInv, LeftKept
<1>11. ASSUME leftover' # "taken"
       PROVE  Aligned(host', Len(host'), op', ideal', Len(ideal'))
  <2>1. CASE Len(host') = Len(hs)
    <3> HIDE DEF n, len
    <3>1. /\ host'[n + 1].ret = op.arg /\ host'[n + 1].then = Run
          /\ \A i \in 1 .. n : /\ host'[i].kind = host[i].kind /\ host'[i].ret = host[i].ret
                               /\ host'[i].then = host[i].then
      <4>1. n + 1 \in 1 .. Len(hs) /\ \A i \in 1 .. n : i \in 1 .. Len(hs)
        BY <1>1, <1>5
      <4>2. QED
        BY <1>3, <1>5, <1>6, <4>1 DEF Alike
    <3>2. Aligned(host', n + 1, op', ideal', len + 1)
      <4>1. /\ Pops(host'[n + 1].then) = Pops(op) /\ (Pops(op) = 0 => host'[n + 1].then.arg = op.arg)
            /\ ideal'[len + 1] = host'[n + 1].ret /\ n \in Nat /\ len \in Nat
        BY <1>1, <1>7, <1>9, <3>1
      <4>2. QED
        BY <1>7, <1>9, <1>10, <1>11, <3>1, <4>1, AlignedPushed
    <3>3. QED
      BY <1>5, <1>9, <2>1, <3>2
  <2>2. CASE Len(host') = Len(hs) + 1
    <3>1. Len(hs) + 1 \in Nat /\ Len(ideal') \in Nat
      BY <1>1, <1>5, <1>9
    <3>2. QED
      BY <1>6, <2>2, <3>1, AlignedShielded
  <2>3. QED
    BY <1>6, <2>1, <2>2
<1>12. ASSUME leftover' = "none", in_interrupt, Interrupted(cs)
       PROVE  Handling(cs, op', pc, host', interrupt_sp, ideal')
  <2>1. Handling(cs, op, pc, host, interrupt_sp, ideal)
    BY <1>12 DEF HostInv, LeftKept, Doomed
  <2> HIDE DEF cs
  <2>2. PICK c \in 1 .. Len(cs) :
            Inside(cs, c, op) /\ Handled(OpenCalls(cs, op, pc), c, op, host, interrupt_sp, ideal)
    BY <2>1 DEF Handling
  <2>3. OpenCalls(cs, op, pc) = Front(cs) /\ OpenCalls(cs, op', pc) = cs
    BY <1>6, OpenAtCall, OpenElse
  <2>4. Inside(cs, c, op')
    BY <1>6, <2>2 DEF Inside
  <2>5. c < Len(cs) /\ Last(cs).ret = op.arg /\ c \in Nat
    BY <2>2 DEF Inside
  <2>6. cs # <<>>
    BY <2>2, <1>1
  <2>7. /\ Len(cs) \in Nat /\ Last(cs) = cs[Len(cs)] /\ Len(Front(cs)) = Len(cs) - 1
        /\ \A i \in 1 .. Len(cs) - 1 : Front(cs)[i] = cs[i]
    BY <1>1, <2>6, SequenceEnds
  <2>8. interrupt_sp \in 1 .. Len(host) /\ interrupt_sp \in Nat /\ interrupt_sp > 0
    BY <1>1, <1>12 DEF InterruptFrameLive
  <2>9. Alike(host, hs, Len(host)) /\ Alike(host, hs, interrupt_sp) /\ Alike(hs, host', interrupt_sp)
        /\ interrupt_sp \in 1 .. Len(hs)
    <3>1. Alike(host, hs, Len(host))
      BY <1>5 DEF Alike
    <3>2. interrupt_sp \in 1 .. Len(hs) /\ \A i \in 1 .. interrupt_sp : i \in 1 .. n /\ i \in 1 .. Len(hs)
      BY <1>1, <1>5, <2>8
    <3>3. Alike(host, hs, interrupt_sp)
      BY <1>5, <3>2 DEF Alike
    <3>4. Alike(hs, host', interrupt_sp)
      BY <1>6, <3>2 DEF Alike
    <3>5. QED
      BY <3>1, <3>2, <3>3, <3>4
  <2>10. \A m \in Nat : Counted(host, interrupt_sp, op, m) => Counted(hs, interrupt_sp, op', m + 1)
    BY <1>1, <1>5, <1>7, <2>8, <2>9, CountedPushed
  <2>11. Handled(cs, c, op', hs, interrupt_sp, Append(ideal, op.arg))
    <3> DEFINE oc == Front(cs)
    <3>1. /\ Len(oc) \in Nat /\ Len(cs) = Len(oc) + 1 /\ c <= Len(oc)
          /\ \A k \in 1 .. Len(oc) : cs[k] = oc[k]
          /\ cs[Len(cs)].ret = op.arg
      BY <2>5, <2>7
    <3>2. Handled(oc, c, op, host, interrupt_sp, ideal)
      BY <2>2, <2>3
    <3> HIDE DEF oc
    <3>3. QED
      BY <1>1, <2>5, <2>8, <2>9, <2>10, <3>1, <3>2, HandledPushed
  <2>12. \A m \in Nat : Counted(hs, interrupt_sp, op', m) => Counted(host', interrupt_sp, op', m)
    BY <1>5, <1>6, <1>7, <2>9, CountedEntered
  <2>13. Handled(cs, c, op', host', interrupt_sp, ideal')
    <3>1. Len(ideal') \in Nat /\ Handled(cs, c, op', hs, interrupt_sp, ideal')
      BY <1>1, <1>8, <1>9, <2>11
    <3>2. QED
      BY <2>8, <2>9, <2>12, <3>1, HandledAlike
  <2>14. QED
    BY <2>2, <2>3, <2>4, <2>13 DEF Handling
<1>13. HostInv'
  BY <1>2, <1>11, <1>12 DEF HostInv, Interrupted, Handling, Doomed
<1>14. QED
  BY <1>6, <1>13 DEF Follows, HostFollowsGuest

\* The host returns where the ring, or what was popped of it, says.
LEMMA FollowsReturned ==
    ASSUME Contexts, InterruptFrameLive, HostInv, LeftKept, UNCHANGED guest, ReturnInto(host), Ring',
           \/ op.do = "hle" /\ op.arg = pc /\ ideal' = ideal
           \/ op.do = "return" /\ ideal # <<>> /\ Last(ideal) = pc /\ ideal' = Front(ideal)
    PROVE  Follows'
<1> DEFINE cs == calls[current]
           n == Len(host)
           len == Len(ideal)
<1>1. /\ Guest /\ cs \in Seq(Calls) /\ host \in Seq(Frames) /\ ideal \in Seq(Pcs \cup {Empty})
      /\ n \in Nat /\ len \in Nat /\ op \in Ops /\ pc \in Pcs /\ FramesShaped
      /\ in_interrupt \in BOOLEAN /\ ideal' \in Seq(Pcs \cup {Empty}) /\ pc # Empty
  BY ContextParts, PcTypes DEF Guest, Host, Ring
<1>2. calls'[current'] = cs /\ pc' = pc
  BY DEF guest
<1>3. CASE op' = Exited /\ host' = <<>> /\ resumed' = NoFrame
  BY <1>1, <1>3, FollowsLeaves DEF exit_guest_context
<1>4. CASE /\ host # <<>> /\ n > 0 /\ host[n].kind \in {"call", "irq"}
           /\ host' = Front(host) /\ resumed' = host[n] /\ op' = host[n].then
           /\ in_interrupt' = (in_interrupt /\ host[n].kind # "irq")
           /\ UNCHANGED interrupt_sp
  <2>1. /\ host' \in Seq(Frames) /\ Len(host') = n - 1
        /\ \A i \in 1 .. n - 1 : host'[i] = host[i]
    BY <1>1, <1>4, SequenceEnds
  <2>2. ideal # <<>> => /\ len > 0 /\ Last(ideal) = ideal[len] /\ Len(Front(ideal)) = len - 1
                        /\ \A k \in 1 .. len - 1 : Front(ideal)[k] = ideal[k]
    BY <1>1, SequenceEnds
  <2>3. /\ Len(ideal') = IF len = 0 THEN 0 ELSE len - Pops(op)
        /\ \A k \in 1 .. Len(ideal') : ideal'[k] = ideal[k]
    <3>1. CASE op.do = "hle"
      BY <1>1, <3>1, PopsIs
    <3>2. CASE op.do = "return"
      <4>1. Pops(op) = 1 /\ ideal' = Front(ideal) /\ ideal # <<>>
        BY <3>2, PopsIs
      <4>2. Len(ideal') = len - 1 /\ len > 0 /\ \A k \in 1 .. len - 1 : ideal'[k] = ideal[k]
        BY <2>2, <4>1
      <4> HIDE DEF n, len
      <4>3. QED
        BY <1>1, <4>1, <4>2
    <3>3. QED
      BY <3>1, <3>2
  <2>4. leftover' # "taken" => Aligned(host, n, op, ideal, len)
    BY DEF HostInv, LeftKept
  <2>5. ASSUME leftover' # "taken"
        PROVE  /\ Aligned(host, n - 1, op', ideal, Len(ideal'))
               /\ IF Pops(op) = 0 THEN op.arg \in {host[n].ret, Empty}
                  ELSE len > 0 => ideal[len] \in {host[n].ret, Empty}
    <3> HIDE DEF n, len
    <3>1. /\ Aligned(host, n - 1, host[n].then, ideal, IF len = 0 THEN 0 ELSE len - Pops(op))
          /\ IF Pops(op) = 0 THEN op.arg \in {host[n].ret, Empty}
             ELSE len > 0 => ideal[len] \in {host[n].ret, Empty}
      BY <1>1, <1>4, <2>4, <2>5, AlignedReturned
    <3>2. QED
      BY <1>4, <2>3, <3>1
  <2>6. ASSUME leftover' # "taken"
        PROVE  Aligned(host', Len(host'), op', ideal', Len(ideal'))
    <3> DEFINE n1 == n - 1
               len1 == Len(ideal')
    <3>1. /\ n1 \in Nat /\ len1 \in Nat /\ Aligned(host, n1, op', ideal, len1)
          /\ \A k \in 1 .. len1 : ideal'[k] = ideal[k]
          /\ \A i \in 1 .. n1 : host'[i] = host[i]
      BY <1>1, <1>4, <2>1, <2>3, <2>5, <2>6
    <3> HIDE DEF n1, len1, n, len
    <3>2. \A i \in 1 .. n1 : /\ host'[i].kind = host[i].kind /\ host'[i].ret = host[i].ret
                              /\ host'[i].then = host[i].then
      BY <3>1
    <3>3. Aligned(host', n1, op', ideal', len1)
      BY <3>1, <3>2, AlignedSame
    <3>4. QED
      BY <2>1, <3>3 DEF n1, len1
  <2>7. ASSUME leftover' # "taken" PROVE resumed'.ret = pc'
    <3>1. CASE op.do = "hle"
      BY <1>1, <1>2, <1>4, <2>5, <2>7, <3>1, PopsIs
    <3>2. CASE op.do = "return"
      BY <1>1, <1>2, <1>4, <2>2, <2>5, <2>7, <3>2, PopsIs
    <3>3. QED
      BY <3>1, <3>2
  <2>8. ASSUME leftover' = "none", in_interrupt', Interrupted(cs)
        PROVE  Handling(cs, op', pc, host', interrupt_sp, ideal')
    <3>1. in_interrupt /\ host[n].kind = "call"
      BY <1>1, <1>4, <2>8
    <3>2. op' = Run /\ op'.do = "run" /\ Pops(op') = 1
      <4>1. n \in 1 .. Len(host)
        BY <1>1, <1>4
      <4>2. op' = Run
        BY <1>1, <1>4, <3>1, <4>1 DEF FramesShaped
      <4>3. QED
        BY <4>2, OpTypes, PopsIs
    <3>3. op.do # "exited" /\ ~Doomed(op)
      BY <1>1 DEF Doomed
    <3>4. Handling(cs, op, pc, host, interrupt_sp, ideal)
      BY <2>8, <3>1, <3>3 DEF HostInv, LeftKept
    <3> HIDE DEF cs
    <3>5. PICK c \in 1 .. Len(cs) :
            Inside(cs, c, op) /\ Handled(OpenCalls(cs, op, pc), c, op, host, interrupt_sp, ideal)
      BY <3>4 DEF Handling
    <3>6. Inside(cs, c, op') /\ OpenCalls(cs, op', pc) = cs
      BY <3>2, <3>5, OpenElse DEF Inside
    <3>7. interrupt_sp \in 1 .. Len(host) /\ host[interrupt_sp].kind = "irq"
      BY <3>1, <3>3 DEF InterruptFrameLive
    <3>8. interrupt_sp \in 1 .. n - 1 /\ interrupt_sp \in Nat /\ interrupt_sp > 0
      BY <1>1, <3>1, <3>7
    <3>9. Alike(host, host', interrupt_sp) /\ Alike(host, host', Len(host'))
      <4>1. \A i \in 1 .. interrupt_sp : i \in 1 .. n - 1
        BY <1>1, <3>8
      <4>2. QED
        BY <2>1, <4>1 DEF Alike
    <3>10. \A m \in Nat : Counted(host, interrupt_sp, op, m) =>
                              Counted(host', interrupt_sp, op', m - Pops(op))
      BY <1>1, <2>1, <3>1, <3>2, <3>7, <3>9, CountedReturned
    <3>11. Handled(cs, c, op', host', interrupt_sp, ideal')
      <4>1. CASE op.do = "hle"
        <5>1. OpenCalls(cs, op, pc) = cs /\ ideal' = ideal
          BY <4>1, OpenElse
        <5>2. \A m \in Nat : Counted(host, interrupt_sp, op, m) => Counted(host', interrupt_sp, op', m)
          <6>1. Pops(op) = 0 /\ \A m \in Nat : m - 0 = m
            BY <4>1, PopsIs
          <6>2. QED
            BY <3>10, <6>1
        <5>3. QED
          BY <1>1, <3>5, <3>8, <3>9, <5>1, <5>2, HandledAlike
      <4>2. CASE op.do = "return" /\ pc \notin {Uninterrupt, Entry}
        <5> DEFINE x == [ret |-> pc, irq |-> FALSE]
                   oc == Append(cs, x)
        <5>1. OpenCalls(cs, op, pc) = oc
          BY <4>2, OpenAtReturn
        <5>2. x \in Calls
          BY <1>1 DEF Calls
        <5> HIDE DEF x
        <5>3. /\ Len(oc) \in Nat /\ Len(cs) = Len(oc) - 1 /\ c \in Nat /\ c < Len(oc)
              /\ \A k \in 1 .. Len(cs) : cs[k] = oc[k]
          BY <1>1, <5>2, Appended
        <5> HIDE DEF oc
        <5>4. \A m \in Nat : Counted(host, interrupt_sp, op, m) => Counted(host', interrupt_sp, op', m - 1)
          <6>1. Pops(op) = 1
            BY <4>2, PopsIs
          <6>2. QED
            BY <3>10, <6>1
        <5>5. ideal # <<>> /\ ideal[Len(ideal)] # Empty /\ ideal' = Front(ideal)
          BY <1>1, <2>2, <4>2
        <5>6. Handled(oc, c, op, host, interrupt_sp, ideal)
          BY <3>5, <5>1
        <5>7. Handled(cs, c, op', host', interrupt_sp, Front(ideal))
          BY <1>1, <3>8, <3>9, <5>3, <5>4, <5>5, <5>6, HandledPopped
        <5>8. QED
          BY <5>5, <5>7
      <4>3. CASE op.do = "return" /\ pc \in {Uninterrupt, Entry}
        <5>1. OpenCalls(cs, op, pc) = cs /\ Pops(op) = 1
          BY <4>3, OpenElse, PopsIs
        <5>2. PICK q \in 0 .. len :
                  /\ Followed(cs, c, ideal, q)
                  /\ q > 0 => Counted(host, interrupt_sp, op, len - q)
          BY <3>5, <5>1 DEF Handled
        <5>3. len > 0 /\ ideal[len] = pc /\ pc # Empty
          BY <1>1, <2>2, <4>3
        <5>4. CASE q = len
          <6>1. Counted(host, interrupt_sp, op, 0)
            BY <1>1, <5>2, <5>3, <5>4
          <6>2. /\ n - 1 \in interrupt_sp .. Len(host)
                /\ \A j \in n - 1 + 1 .. Len(host) : host[j].kind = "call"
            BY <1>1, <3>1, <3>8
          <6>3. Len(host) - (n - 1) <= 0 + 1 - Pops(op)
            BY <6>1, <6>2, Zenon DEF Counted
          <6>4. QED
            BY <1>1, <5>1, <6>3
        <5>5. CASE q # len
          <6>1. 0 \in 0 .. len - q - 1 /\ len - 0 = len /\ \A j \in 0 .. 0 : len - j = len
            BY <1>1, <5>5
          <6>2. 0 < Len(cs) - c /\ ideal[len] = cs[Len(cs) - 0].ret
            BY <5>2, <5>3, <6>1 DEF Followed
          <6>3. /\ Len(cs) \in Nat /\ Len(cs) - 0 = Len(cs) /\ Len(cs) \in c + 1 .. Len(cs)
                /\ Len(cs) \in 1 .. Len(cs)
            BY <1>1, <6>2
          <6>4. ~cs[Len(cs)].irq
            BY <3>5, <6>3 DEF Inside
          <6>5. cs[Len(cs)].ret \in {Uninterrupt, Entry} => cs[Len(cs)].irq
            <7>1. Len(cs) # 1
              BY <3>5, <6>3
            <7>2. QED
              BY <1>1, <6>3, <7>1 DEF Guest, cs
          <6>6. QED
            BY <4>3, <5>3, <6>2, <6>3, <6>4, <6>5
        <5>6. QED
          BY <5>4, <5>5
      <4>4. QED
        BY <4>1, <4>2, <4>3
    <3>12. QED
      BY <3>6, <3>11 DEF Handling
  <2>9. HostInv'
    BY <1>2, <1>4, <2>6, <2>8 DEF HostInv, Interrupted, Handling, Doomed
  <2>10. QED
    BY <2>7, <2>9 DEF Follows, HostFollowsGuest
<1>5. QED
  BY <1>1, <1>3, <1>4, Returned

\* A return that was not predicted is run from here, in an interrupt.
LEMMA FollowsReplayed ==
    ASSUME Contexts, InterruptFrameLive, RingInv, HostInv, LeftKept, Ring',
           UNCHANGED <<guest, in_interrupt, interrupt_sp>>,
           op.do = "return", Popped # pc, in_interrupt, pop_and_push_back,
           call_jit_fun(Append(host, Leaving("replay")), pc)
    PROVE  Follows'
<1> DEFINE cs == calls[current]
           f == Leaving("replay")
           hs == Append(host, f)
           n == Len(host)
           len == Len(ideal)
<1>1. /\ Guest /\ cs \in Seq(Calls) /\ host \in Seq(Frames) /\ ideal \in Seq(Pcs \cup {Empty})
      /\ n \in Nat /\ len \in Nat /\ pc \in Pcs /\ ideal' \in Seq(Pcs \cup {Empty})
      /\ Popped \in Pcs \cup {Empty}
  BY ContextParts, RingSteps DEF Guest, Host, Ring
<1>2. calls'[current'] = cs /\ pc' = pc
  BY DEF guest
<1>3. f \in Frames /\ f.kind = "replay"
  BY FrameTypes
<1>4. call_jit_fun(hs, pc)
  OBVIOUS
<1> HIDE DEF f
<1>5. /\ hs \in Seq(Frames) /\ Len(hs) = n + 1 /\ hs[n + 1] = f
      /\ \A i \in 1 .. n : hs[i] = host[i]
  BY <1>1, <1>3, Appended
<1> HIDE DEF hs
<1>6. /\ host' \in Seq(Frames) /\ Len(host') \in {Len(hs), Len(hs) + 1}
      /\ Alike(hs, host', Len(hs))
      /\ Len(host') = Len(hs) + 1 => host'[Len(hs) + 1].kind = "flushed"
      /\ op'.do \in {"run", "uninterrupt"} /\ resumed' = NoFrame
  BY <1>1, <1>4, <1>5, Entered DEF Alike
<1>7. Pops(op') = 1
  BY <1>6, PopsIs
<1>8. host'[Len(host')].kind \in {"replay", "flushed"} /\ Len(host') \in Nat
  <2>1. Len(hs) \in 1 .. Len(hs)
    BY <1>1, <1>5
  <2>2. host'[Len(hs)].kind = "replay"
    BY <1>3, <1>5, <1>6, <2>1 DEF Alike
  <2>3. QED
    BY <1>6, <2>2
<1>9. Popped # Empty => ideal # <<>> /\ Popped = Last(ideal)
  <2>1. RingMarked \/ RingBacked
    BY DEF RingInv, Doomed
  <2>2. QED
    BY <2>1, RingPopped
<1>10. /\ Len(ideal') = IF len = 0 THEN 1 ELSE len
       /\ ideal'[Len(ideal')] = Popped
       /\ \A k \in 1 .. len - 1 : ideal'[k] = ideal[k]
  <2> DEFINE rest == IF ideal = <<>> THEN <<>> ELSE Front(ideal)
  <2>1. ideal' = Append(rest, Popped)
    BY DEF pop_and_push_back, IdealRest, Front
  <2>2. /\ rest \in Seq(Pcs \cup {Empty}) /\ Len(rest) = IF len = 0 THEN 0 ELSE len - 1
        /\ \A k \in 1 .. len - 1 : rest[k] = ideal[k]
    <3>1. CASE ideal = <<>>
      BY <3>1
    <3>2. CASE ideal # <<>>
      <4>1. /\ len > 0 /\ Front(ideal) \in Seq(Pcs \cup {Empty}) /\ Len(Front(ideal)) = len - 1
            /\ \A k \in 1 .. len - 1 : Front(ideal)[k] = ideal[k]
        BY <1>1, <3>2, SequenceEnds
      <4>2. rest = Front(ideal)
        BY <3>2
      <4> HIDE DEF rest
      <4>3. QED
        BY <1>1, <4>1, <4>2
    <3>3. QED
      BY <3>1, <3>2
  <2> HIDE DEF rest
  <2>3. /\ Len(ideal') = Len(rest) + 1 /\ ideal'[Len(rest) + 1] = Popped
        /\ \A k \in 1 .. Len(rest) : ideal'[k] = rest[k]
    BY <1>1, <2>1, <2>2, Appended
  <2> HIDE DEF n, len
  <2>4. Len(rest) \in Nat /\ \A k \in 1 .. len - 1 : k \in 1 .. Len(rest)
    BY <1>1, <2>2
  <2>5. Len(ideal') = IF len = 0 THEN 1 ELSE len
    BY <1>1, <2>2, <2>3, <2>4
  <2>6. QED
    BY <2>2, <2>3, <2>4, <2>5
<1>11. Aligned(host', Len(host'), op', ideal', Len(ideal'))
  BY <1>1, <1>8, AlignedShielded
<1>12. ASSUME leftover' = "none", Interrupted(cs)
       PROVE  Handling(cs, op', pc, host', interrupt_sp, ideal')
  <2>1. Handling(cs, op, pc, host, interrupt_sp, ideal)
    BY <1>12 DEF HostInv, LeftKept, Doomed
  <2> HIDE DEF cs
  <2> DEFINE oc == OpenCalls(cs, op, pc)
  <2>2. PICK c \in 1 .. Len(cs) :
            Inside(cs, c, op) /\ Handled(oc, c, op, host, interrupt_sp, ideal)
    BY <2>1 DEF Handling
  <2>3. PICK q \in 0 .. len :
            /\ Followed(oc, c, ideal, q)
            /\ q > 0 => /\ Returnable(host, interrupt_sp, ideal, q)
                        /\ Len(oc) - c <= len - q
    BY <2>2 DEF Handled
  <2>4. Inside(cs, c, op') /\ OpenCalls(cs, op', pc) = cs
    BY <1>6, <2>2, OpenElse DEF Inside
  <2>5. /\ pc \in {Uninterrupt, Entry} => oc = cs
        /\ pc \notin {Uninterrupt, Entry} => oc[Len(oc)].ret = pc
        /\ Len(oc) \in Nat /\ Len(cs) <= Len(oc)
    <3>1. CASE pc \in {Uninterrupt, Entry}
      BY <1>1, <3>1, OpenElse
    <3>2. CASE pc \notin {Uninterrupt, Entry}
      <4> DEFINE x == [ret |-> pc, irq |-> FALSE]
      <4>1. oc = Append(cs, x)
        BY <3>2, OpenAtReturn
      <4>2. x \in Calls /\ x.ret = pc
        BY <1>1 DEF Calls
      <4> HIDE DEF x, oc
      <4>3. Len(oc) = Len(cs) + 1 /\ oc[Len(cs) + 1] = x /\ Len(cs) \in Nat
        BY <1>1, <4>1, <4>2, Appended
      <4>4. QED
        BY <3>2, <4>2, <4>3
    <3>3. QED
      BY <3>1, <3>2
  <2> HIDE DEF oc
  <2>6. q \in 0 .. Len(ideal') /\ (q > 0 => Len(ideal') = len) /\ Len(ideal') \in Nat
    BY <1>1, <1>10
  <2>7. Followed(cs, c, ideal', q)
    <3>1. CASE Popped = Empty
      <4>1. Len(ideal') - 0 = Len(ideal') /\ \A k \in 0 .. Len(ideal') - q - 1 : 0 \in 0 .. k
        BY <2>6
      <4>2. QED
        BY <1>10, <3>1, <4>1 DEF Followed
    <3>2. CASE Popped # Empty
      <4>1. len > 0 /\ Len(ideal') = len /\ Popped = ideal[len] /\ ideal'[len] = ideal[len]
        BY <1>1, <1>9, <1>10, <3>2, SequenceEnds
      <4>2. \A k \in 1 .. Len(ideal') : ideal'[k] = ideal[k]
        BY <1>1, <1>10, <4>1
      <4>3. ideal' = ideal
        BY <1>1, <4>1, <4>2, SeqEqual
      <4>4. CASE q = len
        <5>1. 0 .. Len(ideal') - q - 1 = {}
          BY <1>1, <4>1, <4>4
        <5>2. QED
          BY <5>1 DEF Followed
      <4>5. CASE q # len
        <5>1. 0 \in 0 .. len - q - 1 /\ len - 0 = len /\ \A j \in 0 .. 0 : len - j = len
          BY <1>1, <4>5
        <5>2. ideal[len] = oc[Len(oc) - 0].ret
          BY <2>3, <3>2, <4>1, <5>1 DEF Followed
        <5>3. Len(oc) - 0 = Len(oc)
          BY <2>5
        <5>4. pc \in {Uninterrupt, Entry}
          BY <2>5, <4>1, <5>2, <5>3
        <5>5. QED
          BY <2>3, <2>5, <4>3, <5>4
      <4>6. QED
        BY <4>4, <4>5
    <3>3. QED
      BY <3>1, <3>2
  <2>8. ASSUME q > 0
        PROVE  /\ Returnable(host', interrupt_sp, ideal', q)
               /\ Len(cs) - c <= Len(ideal') - q
               /\ Counted(host', interrupt_sp, op', Len(ideal') - q)
    <3>1. interrupt_sp \in 1 .. n /\ interrupt_sp \in Nat /\ interrupt_sp > 0
      BY <1>1 DEF InterruptFrameLive
    <3>2. Alike(host, host', interrupt_sp)
      <4>1. \A i \in 1 .. interrupt_sp : i \in 1 .. n /\ i \in 1 .. Len(hs)
        BY <1>1, <1>5, <3>1
      <4>2. QED
        BY <1>5, <1>6, <4>1 DEF Alike
    <3>3. \A k \in 1 .. q - 1 : ideal'[k] = ideal[k]
      <4>1. \A k \in 1 .. q - 1 : k \in 1 .. len - 1
        BY <1>1
      <4>2. QED
        BY <1>10, <4>1
    <3>4. ideal'[q] \in {ideal[q], Empty}
      <4>1. CASE q = len
        <5>1. ideal'[q] = Popped /\ (Popped # Empty => Popped = ideal[q])
          BY <1>1, <1>9, <1>10, <2>6, <2>8, <4>1, SequenceEnds
        <5>2. QED
          BY <5>1
      <4>2. CASE q # len
        <5>1. q \in 1 .. len - 1
          BY <1>1, <2>8, <4>2
        <5>2. QED
          BY <1>10, <5>1
      <4>3. QED
        BY <4>1, <4>2
    <3>5. Returnable(host', interrupt_sp, ideal', q)
      <4>1. q \in Nat /\ q > 0 /\ Returnable(host, interrupt_sp, ideal, q)
        BY <2>3, <2>8
      <4>2. QED
        BY <3>1, <3>2, <3>3, <3>4, <4>1, ReturnableKept
    <3>6. Len(cs) - c <= Len(ideal') - q
      <4>1. Len(cs) \in Nat /\ c \in Nat
        BY <1>1
      <4>2. QED
        BY <1>1, <2>3, <2>5, <2>6, <2>8, <4>1
    <3>7. Len(ideal') - q \in Nat
      BY <2>6
    <3>8. Counted(host', interrupt_sp, op', Len(ideal') - q)
      BY <1>6, <1>7, <1>8, <3>1, <3>7, CountedShielded
    <3>9. QED
      BY <3>5, <3>6, <3>8
  <2>9. Handled(cs, c, op', host', interrupt_sp, ideal')
    BY <2>6, <2>7, <2>8 DEF Handled
  <2>10. QED
    BY <2>4, <2>9 DEF Handling
<1>13. HostInv'
  BY <1>2, <1>11, <1>12 DEF HostInv, Interrupted, Handling, Doomed
<1>14. QED
  BY <1>6, <1>13 DEF Follows, HostFollowsGuest

\* The host returns to the frame in interrupt_sp: nothing the handler has called
\* is open, and none of its calls has left an entry, so that the entry popped is
\* that of the interrupt.
LEMMA FollowsInterrupted ==
    ASSUME Contexts, InterruptFrameLive, RingInv, HostInv, Ring', pc' \in Pcs,
           leftover' # "taken" => leftover = "none",
           op.do = "uninterrupt", in_interrupt, Popped = pc', pop_return_stack,
           ReturnInto(SubSeq(host, 1, interrupt_sp))
    PROVE  Follows'
<1> DEFINE cs == calls[current]
           len == Len(ideal)
           sp == interrupt_sp
           hs == SubSeq(host, 1, sp)
<1>1. /\ Guest /\ cs \in Seq(Calls) /\ host \in Seq(Frames) /\ ideal \in Seq(Pcs \cup {Empty})
      /\ len \in Nat /\ ideal' \in Seq(Pcs \cup {Empty}) /\ in_interrupt \in BOOLEAN
      /\ pc = Uninterrupt /\ pc' # Empty /\ Len(host) \in Nat
  BY ContextParts, PcTypes DEF Guest, Host, Ring
<1>2. /\ Len(cs) \in Nat /\ Len(cs) \in 1 .. Len(cs) /\ cs[Len(cs)].irq
  <2>1. cs # <<>> /\ Last(cs).irq
    BY <1>1 DEF Guest
  <2> HIDE DEF cs
  <2>2. Len(cs) \in Nat /\ Len(cs) > 0 /\ Last(cs) = cs[Len(cs)]
    BY <1>1, <2>1, SequenceEnds
  <2>3. QED
    BY <2>1, <2>2
<1>3. ideal # <<>> /\ Popped = Last(ideal)
  <2>1. RingMarked \/ RingBacked
    BY DEF RingInv, Doomed
  <2>2. QED
    BY <1>1, <2>1, RingPopped
<1>4. /\ len > 0 /\ ideal[len] = pc' /\ ideal' = Front(ideal) /\ Len(ideal') = len - 1
      /\ \A k \in 1 .. len - 1 : ideal'[k] = ideal[k]
  <2>1. ideal' = Front(ideal)
    BY <1>3 DEF pop_return_stack, IdealRest, Front
  <2>2. QED
    BY <1>1, <1>3, <2>1, SequenceEnds
<1>5. leftover' # "taken" => Handling(cs, op, pc, host, interrupt_sp, ideal)
  BY <1>2 DEF HostInv, Doomed, Interrupted
<1>6. ASSUME leftover' # "taken" PROVE Returnable(host, sp, ideal, len)
  <2> HIDE DEF cs
  <2>1. PICK c \in 1 .. Len(cs) :
            Inside(cs, c, op) /\ Handled(OpenCalls(cs, op, pc), c, op, host, interrupt_sp, ideal)
    BY <1>5, <1>6 DEF Handling
  <2>2. OpenCalls(cs, op, pc) = cs
    BY OpenElse
  <2>3. c = Len(cs)
    <3>1. c # Len(cs) => Len(cs) \in c + 1 .. Len(cs)
      BY <1>2
    <3>2. QED
      BY <1>2, <2>1, <3>1 DEF Inside
  <2>4. PICK q \in 0 .. len : Followed(cs, c, ideal, q) /\ (q > 0 => Returnable(host, sp, ideal, q))
    BY <2>1, <2>2 DEF Handled
  <2>5. q = len
    <3> SUFFICES ASSUME q # len PROVE FALSE
      OBVIOUS
    <3>1. 0 \in 0 .. len - q - 1 /\ len - 0 = len /\ \A j \in 0 .. 0 : len - j = len
      BY <1>1
    <3>2. 0 < Len(cs) - c
      BY <1>1, <1>4, <2>4, <3>1 DEF Followed
    <3>3. QED
      BY <1>2, <2>3, <3>2
  <2>6. QED
    BY <1>4, <2>4, <2>5
<1>7. leftover' # "taken" =>
          ideal[len] \in {host[sp].ret, Empty} /\ Aligned(host, sp - 1, host[sp].then, ideal, len - 1)
  BY <1>6 DEF Returnable
<1>8. leftover' # "taken" => host[sp].ret = pc'
  BY <1>1, <1>4, <1>7
<1>9. /\ hs \in Seq(Frames) /\ Len(hs) = sp /\ sp \in 1 .. Len(host)
      /\ \A i \in 1 .. sp : hs[i] = host[i]
  BY <1>1, Cut
<1>10. host[sp].kind = "irq"
  BY DEF InterruptFrameLive
<1>11. ReturnInto(hs)
  OBVIOUS
<1> HIDE DEF hs
<1>12. CASE op' = Exited /\ host' = <<>> /\ resumed' = NoFrame
  BY <1>1, <1>12, FollowsLeaves DEF exit_guest_context
<1>13. CASE /\ hs # <<>> /\ Len(hs) > 0
            /\ host' = Front(hs) /\ resumed' = hs[Len(hs)] /\ op' = hs[Len(hs)].then
            /\ in_interrupt' = (in_interrupt /\ hs[Len(hs)].kind # "irq")
  <2>1. Len(hs) = sp /\ hs[Len(hs)] = host[sp] /\ sp \in Nat /\ sp > 0
    BY <1>1, <1>9
  <2>2. Len(host') = sp - 1 /\ \A i \in 1 .. sp - 1 : host'[i] = host[i]
    <3>1. Len(Front(hs)) = Len(hs) - 1 /\ \A i \in 1 .. Len(hs) - 1 : Front(hs)[i] = hs[i]
      BY <1>9, <1>13, SequenceEnds
    <3>2. \A i \in 1 .. sp - 1 : i \in 1 .. sp
      BY <2>1
    <3>3. QED
      BY <1>9, <1>13, <2>1, <3>1, <3>2
  <2>3. ASSUME leftover' # "taken"
        PROVE  Aligned(host', Len(host'), op', ideal', Len(ideal'))
    <3> DEFINE n1 == sp - 1
               len1 == len - 1
    <3>1. /\ n1 \in Nat /\ len1 \in Nat /\ Len(host') = n1 /\ Len(ideal') = len1
          /\ \A i \in 1 .. n1 : host'[i] = host[i]
          /\ \A k \in 1 .. len1 : ideal'[k] = ideal[k]
      BY <1>1, <1>4, <2>1, <2>2
    <3>2. Aligned(host, n1, op', ideal, len1)
      BY <1>7, <1>13, <2>1, <2>3
    <3> HIDE DEF n1, len1
    <3>3. \A i \in 1 .. n1 : /\ host'[i].kind = host[i].kind /\ host'[i].ret = host[i].ret
                              /\ host'[i].then = host[i].then
      BY <3>1
    <3>4. Aligned(host', n1, op', ideal', len1)
      BY <3>1, <3>2, <3>3, AlignedSame
    <3>5. QED
      BY <3>1, <3>4
  <2>4. in_interrupt' = FALSE /\ resumed' = host[sp]
    BY <1>10, <1>13, <2>1
  <2>5. HostInv'
    BY <2>3, <2>4 DEF HostInv
  <2>6. QED
    BY <1>8, <2>4, <2>5 DEF Follows, HostFollowsGuest
<1>14. QED
  BY <1>1, <1>9, <1>11, <1>12, <1>13, Returned

\* The guest goes on elsewhere, with an empty ring.
LEMMA FollowsElsewhere ==
    ASSUME Contexts, HostInv, leftover' # "taken" => leftover # "taken", Guest', clear_return_stack_ptr, call_jit_fun(host, pc')
    PROVE  Follows'
<1> DEFINE cs2 == calls'[current']
<1>1. /\ host \in Seq(Frames) /\ Len(host) \in Nat /\ Len(ideal) \in Nat /\ pc' \in Pcs
      /\ cs2 \in Seq(Calls) /\ Len(cs2) \in Nat
  <2>1. /\ host \in Seq(Frames) /\ ideal \in Seq(Pcs \cup {Empty})
    BY DEF Contexts, TypeOK
  <2>2. pc' \in Pcs /\ cs2 \in Seq(Calls)
    BY DEF Guest
  <2>3. QED
    BY <2>1, <2>2
<1>2. /\ host' \in Seq(Frames) /\ Len(host') \in {Len(host), Len(host) + 1}
      /\ \A i \in 1 .. Len(host) : /\ host'[i].kind = host[i].kind /\ host'[i].ret = host[i].ret
                                   /\ host'[i].then = host[i].then
      /\ Len(host') = Len(host) + 1 => host'[Len(host) + 1].kind = "flushed"
      /\ op'.do \in {"run", "uninterrupt"} /\ resumed' = NoFrame
  BY <1>1, Entered
<1>3. Pops(op') = 1
  BY <1>2, PopsIs
<1>4. ideal' = <<>> /\ Len(ideal') = 0
  BY DEF clear_return_stack_ptr
<1>5. ASSUME leftover' # "taken"
      PROVE  Aligned(host', Len(host'), op', ideal', Len(ideal'))
  <2>1. CASE Len(host') = Len(host)
    <3>1. Aligned(host, Len(host), op, ideal, Len(ideal))
      BY <1>5 DEF HostInv
    <3>2. Aligned(host, Len(host), op', ideal', 0)
      BY <1>1, <1>3, <3>1, AlignedDry
    <3>3. Aligned(host', Len(host), op', ideal', 0)
      <4>1. \A k \in 1 .. 0 : ideal'[k] = ideal'[k]
        OBVIOUS
      <4>2. QED
        BY <1>1, <1>2, <3>2, <4>1, AlignedSame
    <3>4. QED
      BY <1>4, <2>1, <3>3
  <2>2. CASE Len(host') = Len(host) + 1
    <3>1. Len(host) + 1 \in Nat /\ Len(ideal') \in Nat
      BY <1>1, <1>4
    <3>2. QED
      BY <1>2, <2>2, <3>1, AlignedShielded
  <2>3. QED
    BY <1>2, <2>1, <2>2
<1>6. ASSUME Interrupted(cs2)
      PROVE  Handling(cs2, op', pc', host', interrupt_sp', ideal')
  <2> HIDE DEF cs2
  <2> DEFINE T == {i \in 1 .. Len(cs2) : cs2[i].irq}
  <2>1. T \in SUBSET (1 .. Len(cs2)) /\ T # {}
    BY <1>6 DEF Interrupted
  <2>2. PICK c \in T : \A y \in T : y <= c
    BY <1>1, <2>1, Greatest
  <2>3. Inside(cs2, c, op')
    <3>1. c \in 1 .. Len(cs2) /\ cs2[c].irq
      OBVIOUS
    <3>2. ASSUME NEW i \in c + 1 .. Len(cs2) PROVE ~cs2[i].irq
      <4>1. i \in 1 .. Len(cs2) /\ ~(i <= c)
        BY <1>1, <3>1
      <4>2. QED
        BY <2>2, <4>1
    <3>3. QED
      BY <1>2, <3>1, <3>2 DEF Inside
  <2>4. OpenCalls(cs2, op', pc') = cs2
    BY <1>2, OpenElse
  <2>5. Handled(cs2, c, op', host', interrupt_sp', ideal')
    <3>1. 0 \in 0 .. Len(ideal') /\ 0 .. Len(ideal') - 0 - 1 = {}
      BY <1>4
    <3>2. Followed(cs2, c, ideal', 0)
      BY <3>1 DEF Followed
    <3>3. QED
      BY <3>1, <3>2 DEF Handled
  <2>6. c \in 1 .. Len(cs2)
    OBVIOUS
  <2>7. QED
    BY <2>3, <2>4, <2>5, <2>6 DEF Handling
<1>7. HostInv'
  BY <1>5, <1>6 DEF HostInv, Interrupted, Handling, Doomed
<1>8. QED
  BY <1>2, <1>7 DEF Follows, HostFollowsGuest

LEMMA FollowsStep ==
    Contexts /\ InterruptFrameLive /\ RingInv /\ Follows /\ [Next]_vars => Follows'
<1> SUFFICES ASSUME Contexts, InterruptFrameLive, RingInv, Follows, [Next]_vars PROVE Follows'
  OBVIOUS
<1>1. HostInv /\ HostFollowsGuest
  BY DEF Follows
<1>2. Contexts'
  BY ContextsStep
<1>3. Guest' /\ Ring' /\ ideal' \in Seq(Pcs \cup {Empty}) /\ pc' \in Pcs
  BY <1>2, Zenon DEF Contexts, Guest, Ring, TypeOK, WellNested, Calls
<1>4. /\ Guest /\ Host /\ host \in Seq(Frames) /\ pc \in Pcs /\ Len(host) \in Nat
  BY ContextParts DEF Guest, Host
<1>5. ASSUME exit_guest_context PROVE Follows'
  BY <1>3, <1>5, FollowsLeaves
<1>6. CASE execute
  <2> DEFINE hs == <<>>
  <2>1. hs \in Seq(Frames) /\ Len(hs) = 0
    OBVIOUS
  <2>2. call_jit_fun(hs, pc) /\ in_interrupt' = FALSE
    BY <1>6 DEF execute
  <2> HIDE DEF hs
  <2>3. /\ host' \in Seq(Frames) /\ Len(host') \in {0, 1} /\ resumed' = NoFrame
        /\ Len(host') = 1 => host'[1].kind = "flushed"
    <3>1. /\ host' \in Seq(Frames) /\ Len(host') \in {Len(hs), Len(hs) + 1} /\ resumed' = NoFrame
          /\ Len(host') = Len(hs) + 1 => host'[Len(hs) + 1].kind = "flushed"
      BY <1>4, <2>1, <2>2, Entered
    <3>2. Len(hs) + 1 = 1
      BY <2>1
    <3>3. QED
      BY <2>1, <3>1, <3>2
  <2>4. Len(host') \in Nat /\ Len(ideal') \in Nat
        /\ (Len(host') > 0 => host'[Len(host')].kind \notin {"call", "irq"})
    BY <1>3, <2>3
  <2>5. Aligned(host', Len(host'), op', ideal', Len(ideal'))
    BY <2>4, AlignedShielded
  <2>6. HostInv'
    BY <2>2, <2>5 DEF HostInv
  <2>7. QED
    BY <2>3, <2>6 DEF Follows, HostFollowsGuest
<1>7. CASE (\E r \in Returns : bl(r)) \/ b \/ b_local \/ bx_lr \/ ldm_pc
  BY <1>1, <1>7, FollowsBranches
<1>8. CASE fs_clear_overlay_returns \/ breakout_imm
  BY <1>5, <1>8 DEF fs_clear_overlay_returns, breakout_imm
<1>9. CASE hle_function
  BY <1>1, <1>9, FollowsHle
<1>10. CASE handle_interrupt
  BY <1>1, <1>3, <1>10, FollowsInterrupt
<1>11. ASSUME UNCHANGED <<guest, ring, in_interrupt, interrupt_sp, leftover>>, resumed' = NoFrame,
              op.do \notin {"exited", "hle", "call", "return"},
              op'.do \notin {"hle", "call", "return"},
              host' \in Seq(Frames), Len(host') \in {Len(host), Len(host) + 1},
              Alike(host, host', Len(host)),
              Len(host') = Len(host) + 1 => host'[Len(host) + 1].kind = "flushed"
       PROVE  Follows'
  <2>1. calls'[current'] = calls[current] /\ ideal' = ideal
    BY <1>11 DEF guest, ring
  <2>2. \A c : Inside(calls[current], c, op) => Inside(calls'[current'], c, op')
    BY <1>11, <2>1 DEF Inside
  <2>3. OpenCalls(calls'[current'], op', pc') = OpenCalls(calls[current], op, pc)
    BY <1>11, <2>1, OpenElse
  <2>4. QED
    BY <1>1, <1>11, <2>1, <2>2, <2>3, FollowsKept DEF LeftKept
<1>12. CASE branch_reg
  <2>1. UNCHANGED <<guest, in_interrupt, interrupt_sp, leftover>>
    BY <1>12 DEF branch_reg
  <2>2. CASE op.do = "call" /\ push_return_stack(op.arg)
             /\ call_jit_fun(Append(host, CallFrame(op.arg)), pc)
    BY <1>1, <2>1, <2>2, FollowsCall DEF LeftKept
  <2>3. CASE op.do \in {"jump", "any"} /\ call_jit_fun(host, pc) /\ UNCHANGED ring
    <3>1. /\ host' \in Seq(Frames) /\ Len(host') \in {Len(host), Len(host) + 1}
          /\ Alike(host, host', Len(host))
          /\ Len(host') = Len(host) + 1 => host'[Len(host) + 1].kind = "flushed"
          /\ op'.do \in {"run", "uninterrupt"} /\ resumed' = NoFrame
      BY <1>4, <2>3, Entered DEF Alike
    <3>2. QED
      BY <1>11, <2>1, <2>3, <3>1
  <2>4. QED
    BY <1>12, <2>2, <2>3 DEF branch_reg
<1>13. CASE loop
  <2>1. CASE exit_guest_context
    BY <1>5, <2>1
  <2>2. CASE op' = Run /\ resumed' = NoFrame /\ UNCHANGED host
    <3>1. op.do = "loop" /\ UNCHANGED <<guest, ring, in_interrupt, interrupt_sp, leftover>> /\ op'.do = "run"
      BY <1>13, <2>2, OpTypes DEF loop
    <3>2. Alike(host, host', Len(host)) /\ Len(host') = Len(host) /\ Len(host') # Len(host) + 1
      BY <1>4, <2>2 DEF Alike
    <3>3. QED
      BY <1>4, <1>11, <2>2, <3>1, <3>2
  <2>3. QED
    BY <1>13, <2>1, <2>2 DEF loop
<1>14. CASE branch_lr
  <2>1. op.do = "return" /\ UNCHANGED guest /\ LeftKept
    BY <1>14 DEF branch_lr, LeftKept
  <2>2. CASE Popped = pc /\ pop_return_stack /\ ReturnInto(host)
    <3>1. RingMarked \/ RingBacked
      BY <2>1 DEF RingInv, Doomed
    <3>2. ideal # <<>> /\ Popped = Last(ideal)
      BY <1>4, <2>1, <2>2, <3>1, RingPopped, PcTypes
    <3>3. ideal' = Front(ideal)
      BY <2>2, <3>2 DEF pop_return_stack, IdealRest, Front
    <3>4. QED
      BY <1>1, <1>3, <2>1, <2>2, <3>2, <3>3, FollowsReturned
  <2>3. CASE /\ Popped # pc /\ in_interrupt /\ pop_and_push_back
             /\ call_jit_fun(Append(host, Leaving("replay")), pc)
             /\ UNCHANGED <<in_interrupt, interrupt_sp>>
    BY <1>1, <1>3, <2>1, <2>3, FollowsReplayed
  <2>4. CASE exit_guest_context
    BY <1>5, <2>4
  <2>5. QED
    BY <1>14, <2>2, <2>3, <2>4 DEF branch_lr
<1>15. CASE hle_post_function
  <2>1. op.do = "hle" /\ UNCHANGED guest /\ ideal' = ideal /\ LeftKept
    BY <1>15 DEF hle_post_function, ring, LeftKept
  <2>2. CASE op.arg = pc /\ ReturnInto(host)
    BY <1>1, <1>3, <2>1, <2>2, FollowsReturned
  <2>3. CASE exit_guest_context
    BY <1>5, <2>3
  <2>4. QED
    BY <1>15, <2>2, <2>3 DEF hle_post_function
<1>16. CASE hle_bios_uninterrupt
  <2>1. CASE exit_guest_context
    BY <1>5, <2>1
  <2>2. CASE /\ in_interrupt /\ Popped = pc' /\ pop_return_stack
             /\ ReturnInto(SubSeq(host, 1, interrupt_sp))
             /\ leftover' = IF leftover = "left" THEN "taken" ELSE leftover
    <3>1. leftover' # "taken" => leftover = "none"
      BY <2>2, ContextParts DEF Left
    <3>2. QED
      BY <1>1, <1>3, <1>16, <2>2, <3>1, FollowsInterrupted DEF hle_bios_uninterrupt
  <2>3. CASE /\ clear_return_stack_ptr /\ call_jit_fun(host, pc')
             /\ leftover' = IF leftover = "left" THEN "none" ELSE leftover
    BY <1>1, <1>3, <2>3, FollowsElsewhere
  <2>4. QED
    BY <1>16, <2>1, <2>2, <2>3 DEF hle_bios_uninterrupt
<1>17. CASE UNCHANGED vars
  <2>1. /\ host' = host /\ op' = op /\ ideal' = ideal /\ in_interrupt' = in_interrupt
        /\ interrupt_sp' = interrupt_sp /\ calls' = calls /\ current' = current /\ pc' = pc
        /\ resumed' = resumed /\ leftover' = leftover
    BY <1>17 DEF vars, guest, ring
  <2>2. HostInv'
    BY <1>1, <2>1 DEF HostInv, Interrupted, Handling, Doomed
  <2>3. QED
    BY <1>1, <2>1, <2>2 DEF Follows, HostFollowsGuest
<1>18. QED
  BY <1>6, <1>7, <1>8, <1>9, <1>10, <1>12, <1>13, <1>14, <1>15, <1>16, <1>17 DEF Next

\* A host frame that goes on goes on at the guest's pc: for any threads, any number
\* of nested interrupts and calls, any ring and depth of the host stack, the code
\* the host returns into is the code the guest returns to, also after branches that
\* jump, return or switch without popping the ring (branch_reg, branch_any_reg).
\* Excepted is what follows an interrupt that hle_bios_uninterrupt has returned by
\* an entry that agreed, when a call of its handler had returned without popping its
\* own.
THEOREM HostFollows == Spec => []HostFollowsGuest
<1>1. Init => RingInv /\ Follows
  <2> SUFFICES ASSUME Init PROVE RingInv /\ Follows
    OBVIOUS
  <2>1. host = <<>> /\ ideal = <<>> /\ op.do = "exited" /\ resumed = NoFrame
    BY OpTypes DEF Init
  <2>2. Len(host) = 0 /\ Len(ideal) = 0
    BY <2>1
  <2>3. Aligned(host, 0, op, ideal, 0)
    BY AlignedShielded
  <2>4. QED
    BY <2>1, <2>2, <2>3 DEF RingInv, Follows, HostInv, HostFollowsGuest
<1>2. Follows => HostFollowsGuest
  BY DEF Follows
<1>3. QED
  BY <1>1, <1>2, ContextsSafe, RingStep, FollowsStep, PTL DEF Spec
=============================================================================
