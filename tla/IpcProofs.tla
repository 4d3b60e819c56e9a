------------------------------ MODULE IpcProofs ------------------------------
(***************************************************************************)
(* Proofs about the message fifos between the CPUs, for every capacity,    *)
(* every set of control writes and each of the three emulations.  The last *)
(* section is about the ring buffers that hold the messages: FixedFifo     *)
(* implements Queue.                                                       *)
(***************************************************************************)
EXTENDS Ipc, SequenceTheorems, TLAPS

LEMMA CpuPair ==
    ASSUME NEW c \in Cpu
    PROVE  /\ Other(c) \in Cpu /\ Other(c) # c /\ Other(Other(c)) = c
           /\ Cpu = {c, Other(c)}
  BY DEF Cpu, Other

LEMMA GuestIsCpu == Guest \subseteq Cpu
  BY DEF Guest, Cpu

\* Message numbers: one round above n is as far as a queue reaches.
LEMMA ModBelow == ASSUME NEW n \in Nat, n > 0, NEW x \in 0 .. n - 1 PROVE x % n = x
  OBVIOUS

LEMMA ModAbove ==
    ASSUME NEW n \in Nat, n > 0, NEW x \in n .. 2 * n - 1
    PROVE  x % n = x - n
  OBVIOUS

\* What a read, a send and a test for emptiness do to a queue.
LEMMA QueueEmpty ==
    ASSUME NEW S, NEW q \in Seq(S)
    PROVE  Len(q) \in Nat /\ (q = <<>> <=> Len(q) = 0)
  OBVIOUS

LEMMA QueueAppend ==
    ASSUME NEW S, NEW q \in Seq(S), NEW x \in S
    PROVE  /\ Append(q, x) \in Seq(S) /\ Len(Append(q, x)) = Len(q) + 1
           /\ \A i \in 1 .. Len(q) : Append(q, x)[i] = q[i]
           /\ Append(q, x)[Len(q) + 1] = x
  OBVIOUS

LEMMA QueueTail ==
    ASSUME NEW S, NEW q \in Seq(S), Len(q) > 0
    PROVE  /\ Tail(q) \in Seq(S) /\ Len(Tail(q)) = Len(q) - 1
           /\ \A i \in 1 .. Len(q) - 1 : Tail(q)[i] = q[i + 1]
  OBVIOUS

-----------------------------------------------------------------------------
(* What the operations do to the registers and the queues.                 *)

Number == 0 .. Numbers - 1

\* The registers of both sides after a send, a receive and a clear.
LEMMA MarkSentBits ==
    ASSUME cnt \in [Cpu -> SUBSET Control], NEW c \in Cpu, NEW len \in Nat
    PROVE  LET k == MarkSent(c, len)
               o == Other(c)
           IN  /\ k \in [Cpu -> SUBSET Control]
               /\ k[c] = (cnt[c] \ When(len = 0, "sendEmpty")) \cup When(len = Capacity - 1, "sendFull")
               /\ k[o] = (cnt[o] \ When(len = 0, "recvEmpty")) \cup When(len = Capacity - 1, "recvFull")
  BY CpuPair DEF MarkSent, Control, When

LEMMA MarkReceivedBits ==
    ASSUME cnt \in [Cpu -> SUBSET Control], NEW c \in Cpu, NEW len \in Nat
    PROVE  LET k == MarkReceived(c, len)
               o == Other(c)
           IN  /\ k \in [Cpu -> SUBSET Control]
               /\ k[c] = (cnt[c] \ When(len = Capacity, "recvFull")) \cup When(len = 1, "recvEmpty")
               /\ k[o] = (cnt[o] \ When(len = Capacity, "sendFull")) \cup When(len = 1, "sendEmpty")
  BY CpuPair DEF MarkReceived, Control, When

LEMMA ClearedBits ==
    ASSUME cnt \in [Cpu -> SUBSET Control], NEW c \in Cpu
    PROVE  LET k == Cleared(c)
               o == Other(c)
           IN  /\ k \in [Cpu -> SUBSET Control]
               /\ k[c] = (cnt[c] \ {"sendFull"}) \cup {"sendEmpty"}
               /\ k[o] = (cnt[o] \ {"recvFull"}) \cup {"recvEmpty"}
  BY CpuPair DEF Cleared, Control

\* A message joins c's queue.
LEMMA Enqueued ==
    ASSUME TypeOK, NEW c \in Cpu, Len(queue[c]) < Capacity, Enqueue(c)
    PROVE  /\ queue' \in [Cpu -> Seq(Number)] /\ next' \in [Cpu -> Number]
           /\ queue'[c] = Append(queue[c], next[c]) /\ queue'[Other(c)] = queue[Other(c)]
           /\ next'[c] = (next[c] + 1) % Numbers /\ next'[Other(c)] = next[Other(c)]
           /\ Len(queue'[c]) = Len(queue[c]) + 1
           /\ \A d \in Cpu : Len(queue'[d]) <= Capacity
<1>1. queue[c] \in Seq(Number) /\ next[c] \in Number /\ Numbers \in Nat /\ Numbers > 0
  BY IpcAssumption DEF TypeOK, Number
<1>2. Append(queue[c], next[c]) \in Seq(Number) /\ Len(Append(queue[c], next[c])) = Len(queue[c]) + 1
  BY <1>1, QueueAppend
<1>3. (next[c] + 1) % Numbers \in Number
  BY <1>1 DEF Number
<1>4. /\ queue' \in [Cpu -> Seq(Number)]
      /\ queue'[c] = Append(queue[c], next[c]) /\ queue'[Other(c)] = queue[Other(c)]
  BY <1>2, CpuPair DEF Enqueue, TypeOK, Number
<1>5. /\ next' \in [Cpu -> Number]
      /\ next'[c] = (next[c] + 1) % Numbers /\ next'[Other(c)] = next[Other(c)]
  BY <1>3, CpuPair DEF Enqueue, TypeOK, Number
<1>6. \A d \in Cpu : Len(queue'[d]) <= Capacity
  <2>1. Len(queue[c]) \in Nat /\ Capacity \in Nat
    BY <1>1, IpcAssumption
  <2>2. Len(queue'[c]) <= Capacity
    BY <1>2, <1>4, <2>1
  <2>3. Len(queue'[Other(c)]) <= Capacity
    BY <1>4, CpuPair DEF TypeOK
  <2>4. QED  BY <2>2, <2>3, CpuPair
<1>7. QED  BY <1>2, <1>4, <1>5, <1>6

\* The cases of a send: refused with an error, or joined to the queue.
Refused(c) ==
    /\ \/ cnt' = [cnt EXCEPT ![c] = @ \cup {"err"}]
       \/ UNCHANGED cnt
    /\ UNCHANGED <<queue, irf, draining, next, expect, signalled>>

Joined(c) ==
    LET o == Other(c)
        len == Len(queue[c])
    IN  /\ len \in Nat /\ len < Capacity
        /\ Enqueue(c)
        /\ cnt' = MarkSent(c, len)
        /\ irf' = Raise(o, "recv", len = 0 /\ "recvNotEmptyIrq" \in cnt[o])
        /\ UNCHANGED <<draining, expect, signalled>>

LEMMA SendCases ==
    ASSUME TypeOK, NEW c \in Cpu, FifoSendLle(c)
    PROVE  ipcType # "Hle" /\ (Refused(c) \/ Joined(c))
<1>1. Len(queue[c]) \in Nat
  BY DEF TypeOK
<1>2. QED  BY <1>1 DEF FifoSendLle, Refused, Joined, HasRoom, RecvEdge

LEMMA SoundRefused ==
    ASSUME TypeOK, FifoSendSound
    PROVE  ipcType # "Hle" /\ Refused("ARM9")
<1>1. CASE "enable" \in cnt["ARM9"]
  <2>1. [cnt EXCEPT !["ARM9"] = @ \cup {}] = cnt
    BY DEF TypeOK, Cpu
  <2>2. QED  BY <1>1, <2>1 DEF FifoSendSound, Refused, When
<1>2. CASE "enable" \notin cnt["ARM9"]
  BY <1>2 DEF FifoSendSound, Refused, When
<1>3. QED  BY <1>1, <1>2

\* The cases of a read: an empty fifo, a front message shown by a disabled
\* one, and a message taken.
ReadNothing(c) ==
    /\ Len(queue[Other(c)]) = 0
    /\ cnt' = [cnt EXCEPT ![c] = @ \cup {"err"}]
    /\ UNCHANGED <<queue, irf, expect, signalled>>

Shown(c) == UNCHANGED <<cnt, queue, irf, expect, signalled>>

Taken(c) ==
    LET o == Other(c)
        len == Len(queue[o])
    IN  /\ len \in Nat /\ len > 0
        /\ queue' \in [Cpu -> Seq(Number)] /\ expect' \in [Cpu -> Number]
        /\ queue'[o] = Tail(queue[o]) /\ queue'[c] = queue[c]
        /\ Len(queue'[o]) = len - 1
        /\ expect'[o] = (expect[o] + 1) % Numbers /\ expect'[c] = expect[c]
        /\ cnt' = MarkReceived(c, len)
        /\ irf' = Raise(o, "sent", len = 1 /\ "sendEmptyIrq" \in cnt[o])
        /\ signalled' = (signalled \ When(len = 1, o))
                            \cup When(len = 1 /\ "sendEmptyIrq" \in cnt[o], o)

LEMMA ReadCases ==
    ASSUME TypeOK, NEW c \in Cpu, FifoRecv(c)
    PROVE  ReadNothing(c) \/ Shown(c) \/ Taken(c)
<1> DEFINE o == Other(c)
           len == Len(queue[o])
<1>1. /\ o \in Cpu /\ o # c /\ queue[o] \in Seq(Number) /\ expect[o] \in Number
      /\ Numbers \in Nat /\ Numbers > 0
  BY CpuPair, IpcAssumption DEF TypeOK, Number
<1>2. CASE len = 0
  BY <1>1, <1>2 DEF FifoRecv, ReadNothing
<1>3. CASE len > 0 /\ ~Pops(c)
  BY <1>3 DEF FifoRecv, Shown
<1>4. CASE len > 0 /\ Pops(c)
  <2>1. /\ queue' = [queue EXCEPT ![o] = Tail(@)]
        /\ expect' = [expect EXCEPT ![o] = (@ + 1) % Numbers]
        /\ cnt' = MarkReceived(c, len)
        /\ irf' = Raise(o, "sent", len = 1 /\ "sendEmptyIrq" \in cnt[o])
        /\ signalled' = (signalled \ When(len = 1, o))
                            \cup When(len = 1 /\ "sendEmptyIrq" \in cnt[o], o)
    BY <1>4 DEF FifoRecv, Pops
  <2>2. Tail(queue[o]) \in Seq(Number) /\ Len(Tail(queue[o])) = len - 1
    BY <1>1, <1>4, QueueTail
  <2>3. (expect[o] + 1) % Numbers \in Number
    BY <1>1 DEF Number
  <2>4. /\ queue' \in [Cpu -> Seq(Number)]
        /\ queue'[o] = Tail(queue[o]) /\ queue'[c] = queue[c]
    BY <1>1, <2>1, <2>2 DEF TypeOK, Number
  <2>5. /\ expect' \in [Cpu -> Number]
        /\ expect'[o] = (expect[o] + 1) % Numbers /\ expect'[c] = expect[c]
    BY <1>1, <2>1, <2>3 DEF TypeOK, Number
  <2>6. QED  BY <1>1, <1>4, <2>1, <2>2, <2>4, <2>5 DEF Taken
<1>5. len \in Nat
  BY <1>1
<1>6. QED  BY <1>2, <1>3, <1>4, <1>5

\* A write of the control register.
LEMMA Configured ==
    ASSUME TypeOK, NEW c \in Cpu, NEW w \in Writes, SetFifoCnt(c, w)
    PROVE  LET o == Other(c)
               clears == "sendClear" \in w /\ queue[c] # <<>>
               kc == IF clears THEN (cnt[c] \ {"sendFull"}) \cup {"sendEmpty"} ELSE cnt[c]
           IN  /\ cnt' \in [Cpu -> SUBSET Control]
               /\ cnt'[c] = (kc \ (Config \cup (w \cap {"err"}))) \cup (w \cap Config)
               /\ cnt'[o] = IF clears THEN (cnt[o] \ {"recvFull"}) \cup {"recvEmpty"} ELSE cnt[o]
               /\ queue' \in [Cpu -> Seq(Number)] /\ expect' \in [Cpu -> Number]
               /\ queue'[c] = (IF clears THEN <<>> ELSE queue[c]) /\ queue'[o] = queue[o]
               /\ expect'[c] = (IF clears THEN next[c] ELSE expect[c]) /\ expect'[o] = expect[o]
               /\ irf'[c] = irf[c] \cup When(SentEnabledEdge(kc, w), "sent")
                                    \cup When(RecvEnabledEdge(kc, w), "recv")
               /\ irf'[o] = irf[o] /\ irf' \in [Cpu -> SUBSET {"recv", "sent"}]
               /\ signalled' = (signalled \ When(clears, c)) \cup When(SentEnabledEdge(kc, w), c)
               /\ UNCHANGED <<draining, next>>
               /\ clears => "sendEmptyIrq" \notin cnt[c]
<1> DEFINE o == Other(c)
           clears == "sendClear" \in w /\ queue[c] # <<>>
           kc == IF clears THEN (cnt[c] \ {"sendFull"}) \cup {"sendEmpty"} ELSE cnt[c]
           k == IF clears THEN Cleared(c) ELSE cnt
<1>1. o \in Cpu /\ o # c
  BY CpuPair
<1>2. /\ cnt \in [Cpu -> SUBSET Control] /\ irf \in [Cpu -> SUBSET {"recv", "sent"}]
      /\ queue \in [Cpu -> Seq(Number)] /\ next \in [Cpu -> Number] /\ expect \in [Cpu -> Number]
  BY DEF TypeOK, Number
<1>3. /\ k \in [Cpu -> SUBSET Control] /\ k[c] = kc
      /\ k[o] = IF clears THEN (cnt[o] \ {"recvFull"}) \cup {"recvEmpty"} ELSE cnt[o]
  BY <1>2, ClearedBits
<1>4. /\ queue' = [queue EXCEPT ![c] = IF clears THEN <<>> ELSE @]
      /\ expect' = [expect EXCEPT ![c] = IF clears THEN next[c] ELSE @]
      /\ irf' = [irf EXCEPT ![c] = @ \cup When(SentEnabledEdge(k[c], w), "sent")
                                     \cup When(RecvEnabledEdge(k[c], w), "recv")]
      /\ signalled' = (signalled \ When(clears, c)) \cup When(SentEnabledEdge(k[c], w), c)
      /\ cnt' = [k EXCEPT ![c] = (@ \ (Config \cup (w \cap {"err"}))) \cup (w \cap Config)]
      /\ UNCHANGED <<draining, next>>
      /\ clears => "sendEmptyIrq" \notin cnt[c]
  BY DEF SetFifoCnt
<1> HIDE DEF k, o, kc, clears
<1>5. /\ cnt' \in [Cpu -> SUBSET Control] /\ cnt'[o] = k[o]
      /\ cnt'[c] = (kc \ (Config \cup (w \cap {"err"}))) \cup (w \cap Config)
  BY <1>1, <1>3, <1>4 DEF Control
<1>6. queue' \in [Cpu -> Seq(Number)]
  BY <1>1, <1>2, <1>4
<1>7. queue'[c] = (IF clears THEN <<>> ELSE queue[c]) /\ queue'[o] = queue[o]
  BY <1>1, <1>2, <1>4
<1>8. /\ expect' \in [Cpu -> Number]
      /\ expect'[c] = (IF clears THEN next[c] ELSE expect[c]) /\ expect'[o] = expect[o]
  BY <1>1, <1>2, <1>4
<1>9. /\ irf'[c] = irf[c] \cup When(SentEnabledEdge(kc, w), "sent")
                           \cup When(RecvEnabledEdge(kc, w), "recv")
      /\ irf'[o] = irf[o] /\ irf' \in [Cpu -> SUBSET {"recv", "sent"}]
  BY <1>1, <1>2, <1>3, <1>4 DEF When
<1>10. QED  BY <1>3, <1>4, <1>5, <1>6, <1>7, <1>8, <1>9 DEF o, clears, kc

\* An answer of an HLE service.
LEMMA Replied ==
    ASSUME TypeOK, NEW k \in [Cpu -> SUBSET Control], Reply(k, Len(queue["ARM7"]))
    PROVE  LET n == Len(queue["ARM7"])
           IN  /\ cnt' \in [Cpu -> SUBSET Control]
               /\ cnt'["ARM9"] = IF n = Capacity THEN k["ARM9"] \cup {"recvFull"}
                                 ELSE k["ARM9"] \ When(n = 0, "recvEmpty")
               /\ \/ n = Capacity /\ UNCHANGED <<queue, next>>
                  \/ n < Capacity /\ Enqueue("ARM7")
<1>1. "ARM7" \in Cpu /\ "ARM9" \in Cpu
  BY DEF Cpu
<1>2. Len(queue["ARM7"]) \in Nat /\ Len(queue["ARM7"]) <= Capacity /\ Capacity \in Nat
  BY <1>1, IpcAssumption DEF TypeOK
<1>3. CASE Len(queue["ARM7"]) = Capacity
  BY <1>1, <1>3 DEF Reply, Control
<1>4. CASE Len(queue["ARM7"]) # Capacity
  <2>1. /\ cnt' = [k EXCEPT !["ARM7"] = @ \ When(Len(queue["ARM7"]) = 0, "sendEmpty"),
                            !["ARM9"] = @ \ When(Len(queue["ARM7"]) = 0, "recvEmpty")]
        /\ Enqueue("ARM7")
    BY <1>4 DEF Reply
  <2>2. QED  BY <1>1, <1>2, <1>4, <2>1
<1>5. QED  BY <1>3, <1>4

LEMMA RaiseType ==
    ASSUME TypeOK, NEW c \in Cpu, NEW flag \in {"recv", "sent"}, NEW when \in BOOLEAN
    PROVE  /\ Raise(c, flag, when) \in [Cpu -> SUBSET {"recv", "sent"}]
           /\ Raise(c, flag, when)[c] = irf[c] \cup When(when, flag)
           /\ Raise(c, flag, when)[Other(c)] = irf[Other(c)]
  BY CpuPair DEF TypeOK, Raise, When

-----------------------------------------------------------------------------
(* Types.                                                                  *)

LEMMA TypeStep == ASSUME TypeOK, [Next /\ UNCHANGED ipcType]_<<vars, ipcType>> PROVE TypeOK'
<1> DEFINE Lengths == \A c \in Cpu : Len(queue[c]) <= Capacity
<1>1. /\ cnt \in [Cpu -> SUBSET Control] /\ irf \in [Cpu -> SUBSET {"recv", "sent"}]
      /\ queue \in [Cpu -> Seq(Number)] /\ next \in [Cpu -> Number] /\ expect \in [Cpu -> Number]
      /\ Lengths /\ draining \subseteq Cpu /\ signalled \subseteq Cpu
      /\ "ARM9" \in Cpu /\ "ARM7" \in Cpu
  BY DEF TypeOK, Number, Cpu
<1>2. ASSUME /\ cnt' \in [Cpu -> SUBSET Control] /\ irf' \in [Cpu -> SUBSET {"recv", "sent"}]
             /\ queue' \in [Cpu -> Seq(Number)] /\ next' \in [Cpu -> Number]
             /\ expect' \in [Cpu -> Number]
             /\ Lengths' /\ draining' \subseteq Cpu /\ signalled' \subseteq Cpu
      PROVE  TypeOK'
  BY <1>2 DEF TypeOK, Number
<1>3. ASSUME NEW c \in Cpu, Refused(c) PROVE TypeOK'
  <2>1. cnt' \in [Cpu -> SUBSET Control]
    BY <1>1, <1>3 DEF Refused, Control
  <2>2. QED  BY <1>1, <1>2, <1>3, <2>1 DEF Refused
<1>4. ASSUME NEW c \in Cpu, Joined(c) PROVE TypeOK'
  <2>1. irf' \in [Cpu -> SUBSET {"recv", "sent"}]
    BY <1>1, <1>4, CpuPair, RaiseType DEF Joined
  <2>2. cnt' \in [Cpu -> SUBSET Control]
    BY <1>1, <1>4, MarkSentBits DEF Joined
  <2>3. /\ queue' \in [Cpu -> Seq(Number)] /\ next' \in [Cpu -> Number] /\ Lengths'
    BY <1>4, Enqueued DEF Joined
  <2>4. QED  BY <1>1, <1>2, <1>4, <2>1, <2>2, <2>3 DEF Joined
<1>5. ASSUME NEW k \in [Cpu -> SUBSET Control], Reply(k, Len(queue["ARM7"]))
      PROVE  /\ cnt' \in [Cpu -> SUBSET Control] /\ Lengths'
             /\ queue' \in [Cpu -> Seq(Number)] /\ next' \in [Cpu -> Number]
  BY <1>1, <1>5, Replied, Enqueued
<1>6. ASSUME NEW answers \in BOOLEAN, FifoSendHle(answers) PROVE TypeOK'
  <2> DEFINE k == [cnt EXCEPT !["ARM9"] = @ \ {"sendEmpty"}]
  <2>1. k \in [Cpu -> SUBSET Control]
    BY <1>1
  <2>2. IF answers THEN Reply(k, Len(queue["ARM7"])) ELSE cnt' = k /\ UNCHANGED <<queue, next>>
    BY <1>6 DEF FifoSendHle
  <2>3. irf' \in [Cpu -> SUBSET {"recv", "sent"}]
    BY <1>1, <1>6 DEF FifoSendHle, When
  <2>4. signalled' \subseteq Cpu /\ UNCHANGED <<draining, expect>>
    BY <1>1, <1>6 DEF FifoSendHle, When
  <2> HIDE DEF k
  <2>5. QED  BY <1>1, <1>2, <1>5, <2>1, <2>2, <2>3, <2>4
<1>7. ASSUME ReplyUnasked PROVE TypeOK'
  <2>1. irf' \in [Cpu -> SUBSET {"recv", "sent"}]
    BY <1>1, <1>7 DEF ReplyUnasked, Raise, When
  <2>2. Reply(cnt, Len(queue["ARM7"])) /\ UNCHANGED <<draining, expect, signalled>>
    BY <1>7 DEF ReplyUnasked
  <2>3. QED  BY <1>1, <1>2, <1>5, <2>1, <2>2
<1>8. ASSUME NEW c \in Cpu, FifoRecv(c), UNCHANGED <<draining, next>> PROVE TypeOK'
  <2>1. CASE ReadNothing(c) \/ Shown(c)
    <3>1. cnt' \in [Cpu -> SUBSET Control] /\ UNCHANGED <<queue, irf, expect, signalled>>
      BY <1>1, <2>1 DEF ReadNothing, Shown, Control
    <3>2. QED  BY <1>1, <1>2, <1>8, <3>1
  <2>2. CASE Taken(c)
    <3>1. Other(c) \in Cpu /\ Other(c) # c /\ Cpu = {c, Other(c)}
      BY CpuPair
    <3>2. Lengths'
      <4>1. Capacity \in Nat
        BY IpcAssumption
      <4>2. Len(queue'[Other(c)]) <= Capacity /\ Len(queue'[c]) <= Capacity
        BY <1>1, <2>2, <3>1, <4>1 DEF Taken
      <4>3. QED  BY <3>1, <4>2
    <3>3. cnt' \in [Cpu -> SUBSET Control]
      BY <1>1, <2>2, <3>1, MarkReceivedBits DEF Taken
    <3>4. irf' \in [Cpu -> SUBSET {"recv", "sent"}]
      BY <2>2, <3>1, RaiseType DEF Taken
    <3>5. signalled' \subseteq Cpu
      BY <1>1, <2>2, <3>1 DEF Taken, When
    <3>6. QED  BY <1>1, <1>2, <1>8, <2>2, <3>2, <3>3, <3>4, <3>5 DEF Taken
  <2>3. QED  BY <1>8, <2>1, <2>2, ReadCases
<1>9. ASSUME NEW c \in Cpu, DriverStart(c) \/ DriverDone(c) \/ AcknowledgeSent(c) PROVE TypeOK'
  BY <1>1, <1>2, <1>9 DEF DriverStart, DriverDone, AcknowledgeSent
<1>10. ASSUME NEW c \in Cpu, NEW w \in Writes, SetFifoCnt(c, w) PROVE TypeOK'
  <2>1. /\ cnt' \in [Cpu -> SUBSET Control] /\ irf' \in [Cpu -> SUBSET {"recv", "sent"}]
        /\ queue' \in [Cpu -> Seq(Number)] /\ expect' \in [Cpu -> Number]
        /\ queue'[c] = <<>> \/ queue'[c] = queue[c]
        /\ queue'[Other(c)] = queue[Other(c)]
        /\ UNCHANGED <<draining, next>>
    BY <1>10, Configured
  <2>2. signalled' \subseteq Cpu
    BY <1>1, <1>10 DEF SetFifoCnt, When
  <2>3. Lengths'
    <3>1. Len(<<>>) = 0 /\ Capacity \in Nat
      BY IpcAssumption
    <3>2. Len(queue'[c]) <= Capacity /\ Len(queue'[Other(c)]) <= Capacity
      BY <1>1, <2>1, <3>1, CpuPair
    <3>3. QED  BY <3>2, CpuPair
  <2>4. QED  BY <1>1, <1>2, <2>1, <2>2, <2>3
<1>11. ASSUME UNCHANGED <<vars, ipcType>> PROVE TypeOK'
  BY <1>1, <1>2, <1>11 DEF vars
<1>12. QED
  BY <1>1, <1>3, <1>4, <1>6, <1>7, <1>8, <1>9, <1>10, <1>11, GuestIsCpu, SendCases, SoundRefused
     DEF Next, SendHle, Send, Poll, Driver, DriverRead

-----------------------------------------------------------------------------
(* The status bits.                                                        *)

\* The bits of the queue c sends on, with lengths for emptiness.
ChannelStatus(c) ==
    /\ ipcType # "Hle" =>
         /\ "sendEmpty" \in cnt[c] <=> Len(queue[c]) = 0
         /\ "sendFull" \in cnt[c] <=> Len(queue[c]) = Capacity
         /\ "recvFull" \in cnt[Other(c)] <=> Len(queue[c]) = Capacity
    /\ Other(c) \in Guest => ("recvEmpty" \in cnt[Other(c)] <=> Len(queue[c]) = 0)

LEMMA StatusByLength == TypeOK => (StatusAgrees <=> \A c \in Cpu : ChannelStatus(c))
<1> SUFFICES ASSUME TypeOK PROVE StatusAgrees <=> \A c \in Cpu : ChannelStatus(c)
  OBVIOUS
<1>1. \A c \in Cpu : queue[c] = <<>> <=> Len(queue[c]) = 0
  BY QueueEmpty DEF TypeOK
<1>2. QED  BY <1>1 DEF StatusAgrees, ChannelStatus

\* A write of other bits and no change of the queues keeps the status.
LEMMA StatusKept ==
    ASSUME \A c \in Cpu : ChannelStatus(c), UNCHANGED <<queue, ipcType>>,
           \A c \in Cpu : \A x \in {"sendEmpty", "sendFull", "recvEmpty", "recvFull"} :
               x \in cnt'[c] <=> x \in cnt[c]
    PROVE  \A c \in Cpu : ChannelStatus(c)'
  BY CpuPair DEF ChannelStatus, Guest

LEMMA StatusStep ==
    ASSUME TypeOK, \A c \in Cpu : ChannelStatus(c), [Next /\ UNCHANGED ipcType]_<<vars, ipcType>>
    PROVE  \A c \in Cpu : ChannelStatus(c)'
<1> DEFINE Goal == \A c \in Cpu : ChannelStatus(c)'
<1>1. /\ cnt \in [Cpu -> SUBSET Control] /\ Capacity \in Nat /\ Capacity >= 2
      /\ \A c \in Cpu : Len(queue[c]) \in Nat /\ Len(queue[c]) <= Capacity
      /\ "ARM9" \in Cpu /\ "ARM7" \in Cpu /\ ipcType' = ipcType
  BY IpcAssumption DEF TypeOK, Cpu, vars
<1>2. ASSUME NEW c \in Cpu, Refused(c) PROVE Goal
  <2>1. \A d \in Cpu : \A x \in {"sendEmpty", "sendFull", "recvEmpty", "recvFull"} :
               x \in cnt'[d] <=> x \in cnt[d]
    BY <1>1, <1>2 DEF Refused
  <2>2. QED  BY <1>1, <1>2, <2>1, StatusKept DEF Refused
<1>3. ASSUME NEW c \in Cpu, ipcType # "Hle", Joined(c) PROVE Goal
  <2> DEFINE o == Other(c)
             len == Len(queue[c])
  <2>1. /\ o \in Cpu /\ o # c /\ Other(o) = c /\ Cpu = {c, o}
    BY CpuPair
  <2>2. /\ cnt'[c] = (cnt[c] \ When(len = 0, "sendEmpty")) \cup When(len = Capacity - 1, "sendFull")
        /\ cnt'[o] = (cnt[o] \ When(len = 0, "recvEmpty")) \cup When(len = Capacity - 1, "recvFull")
    BY <1>1, <1>3, MarkSentBits DEF Joined
  <2>3. Len(queue'[c]) = len + 1 /\ queue'[o] = queue[o] /\ len < Capacity
    BY <1>3, Enqueued DEF Joined
  <2>4. ChannelStatus(c) /\ ChannelStatus(o)
    BY <2>1
  <2> HIDE DEF o
  <2>5. ChannelStatus(c)'
    BY <1>1, <2>1, <2>2, <2>3, <2>4 DEF ChannelStatus, When, Guest, o
  <2>6. ChannelStatus(o)'
    BY <1>1, <2>1, <2>2, <2>3, <2>4 DEF ChannelStatus, When, Guest
  <2>7. QED  BY <2>1, <2>5, <2>6
<1>4. ASSUME NEW c \in Cpu, FifoRecv(c) PROVE Goal
  <2> DEFINE o == Other(c)
             len == Len(queue[o])
  <2>1. /\ o \in Cpu /\ o # c /\ Other(o) = c /\ Cpu = {c, o}
    BY CpuPair
  <2>2. CASE ReadNothing(c) \/ Shown(c)
    <3>1. \A d \in Cpu : \A x \in {"sendEmpty", "sendFull", "recvEmpty", "recvFull"} :
               x \in cnt'[d] <=> x \in cnt[d]
      BY <1>1, <2>2 DEF ReadNothing, Shown
    <3>2. QED  BY <1>1, <2>2, <3>1, StatusKept DEF ReadNothing, Shown
  <2>3. CASE Taken(c)
    <3>1. /\ cnt'[c] = (cnt[c] \ When(len = Capacity, "recvFull")) \cup When(len = 1, "recvEmpty")
          /\ cnt'[o] = (cnt[o] \ When(len = Capacity, "sendFull")) \cup When(len = 1, "sendEmpty")
      BY <1>1, <2>1, <2>3, MarkReceivedBits DEF Taken
    <3>2. Len(queue'[o]) = len - 1 /\ queue'[c] = queue[c] /\ len > 0 /\ len \in Nat /\ len <= Capacity
      BY <1>1, <2>1, <2>3 DEF Taken
    <3>3. ChannelStatus(c) /\ ChannelStatus(o)
      BY <2>1
    <3> HIDE DEF o
    <3>4. ChannelStatus(c)'
      BY <1>1, <2>1, <3>1, <3>2, <3>3 DEF ChannelStatus, When, Guest, o
    <3>5. ChannelStatus(o)'
      BY <1>1, <2>1, <3>1, <3>2, <3>3 DEF ChannelStatus, When, Guest
    <3>6. QED  BY <2>1, <3>4, <3>5
  <2>4. QED  BY <1>4, <2>2, <2>3, ReadCases
<1>5. ASSUME ipcType = "Hle", "recvEmpty" \in cnt'["ARM9"] <=> Len(queue'["ARM7"]) = 0
      PROVE  Goal
  BY <1>1, <1>5 DEF ChannelStatus, Guest, Other, Cpu
<1>6. ASSUME ipcType = "Hle"
      PROVE  "recvEmpty" \in cnt["ARM9"] <=> Len(queue["ARM7"]) = 0
  BY <1>1, <1>6 DEF ChannelStatus, Guest, Other, Cpu
<1>7. ASSUME NEW k \in [Cpu -> SUBSET Control], Reply(k, Len(queue["ARM7"])), ipcType = "Hle",
             "recvEmpty" \in k["ARM9"] <=> "recvEmpty" \in cnt["ARM9"]
      PROVE  Goal
  <2>1. CASE Len(queue["ARM7"]) = Capacity
    <3>1. cnt'["ARM9"] = k["ARM9"] \cup {"recvFull"} /\ UNCHANGED queue
      BY <1>7, <2>1, Replied
    <3>2. QED  BY <1>5, <1>6, <1>7, <3>1
  <2>2. CASE Len(queue["ARM7"]) < Capacity
    <3>1. /\ cnt'["ARM9"] = k["ARM9"] \ When(Len(queue["ARM7"]) = 0, "recvEmpty")
          /\ Enqueue("ARM7")
      <4>1. Len(queue["ARM7"]) # Capacity
        BY <1>1, <2>2
      <4>2. QED  BY <1>7, <4>1, Replied
    <3>2. Len(queue'["ARM7"]) = Len(queue["ARM7"]) + 1
      BY <1>1, <2>2, <3>1, Enqueued
    <3>3. QED  BY <1>1, <1>5, <1>6, <1>7, <3>1, <3>2 DEF When
  <2>3. QED  BY <1>1, <2>1, <2>2
<1>8. ASSUME NEW answers \in BOOLEAN, FifoSendHle(answers) PROVE Goal
  <2> DEFINE k == [cnt EXCEPT !["ARM9"] = @ \ {"sendEmpty"}]
  <2>1. k \in [Cpu -> SUBSET Control] /\ ("recvEmpty" \in k["ARM9"] <=> "recvEmpty" \in cnt["ARM9"])
    BY <1>1
  <2>2. /\ ipcType = "Hle"
        /\ IF answers THEN Reply(k, Len(queue["ARM7"])) ELSE cnt' = k /\ UNCHANGED <<queue, next>>
    BY <1>8 DEF FifoSendHle
  <2> HIDE DEF k
  <2>3. QED  BY <1>5, <1>6, <1>7, <2>1, <2>2
<1>9. ASSUME ReplyUnasked PROVE Goal
  BY <1>1, <1>7, <1>9 DEF ReplyUnasked
<1>10. ASSUME NEW c \in Cpu, DriverStart(c) \/ DriverDone(c) \/ AcknowledgeSent(c) PROVE Goal
  BY <1>1, <1>10, StatusKept DEF DriverStart, DriverDone, AcknowledgeSent
<1>11. ASSUME NEW c \in Cpu, NEW w \in Writes, SetFifoCnt(c, w) PROVE Goal
  <2> DEFINE o == Other(c)
             clears == "sendClear" \in w /\ queue[c] # <<>>
             kc == IF clears THEN (cnt[c] \ {"sendFull"}) \cup {"sendEmpty"} ELSE cnt[c]
  <2>1. /\ o \in Cpu /\ o # c /\ Other(o) = c /\ Cpu = {c, o}
    BY CpuPair
  <2>2. /\ cnt'[c] = (kc \ (Config \cup (w \cap {"err"}))) \cup (w \cap Config)
        /\ cnt'[o] = IF clears THEN (cnt[o] \ {"recvFull"}) \cup {"recvEmpty"} ELSE cnt[o]
        /\ queue'[c] = (IF clears THEN <<>> ELSE queue[c]) /\ queue'[o] = queue[o]
    BY <1>11, Configured
  <2>3. ChannelStatus(c) /\ ChannelStatus(o) /\ Len(<<>>) = 0
    BY <2>1
  <2>4. /\ "sendEmpty" \in cnt'[c] <=> "sendEmpty" \in kc
        /\ "sendFull" \in cnt'[c] <=> "sendFull" \in kc
        /\ "recvEmpty" \in cnt'[c] <=> "recvEmpty" \in cnt[c]
        /\ "recvFull" \in cnt'[c] <=> "recvFull" \in cnt[c]
        /\ "sendEmpty" \in cnt'[o] <=> "sendEmpty" \in cnt[o]
        /\ "sendFull" \in cnt'[o] <=> "sendFull" \in cnt[o]
    BY <2>2 DEF Config
  <2>5. CASE clears
    <3>1. /\ Len(queue'[c]) = 0 /\ "sendEmpty" \in cnt'[c] /\ "sendFull" \notin cnt'[c]
          /\ "recvEmpty" \in cnt'[o] /\ "recvFull" \notin cnt'[o]
      BY <2>2, <2>3, <2>4, <2>5
    <3> HIDE DEF o, clears, kc
    <3>2. ChannelStatus(c)'
      BY <1>1, <2>1, <2>5, <3>1 DEF ChannelStatus, o
    <3>3. ChannelStatus(o)'
      BY <1>1, <2>1, <2>2, <2>3, <2>4 DEF ChannelStatus, Guest
    <3>4. QED  BY <2>1, <3>2, <3>3
  <2>6. CASE ~clears
    <3>1. \A d \in Cpu : \A x \in {"sendEmpty", "sendFull", "recvEmpty", "recvFull"} :
               x \in cnt'[d] <=> x \in cnt[d]
      BY <2>1, <2>2, <2>4, <2>6
    <3>2. queue' = queue
      BY <1>11, <2>6 DEF SetFifoCnt, TypeOK
    <3>3. QED  BY <1>1, <3>1, <3>2, StatusKept
  <2>7. QED  BY <2>5, <2>6
<1>12. ASSUME UNCHANGED <<vars, ipcType>> PROVE Goal
  BY <1>12, StatusKept DEF vars
<1>13. QED
  BY <1>1, <1>2, <1>3, <1>4, <1>8, <1>9, <1>10, <1>11, <1>12, GuestIsCpu, SendCases, SoundRefused
     DEF Next, SendHle, Send, Poll, Driver, DriverRead

-----------------------------------------------------------------------------
(* The order of the messages.                                              *)

\* The queue c sends on.
ChannelOrder(c) ==
    /\ \A i \in 1 .. Len(queue[c]) : queue[c][i] = (expect[c] + i - 1) % Numbers
    /\ next[c] = (expect[c] + Len(queue[c])) % Numbers

LEMMA NumberAhead ==
    ASSUME NEW e \in Number, NEW i \in Number, NEW n \in Nat, n = Numbers, n > 0
    PROVE  /\ (((e + i) % n) + 1) % n = (e + i + 1) % n
           /\ (((e + 1) % n) + i) % n = (e + i + 1) % n
<1>1. e \in 0 .. n - 1 /\ i \in 0 .. n - 1
  BY DEF Number
<1>2. e + i \in Int /\ e + 1 \in Int /\ e + i + 1 \in Int
  BY <1>1
<1>3. CASE e + i < n /\ e + 1 < n
  <2>1. (e + i) % n = e + i /\ (e + 1) % n = e + 1
    BY <1>1, <1>3, ModBelow
  <2>2. (e + i) + 1 = e + i + 1 /\ (e + 1) + i = e + i + 1
    BY <1>1
  <2>3. QED  BY <2>1, <2>2
<1>4. CASE e + i < n /\ e + 1 >= n
  <2>1. e = n - 1 /\ i = 0
    BY <1>1, <1>4
  <2>2. (e + i) % n = n - 1 /\ (e + 1) % n = 0 /\ (e + i + 1) % n = 0 /\ 0 % n = 0
    <3>1. e + i = n - 1 /\ e + 1 = n /\ e + i + 1 = n /\ n - n = 0
      BY <2>1
    <3>2. (n - 1) % n = n - 1 /\ 0 % n = 0
      BY ModBelow
    <3>3. n % n = n - n
      BY ModAbove
    <3>4. QED  BY <3>1, <3>2, <3>3
  <2>3. (n - 1) + 1 = n /\ 0 + i = 0 /\ e + i + 1 = n
    BY <2>1
  <2>4. QED  BY <2>2, <2>3
<1>5. CASE e + i >= n
  <2>1. (e + i) % n = e + i - n
    BY <1>1, <1>5, ModAbove
  <2>2. (e + i + 1) % n = e + i + 1 - n
    BY <1>1, <1>5, ModAbove
  <2>3. (e + i - n + 1) % n = e + i - n + 1
    BY <1>1, <1>5, ModBelow
  <2>4. CASE e + 1 < n
    <3>1. (e + 1) % n = e + 1
      BY <1>1, <2>4, ModBelow
    <3>2. (e + 1) + i = e + i + 1 /\ e + i - n + 1 = e + i + 1 - n
      BY <1>1
    <3>3. QED  BY <2>1, <2>2, <2>3, <3>1, <3>2
  <2>5. CASE e + 1 >= n
    <3>1. e = n - 1
      BY <1>1, <2>5
    <3>2. (e + 1) % n = 0
      <4>1. e + 1 = n /\ n - n = 0
        BY <3>1
      <4>2. n % n = n - n
        BY ModAbove
      <4>3. QED  BY <4>1, <4>2
    <3>3. (0 + i) % n = i /\ e + i + 1 - n = i /\ e + i - n + 1 = i
      BY <1>1, <3>1, ModBelow
    <3>4. QED  BY <2>1, <2>2, <2>3, <3>2, <3>3
  <2>6. QED  BY <1>1, <2>4, <2>5
<1>6. QED  BY <1>1, <1>3, <1>4, <1>5

\* A message joined at the back is the next in order.
LEMMA OrderJoined ==
    ASSUME TypeOK, NEW c \in Cpu, ChannelOrder(c), Len(queue[c]) < Capacity, Enqueue(c),
           expect' = expect
    PROVE  ChannelOrder(c)'
<1> DEFINE q == queue[c]
           e == expect[c]
           n == Numbers
<1>1. /\ q \in Seq(Number) /\ next[c] \in Number /\ e \in Number /\ Len(q) \in Nat
      /\ n \in Nat /\ n > 0 /\ Len(q) \in Number
  BY IpcAssumption DEF TypeOK, Number
<1>2. /\ queue'[c] = Append(q, next[c]) /\ next'[c] = (next[c] + 1) % n
      /\ Len(queue'[c]) = Len(q) + 1
  BY Enqueued
<1>3. /\ \A i \in 1 .. Len(q) : Append(q, next[c])[i] = q[i]
      /\ Append(q, next[c])[Len(q) + 1] = next[c]
  BY <1>1, QueueAppend
<1>4. /\ \A i \in 1 .. Len(q) : q[i] = (e + i - 1) % n
      /\ next[c] = (e + Len(q)) % n
  BY DEF ChannelOrder
<1>5. (((e + Len(q)) % n) + 1) % n = (e + Len(q) + 1) % n
  BY <1>1, NumberAhead
<1> HIDE DEF q, e, n
<1>6. e + (Len(q) + 1) = e + Len(q) + 1 /\ e + (Len(q) + 1) - 1 = e + Len(q)
  <2>1. e \in Int
    BY <1>1 DEF Number
  <2>2. QED  BY <1>1, <2>1
<1>7. next'[c] = (e + Len(queue'[c])) % n
  BY <1>2, <1>4, <1>5, <1>6
<1>8. \A i \in 1 .. Len(queue'[c]) : queue'[c][i] = (e + i - 1) % n
  <2> SUFFICES ASSUME NEW i \in 1 .. Len(q) + 1
               PROVE  Append(q, next[c])[i] = (e + i - 1) % n
    BY <1>2
  <2>1. CASE i = Len(q) + 1
    BY <1>3, <1>4, <1>6, <2>1
  <2>2. CASE i # Len(q) + 1
    <3>1. i \in 1 .. Len(q)
      BY <1>1, <2>2
    <3>2. QED  BY <1>3, <1>4, <3>1
  <2>3. QED  BY <2>1, <2>2
<1>9. QED  BY <1>7, <1>8 DEF ChannelOrder, e, n

\* A message taken from the front was the next to arrive.
LEMMA OrderTaken ==
    ASSUME TypeOK, NEW c \in Cpu, ChannelOrder(Other(c)), Taken(c), next' = next
    PROVE  ChannelOrder(Other(c))'
<1> DEFINE o == Other(c)
           q == queue[o]
           e == expect[o]
           n == Numbers
<1>1. /\ o \in Cpu /\ q \in Seq(Number) /\ e \in Number /\ Len(q) \in Nat /\ Len(q) <= Capacity
      /\ n \in Nat /\ n > 0 /\ \A i \in 0 .. Len(q) : i \in Number
  BY CpuPair, IpcAssumption DEF TypeOK, Number
<1>2. /\ Len(q) > 0 /\ queue'[o] = Tail(q) /\ Len(queue'[o]) = Len(q) - 1
      /\ expect'[o] = (e + 1) % n /\ next'[o] = next[o]
  BY DEF Taken
<1>3. \A i \in 1 .. Len(q) - 1 : Tail(q)[i] = q[i + 1]
  BY <1>1, <1>2, QueueTail
<1>4. /\ \A i \in 1 .. Len(q) : q[i] = (e + i - 1) % n
      /\ next[o] = (e + Len(q)) % n
  BY DEF ChannelOrder
<1>5. e \in Int
  BY <1>1 DEF Number
<1> HIDE DEF q, e, n, o
<1>6. ASSUME NEW j \in 0 .. Len(q) - 1
      PROVE  (((e + 1) % n) + j) % n = (e + j + 1) % n
  BY <1>1, NumberAhead DEF n
<1>7. next'[o] = (expect'[o] + Len(queue'[o])) % n
  <2>1. Len(q) - 1 \in 0 .. Len(q) - 1 /\ e + (Len(q) - 1) + 1 = e + Len(q)
    BY <1>1, <1>2, <1>5
  <2>2. QED  BY <1>2, <1>4, <1>6, <2>1
<1>8. \A i \in 1 .. Len(queue'[o]) : queue'[o][i] = (expect'[o] + i - 1) % n
  <2> SUFFICES ASSUME NEW i \in 1 .. Len(q) - 1
               PROVE  Tail(q)[i] = (((e + 1) % n) + i - 1) % n
    BY <1>2
  <2>1. /\ i - 1 \in 0 .. Len(q) - 1 /\ i + 1 \in 1 .. Len(q)
        /\ e + (i - 1) + 1 = e + (i + 1) - 1
    BY <1>1, <1>5
  <2>2. (e + 1) % n \in Int
    BY <1>1, <1>5
  <2>3. ((e + 1) % n) + (i - 1) = ((e + 1) % n) + i - 1
    BY <2>2
  <2>4. QED  BY <1>3, <1>4, <1>6, <2>1, <2>3
<1>9. QED  BY <1>7, <1>8 DEF ChannelOrder, o, n

LEMMA OrderKept ==
    ASSUME NEW c \in Cpu, ChannelOrder(c),
           queue'[c] = queue[c], next'[c] = next[c], expect'[c] = expect[c]
    PROVE  ChannelOrder(c)'
  BY DEF ChannelOrder

LEMMA OrderStep ==
    ASSUME TypeOK, \A c \in Cpu : ChannelOrder(c), [Next /\ UNCHANGED ipcType]_<<vars, ipcType>>
    PROVE  \A c \in Cpu : ChannelOrder(c)'
<1> DEFINE Goal == \A c \in Cpu : ChannelOrder(c)'
<1>1. "ARM7" \in Cpu /\ "ARM9" \in Cpu
  BY DEF Cpu
<1>2. ASSUME UNCHANGED <<queue, next, expect>> PROVE Goal
  BY <1>2, OrderKept
<1>3. ASSUME NEW c \in Cpu, Len(queue[c]) < Capacity, Enqueue(c), expect' = expect
      PROVE  Goal
  <2>1. ChannelOrder(c)'
    BY <1>3, OrderJoined
  <2>2. ChannelOrder(Other(c))'
    BY <1>3, CpuPair, Enqueued, OrderKept
  <2>3. QED  BY <2>1, <2>2, CpuPair
<1>4. ASSUME NEW c \in Cpu, FifoRecv(c), next' = next PROVE Goal
  <2>1. CASE ReadNothing(c) \/ Shown(c)
    BY <1>2, <1>4, <2>1 DEF ReadNothing, Shown
  <2>2. CASE Taken(c)
    <3>1. ChannelOrder(Other(c))'
      BY <1>4, <2>2, CpuPair, OrderTaken
    <3>2. ChannelOrder(c)'
      BY <1>4, <2>2, OrderKept DEF Taken
    <3>3. QED  BY <3>1, <3>2, CpuPair
  <2>3. QED  BY <1>4, <2>1, <2>2, ReadCases
<1>5. ASSUME NEW k \in [Cpu -> SUBSET Control], Reply(k, Len(queue["ARM7"])), expect' = expect
      PROVE  Goal
  BY <1>1, <1>2, <1>3, <1>5, Replied
<1>6. ASSUME NEW answers \in BOOLEAN, FifoSendHle(answers) PROVE Goal
  <2> DEFINE k == [cnt EXCEPT !["ARM9"] = @ \ {"sendEmpty"}]
  <2>1. k \in [Cpu -> SUBSET Control]
    BY <1>1 DEF TypeOK
  <2>2. /\ expect' = expect
        /\ IF answers THEN Reply(k, Len(queue["ARM7"])) ELSE UNCHANGED <<queue, next>>
    BY <1>6 DEF FifoSendHle
  <2> HIDE DEF k
  <2>3. QED  BY <1>2, <1>5, <2>1, <2>2
<1>7. ASSUME ReplyUnasked PROVE Goal
  BY <1>5, <1>7 DEF ReplyUnasked, TypeOK
<1>8. ASSUME NEW c \in Cpu, NEW w \in Writes, SetFifoCnt(c, w) PROVE Goal
  <2>1. ChannelOrder(Other(c))'
    BY <1>8, CpuPair, Configured, OrderKept
  <2>2. CASE "sendClear" \in w /\ queue[c] # <<>>
    <3>1. queue'[c] = <<>> /\ expect'[c] = next[c] /\ next'[c] = next[c]
      BY <1>8, <2>2, Configured
    <3>2. next[c] \in 0 .. Numbers - 1 /\ Numbers \in Nat /\ Numbers > 0
      BY IpcAssumption DEF TypeOK
    <3>3. next[c] % Numbers = next[c] /\ next[c] + 0 = next[c] /\ Len(<<>>) = 0
      BY <3>2, ModBelow
    <3>4. ChannelOrder(c)'
      BY <3>1, <3>3 DEF ChannelOrder
    <3>5. QED  BY <2>1, <3>4, CpuPair
  <2>3. CASE ~("sendClear" \in w /\ queue[c] # <<>>)
    <3>1. queue'[c] = queue[c] /\ expect'[c] = expect[c] /\ next'[c] = next[c]
      BY <1>8, <2>3, Configured
    <3>2. ChannelOrder(c)'
      BY <3>1, OrderKept
    <3>3. QED  BY <2>1, <3>2, CpuPair
  <2>4. QED  BY <2>2, <2>3
<1>9. QED
  BY <1>1, <1>2, <1>3, <1>4, <1>6, <1>7, <1>8, GuestIsCpu, SendCases, SoundRefused
     DEF Next, SendHle, Send, Poll, Driver, DriverRead, DriverStart, DriverDone, AcknowledgeSent,
         Refused, Joined, vars

-----------------------------------------------------------------------------
(* The interrupts.                                                         *)

\* The receiver c and the sender c, with lengths for emptiness.
Woken(c) ==
    c \in Guest /\ "recvNotEmptyIrq" \in cnt[c] /\ Len(queue[Other(c)]) > 0 =>
        "recv" \in irf[c] \/ c \in draining
Told(c) ==
    ipcType # "Hle" /\ "sendEmptyIrq" \in cnt[c] /\ Len(queue[c]) = 0 => c \in signalled

LEMMA InterruptsByLength ==
    TypeOK => /\ NoLostWakeup <=> \A c \in Cpu : Woken(c)
              /\ EmptySignalled <=> \A c \in Cpu : Told(c)
<1> SUFFICES ASSUME TypeOK PROVE /\ NoLostWakeup <=> \A c \in Cpu : Woken(c)
                                 /\ EmptySignalled <=> \A c \in Cpu : Told(c)
  OBVIOUS
<1>1. \A c \in Cpu : queue[c] = <<>> <=> Len(queue[c]) = 0
  BY QueueEmpty DEF TypeOK
<1>2. \A c \in Cpu : queue[Other(c)] # <<>> <=> Len(queue[Other(c)]) > 0
  BY CpuPair, QueueEmpty DEF TypeOK
<1>3. Guest \subseteq Cpu
  BY GuestIsCpu
<1>4. QED  BY <1>1, <1>2, <1>3 DEF NoLostWakeup, EmptySignalled, Woken, Told

\* Nothing that the two conditions look at changes, or only for the better.
LEMMA WokenKept ==
    ASSUME NEW c \in Cpu, Woken(c), UNCHANGED <<ipcType, draining>>,
           "recvNotEmptyIrq" \in cnt'[c] => "recvNotEmptyIrq" \in cnt[c],
           Len(queue'[Other(c)]) > 0 => Len(queue[Other(c)]) > 0,
           "recv" \in irf[c] => "recv" \in irf'[c]
    PROVE  Woken(c)'
  BY DEF Woken, Guest

LEMMA ToldKept ==
    ASSUME NEW c \in Cpu, Told(c), UNCHANGED ipcType,
           "sendEmptyIrq" \in cnt'[c] => "sendEmptyIrq" \in cnt[c],
           Len(queue'[c]) = 0 => Len(queue[c]) = 0,
           c \in signalled => c \in signalled'
    PROVE  Told(c)'
  BY DEF Told

\* No step loses the wakeup of a receiver.
LEMMA WokenStep ==
    ASSUME TypeOK, \A c \in Cpu : ChannelStatus(c), \A c \in Cpu : Woken(c),
           [Next /\ UNCHANGED ipcType]_<<vars, ipcType>>
    PROVE  \A c \in Cpu : Woken(c)'
<1> DEFINE Goal == \A c \in Cpu : Woken(c)'
<1>1. /\ cnt \in [Cpu -> SUBSET Control] /\ irf \in [Cpu -> SUBSET {"recv", "sent"}]
      /\ \A c \in Cpu : Len(queue[c]) \in Nat
      /\ "ARM9" \in Cpu /\ "ARM7" \in Cpu /\ ipcType' = ipcType
  BY DEF TypeOK, Cpu, vars
<1>2. ASSUME NEW c \in Cpu, Refused(c) PROVE Goal
  BY <1>1, <1>2, WokenKept DEF Refused
<1>3. ASSUME NEW c \in Cpu, Joined(c) PROVE Goal
  <2> DEFINE o == Other(c)
             len == Len(queue[c])
  <2>1. /\ o \in Cpu /\ o # c /\ Other(o) = c /\ Cpu = {c, o}
    BY CpuPair
  <2>2. /\ "recvNotEmptyIrq" \in cnt'[c] <=> "recvNotEmptyIrq" \in cnt[c]
        /\ "recvNotEmptyIrq" \in cnt'[o] <=> "recvNotEmptyIrq" \in cnt[o]
    BY <1>1, <1>3, MarkSentBits DEF Joined, When
  <2>3. /\ irf'[o] = irf[o] \cup When(len = 0 /\ "recvNotEmptyIrq" \in cnt[o], "recv")
        /\ irf'[c] = irf[c] /\ UNCHANGED draining
    BY <1>3, <2>1, RaiseType DEF Joined
  <2>4. queue'[o] = queue[o] /\ len \in Nat
    BY <1>1, <1>3, Enqueued DEF Joined
  <2>5. Woken(c)'
    BY <1>1, <2>1, <2>2, <2>3, <2>4, WokenKept
  <2>6. Woken(o)'
    <3>1. Woken(o)
      BY <2>1
    <3> HIDE DEF o
    <3>2. CASE len = 0
      BY <1>1, <2>2, <2>3, <3>2 DEF Woken, When
    <3>3. CASE len > 0
      BY <1>1, <2>1, <2>2, <2>3, <3>1, <3>3 DEF Woken, Guest
    <3>4. QED  BY <2>4, <3>2, <3>3
  <2>7. QED  BY <2>1, <2>5, <2>6
<1>4. ASSUME NEW c \in Cpu, FifoRecv(c), UNCHANGED draining PROVE Goal
  <2> DEFINE o == Other(c)
             len == Len(queue[o])
  <2>1. /\ o \in Cpu /\ o # c /\ Other(o) = c /\ Cpu = {c, o}
    BY CpuPair
  <2>2. CASE ReadNothing(c) \/ Shown(c)
    BY <1>1, <1>4, <2>2, WokenKept DEF ReadNothing, Shown
  <2>3. CASE Taken(c)
    <3>1. /\ "recvNotEmptyIrq" \in cnt'[c] <=> "recvNotEmptyIrq" \in cnt[c]
          /\ "recvNotEmptyIrq" \in cnt'[o] <=> "recvNotEmptyIrq" \in cnt[o]
      BY <1>1, <2>1, <2>3, MarkReceivedBits DEF Taken, When
    <3>2. irf[c] \subseteq irf'[c] /\ irf[o] \subseteq irf'[o]
      BY <2>1, <2>3, RaiseType DEF Taken, When
    <3>3. queue'[c] = queue[c] /\ (Len(queue'[o]) > 0 => len > 0)
      BY <2>3 DEF Taken
    <3>4. Woken(c)'
      BY <1>1, <1>4, <3>1, <3>2, <3>3, WokenKept
    <3>5. Woken(o)'
      BY <1>1, <1>4, <2>1, <3>1, <3>2, <3>3, WokenKept
    <3>6. QED  BY <2>1, <3>4, <3>5
  <2>4. QED  BY <1>4, <2>2, <2>3, ReadCases
<1>5. ASSUME ipcType = "Hle", Woken("ARM9")' PROVE Goal
  BY <1>1, <1>5 DEF Woken, Guest, Cpu
<1>6. ASSUME NEW k \in [Cpu -> SUBSET Control], Reply(k, Len(queue["ARM7"])), ipcType = "Hle",
             "recvNotEmptyIrq" \in k["ARM9"] => "recvNotEmptyIrq" \in cnt["ARM9"],
             "recv" \in irf["ARM9"] => "recv" \in irf'["ARM9"],
             Len(queue["ARM7"]) = 0 /\ "recvNotEmptyIrq" \in cnt["ARM9"] => "recv" \in irf'["ARM9"],
             UNCHANGED draining
      PROVE  Goal
  <2>1. "recvNotEmptyIrq" \in cnt'["ARM9"] => "recvNotEmptyIrq" \in cnt["ARM9"]
    <3>1. cnt'["ARM9"] = IF Len(queue["ARM7"]) = Capacity THEN k["ARM9"] \cup {"recvFull"}
                         ELSE k["ARM9"] \ When(Len(queue["ARM7"]) = 0, "recvEmpty")
      BY <1>6, Replied
    <3>2. QED  BY <1>6, <3>1
  <2>2. Woken("ARM9") /\ Other("ARM9") = "ARM7" /\ Len(queue["ARM7"]) \in Nat
    BY <1>1 DEF Other
  <2>3. Woken("ARM9")'
    <3>1. CASE Len(queue["ARM7"]) = 0
      BY <1>6, <2>1, <3>1 DEF Woken
    <3>2. CASE Len(queue["ARM7"]) > 0
      BY <1>6, <2>1, <2>2, <3>2 DEF Woken, Guest
    <3>3. QED  BY <2>2, <3>1, <3>2
  <2>4. QED  BY <1>5, <1>6, <2>3
<1>7. ASSUME NEW answers \in BOOLEAN, FifoSendHle(answers) PROVE Goal
  <2> DEFINE k == [cnt EXCEPT !["ARM9"] = @ \ {"sendEmpty"}]
  <2>1. /\ k \in [Cpu -> SUBSET Control]
        /\ "recvNotEmptyIrq" \in k["ARM9"] <=> "recvNotEmptyIrq" \in cnt["ARM9"]
    BY <1>1
  <2>2. /\ ipcType = "Hle" /\ UNCHANGED draining
        /\ IF answers THEN Reply(k, Len(queue["ARM7"])) ELSE cnt' = k /\ UNCHANGED <<queue, next>>
    BY <1>7 DEF FifoSendHle
  <2>3. irf'["ARM9"] = irf["ARM9"] \cup When("sendEmptyIrq" \in cnt["ARM9"], "sent")
            \cup When(answers /\ Len(queue["ARM7"]) = 0 /\ "recvNotEmptyIrq" \in cnt["ARM9"], "recv")
    BY <1>1, <1>7 DEF FifoSendHle
  <2> HIDE DEF k
  <2>4. CASE answers
    BY <1>6, <2>1, <2>2, <2>3, <2>4 DEF When
  <2>5. CASE ~answers
    <3>1. Woken("ARM9")'
      BY <1>1, <2>1, <2>2, <2>3, <2>5, WokenKept
    <3>2. QED  BY <1>5, <2>2, <3>1
  <2>6. QED  BY <2>4, <2>5
<1>8. ASSUME ReplyUnasked PROVE Goal
  <2>1. irf'["ARM9"] = irf["ARM9"]
            \cup When(Len(queue["ARM7"]) = 0 /\ "recvNotEmptyIrq" \in cnt["ARM9"], "recv")
    BY <1>1, <1>8 DEF ReplyUnasked, Raise
  <2>2. Reply(cnt, Len(queue["ARM7"])) /\ ipcType = "Hle" /\ UNCHANGED draining
    BY <1>8 DEF ReplyUnasked
  <2>3. QED  BY <1>1, <1>6, <2>1, <2>2 DEF When
<1>9. ASSUME NEW c \in Cpu, DriverStart(c) PROVE Goal
  <2>1. /\ draining' = draining \cup {c} /\ UNCHANGED <<cnt, queue>>
        /\ \A d \in Cpu : d # c => irf'[d] = irf[d]
    BY <1>1, <1>9 DEF DriverStart
  <2>2. QED  BY <1>1, <2>1 DEF Woken, Guest
<1>10. ASSUME NEW c \in Guest, DriverDone(c) PROVE Goal
  <2>1. c \in Cpu /\ Other(c) \in Cpu /\ Other(Other(c)) = c /\ ChannelStatus(Other(c))
    BY CpuPair, GuestIsCpu
  <2>2. Len(queue[Other(c)]) = 0
    <3>1. CASE ipcType = "Hle"
      <4>1. Other(c) = "ARM7" /\ queue["ARM7"] = <<>>
        BY <1>10, <3>1 DEF Guest, Other, DriverDone, ReadsEmpty
      <4>2. QED  BY <4>1
    <3>2. CASE ipcType # "Hle"
      BY <1>10, <2>1, <3>2 DEF DriverDone, ReadsEmpty, ChannelStatus
    <3>3. QED  BY <3>1, <3>2
  <2>3. draining' = draining \ {c} /\ UNCHANGED <<cnt, queue, irf>>
    BY <1>10 DEF DriverDone
  <2>4. QED  BY <1>1, <2>2, <2>3 DEF Woken, Guest
<1>11. ASSUME NEW c \in Cpu, AcknowledgeSent(c) PROVE Goal
  <2>1. /\ UNCHANGED <<cnt, queue, draining>>
        /\ \A d \in Cpu : "recv" \in irf[d] => "recv" \in irf'[d]
    BY <1>1, <1>11 DEF AcknowledgeSent
  <2>2. QED  BY <1>1, <2>1, WokenKept
<1>12. ASSUME NEW c \in Guest, NEW w \in Writes, SetFifoCnt(c, w) PROVE Goal
  <2> DEFINE o == Other(c)
             clears == "sendClear" \in w /\ queue[c] # <<>>
             kc == IF clears THEN (cnt[c] \ {"sendFull"}) \cup {"sendEmpty"} ELSE cnt[c]
  <2>1. c \in Cpu /\ o \in Cpu /\ o # c /\ Other(o) = c /\ Cpu = {c, o}
    BY CpuPair, GuestIsCpu
  <2>2. /\ cnt'[c] = (kc \ (Config \cup (w \cap {"err"}))) \cup (w \cap Config)
        /\ cnt'[o] = (IF clears THEN (cnt[o] \ {"recvFull"}) \cup {"recvEmpty"} ELSE cnt[o])
        /\ queue'[c] = (IF clears THEN <<>> ELSE queue[c]) /\ queue'[o] = queue[o]
        /\ irf'[c] = irf[c] \cup When(SentEnabledEdge(kc, w), "sent")
                            \cup When(RecvEnabledEdge(kc, w), "recv")
        /\ irf'[o] = irf[o] /\ UNCHANGED draining
    BY <1>12, <2>1, Configured
  <2>3. Woken(o)'
    <3>1. Len(queue'[c]) > 0 => Len(queue[c]) > 0
      BY <2>2
    <3>2. "recvNotEmptyIrq" \in cnt'[o] => "recvNotEmptyIrq" \in cnt[o]
      BY <2>2
    <3>3. QED  BY <1>1, <2>1, <2>2, <3>1, <3>2, WokenKept
  <2>4. /\ "recvNotEmptyIrq" \in kc <=> "recvNotEmptyIrq" \in cnt[c]
        /\ "recvEmpty" \in kc <=> "recvEmpty" \in cnt[c]
        /\ "recvNotEmptyIrq" \in cnt'[c] <=> "recvNotEmptyIrq" \in w
    BY <2>2 DEF Config
  <2>5. Woken(c) /\ ("recvEmpty" \in cnt[c] <=> Len(queue[o]) = 0)
    BY <1>12, <2>1 DEF ChannelStatus
  <2>6. Len(queue[o]) \in Nat
    BY <1>1, <2>1
  <2> HIDE DEF o, clears, kc
  <2>7. Woken(c)'
    <3> SUFFICES ASSUME "recvNotEmptyIrq" \in w, Len(queue[o]) > 0, c \notin draining
                 PROVE  "recv" \in irf'[c]
      BY <2>2, <2>4 DEF Woken, o
    <3>1. CASE "recvNotEmptyIrq" \in cnt[c]
      BY <1>12, <2>2, <2>5, <3>1 DEF Woken, o
    <3>2. CASE "recvNotEmptyIrq" \notin cnt[c]
      <4>1. RecvEnabledEdge(kc, w)
        BY <2>4, <2>5, <2>6, <3>2 DEF RecvEnabledEdge
      <4>2. QED  BY <2>2, <4>1 DEF When
    <3>3. QED  BY <3>1, <3>2
  <2>8. QED  BY <2>1, <2>3, <2>7
<1>13. ASSUME UNCHANGED <<vars, ipcType>> PROVE Goal
  BY <1>1, <1>13, WokenKept DEF vars
<1>14. QED
  BY <1>1, <1>2, <1>3, <1>4, <1>7, <1>8, <1>9, <1>10, <1>11, <1>12, <1>13, GuestIsCpu,
     SendCases, SoundRefused
     DEF Next, SendHle, Send, Poll, Driver, DriverRead

\* No step leaves a sender untold.
LEMMA ToldStep ==
    ASSUME TypeOK, \A c \in Cpu : ChannelStatus(c), \A c \in Cpu : Told(c),
           [Next /\ UNCHANGED ipcType]_<<vars, ipcType>>
    PROVE  \A c \in Cpu : Told(c)'
<1> DEFINE Goal == \A c \in Cpu : Told(c)'
<1>1. /\ cnt \in [Cpu -> SUBSET Control] /\ \A c \in Cpu : Len(queue[c]) \in Nat
      /\ ipcType' = ipcType
  BY DEF TypeOK, vars
<1>2. ASSUME ipcType = "Hle" PROVE Goal
  BY <1>1, <1>2 DEF Told
<1>3. ASSUME NEW c \in Cpu, Refused(c) PROVE Goal
  BY <1>1, <1>3, ToldKept DEF Refused
<1>4. ASSUME NEW c \in Cpu, Joined(c) PROVE Goal
  <2>1. /\ Other(c) \in Cpu /\ Other(c) # c /\ Cpu = {c, Other(c)}
    BY CpuPair
  <2>2. /\ "sendEmptyIrq" \in cnt'[c] <=> "sendEmptyIrq" \in cnt[c]
        /\ "sendEmptyIrq" \in cnt'[Other(c)] <=> "sendEmptyIrq" \in cnt[Other(c)]
    BY <1>1, <1>4, MarkSentBits DEF Joined, When
  <2>3. Len(queue'[c]) # 0 /\ queue'[Other(c)] = queue[Other(c)] /\ UNCHANGED signalled
    BY <1>1, <1>4, Enqueued DEF Joined
  <2>4. Told(c)' /\ Told(Other(c))'
    BY <1>1, <2>1, <2>2, <2>3, ToldKept
  <2>5. QED  BY <2>1, <2>4
<1>5. ASSUME NEW c \in Cpu, FifoRecv(c) PROVE Goal
  <2> DEFINE o == Other(c)
             len == Len(queue[o])
  <2>1. /\ o \in Cpu /\ o # c /\ Cpu = {c, o}
    BY CpuPair
  <2>2. CASE ReadNothing(c) \/ Shown(c)
    BY <1>1, <1>5, <2>2, ToldKept DEF ReadNothing, Shown
  <2>3. CASE Taken(c)
    <3>1. /\ "sendEmptyIrq" \in cnt'[c] <=> "sendEmptyIrq" \in cnt[c]
          /\ "sendEmptyIrq" \in cnt'[o] <=> "sendEmptyIrq" \in cnt[o]
      BY <1>1, <2>1, <2>3, MarkReceivedBits DEF Taken, When
    <3>2. /\ queue'[c] = queue[c] /\ Len(queue'[o]) = len - 1 /\ len \in Nat /\ len > 0
          /\ signalled' = (signalled \ When(len = 1, o))
                              \cup When(len = 1 /\ "sendEmptyIrq" \in cnt[o], o)
      BY <2>3 DEF Taken
    <3>3. Told(c)'
      BY <1>1, <2>1, <3>1, <3>2, ToldKept DEF When
    <3> HIDE DEF o
    <3>4. Told(o)'
      <4>1. CASE len = 1
        BY <3>1, <3>2, <4>1 DEF Told, When
      <4>2. CASE len # 1
        <5>1. Len(queue'[o]) # 0
          BY <3>2, <4>2
        <5>2. QED  BY <5>1 DEF Told
      <4>3. QED  BY <4>1, <4>2
    <3>5. QED  BY <2>1, <3>3, <3>4
  <2>4. QED  BY <1>5, <2>2, <2>3, ReadCases
<1>6. ASSUME NEW c \in Cpu, DriverStart(c) \/ DriverDone(c) \/ AcknowledgeSent(c) PROVE Goal
  BY <1>1, <1>6, ToldKept DEF DriverStart, DriverDone, AcknowledgeSent
<1>7. ASSUME NEW c \in Cpu, NEW w \in Writes, SetFifoCnt(c, w), ipcType # "Hle" PROVE Goal
  <2> DEFINE o == Other(c)
             clears == "sendClear" \in w /\ queue[c] # <<>>
             kc == IF clears THEN (cnt[c] \ {"sendFull"}) \cup {"sendEmpty"} ELSE cnt[c]
  <2>1. o \in Cpu /\ o # c /\ Cpu = {c, o}
    BY CpuPair
  <2>2. /\ cnt'[c] = (kc \ (Config \cup (w \cap {"err"}))) \cup (w \cap Config)
        /\ cnt'[o] = (IF clears THEN (cnt[o] \ {"recvFull"}) \cup {"recvEmpty"} ELSE cnt[o])
        /\ queue'[c] = (IF clears THEN <<>> ELSE queue[c]) /\ queue'[o] = queue[o]
        /\ signalled' = (signalled \ When(clears, c)) \cup When(SentEnabledEdge(kc, w), c)
        /\ clears => "sendEmptyIrq" \notin cnt[c]
    BY <1>7, Configured
  <2>3. Told(o)'
    <3>1. "sendEmptyIrq" \in cnt'[o] => "sendEmptyIrq" \in cnt[o]
      BY <2>2
    <3>2. o \in signalled => o \in signalled'
      BY <2>1, <2>2 DEF When
    <3>3. QED  BY <1>1, <2>1, <2>2, <3>1, <3>2, ToldKept
  <2>4. /\ "sendEmptyIrq" \in kc <=> "sendEmptyIrq" \in cnt[c]
        /\ clears => "sendEmpty" \in kc
        /\ ~clears => kc = cnt[c]
        /\ "sendEmptyIrq" \in cnt'[c] <=> "sendEmptyIrq" \in w
    BY <2>2 DEF Config
  <2>5. Told(c) /\ ("sendEmpty" \in cnt[c] <=> Len(queue[c]) = 0)
    BY <1>7 DEF ChannelStatus
  <2> HIDE DEF o, clears, kc
  <2>6. Told(c)'
    <3> SUFFICES ASSUME "sendEmptyIrq" \in w, Len(queue'[c]) = 0
                 PROVE  c \in signalled'
      BY <2>4 DEF Told
    <3>1. CASE clears
      <4>1. SentEnabledEdge(kc, w)
        BY <2>2, <2>4, <3>1 DEF SentEnabledEdge
      <4>2. QED  BY <2>2, <4>1 DEF When
    <3>2. CASE ~clears /\ "sendEmptyIrq" \in cnt[c]
      BY <1>7, <2>2, <2>5, <3>2 DEF Told, When
    <3>3. CASE ~clears /\ "sendEmptyIrq" \notin cnt[c]
      <4>1. SentEnabledEdge(kc, w)
        BY <2>2, <2>4, <2>5, <3>3 DEF SentEnabledEdge
      <4>2. QED  BY <2>2, <4>1 DEF When
    <3>4. QED  BY <3>1, <3>2, <3>3
  <2>7. QED  BY <2>1, <2>3, <2>6
<1>8. ASSUME UNCHANGED <<vars, ipcType>> PROVE Goal
  BY <1>1, <1>8, ToldKept DEF vars
<1>9. CASE ipcType # "Hle"
  BY <1>3, <1>4, <1>5, <1>6, <1>7, <1>8, <1>9, GuestIsCpu, SendCases, SoundRefused
     DEF Next, SendHle, Send, Poll, Driver, DriverRead, FifoSendHle, ReplyUnasked, Cpu
<1>10. QED  BY <1>2, <1>9

-----------------------------------------------------------------------------
(* The theorems.                                                           *)

\* Each fact about the fifos, for both channels.
Channels ==
    /\ TypeOK
    /\ \A c \in Cpu : ChannelStatus(c)
    /\ \A c \in Cpu : ChannelOrder(c)
    /\ \A c \in Cpu : Woken(c)
    /\ \A c \in Cpu : Told(c)

LEMMA ChannelsInvariant == Spec => []Channels
<1>1. Init => Channels
  <2> SUFFICES ASSUME Init PROVE Channels
    OBVIOUS
  <2>1. /\ \A c \in Cpu : cnt[c] = {"sendEmpty", "recvEmpty"} /\ queue[c] = <<>>
                          /\ next[c] = 0 /\ expect[c] = 0 /\ irf[c] = {}
        /\ signalled = Cpu /\ draining = {} /\ Len(<<>>) = 0
    BY DEF Init
  <2>2. Numbers \in Nat /\ Numbers > 0 /\ Capacity \in Nat /\ Capacity > 0 /\ 0 % Numbers = 0
    BY IpcAssumption, ModBelow
  <2>3. TypeOK
    BY <2>1, <2>2 DEF Init, TypeOK, Control
  <2>4. \A c \in Cpu : Other(c) \in Cpu
    BY CpuPair
  <2>5. \A c \in Cpu : ChannelStatus(c)
    BY <2>1, <2>2, <2>4 DEF ChannelStatus
  <2>6. \A c \in Cpu : ChannelOrder(c)
    BY <2>1, <2>2 DEF ChannelOrder
  <2>7. \A c \in Cpu : Woken(c) /\ Told(c)
    BY <2>1, <2>4 DEF Woken, Told
  <2>8. QED  BY <2>3, <2>5, <2>6, <2>7 DEF Channels
<1>2. Channels /\ [Next /\ UNCHANGED ipcType]_<<vars, ipcType>> => Channels'
  BY TypeStep, StatusStep, OrderStep, WokenStep, ToldStep DEF Channels
<1>3. QED  BY <1>1, <1>2, PTL DEF Spec

\* The four status bits of each queue, set and cleared one at a time by sends,
\* receives and clears of two CPUs, always tell the state of the queue.
THEOREM StatusBits == Spec => []StatusAgrees
<1>1. Channels => StatusAgrees
  BY StatusByLength DEF Channels
<1>2. QED  BY <1>1, ChannelsInvariant, PTL

\* No message is lost, doubled or overtaken between the CPUs, whatever is
\* sent to a full fifo, read from a disabled one or cleared.
THEOREM MessagesInOrder == Spec => []InOrder
<1>1. Channels => InOrder
  BY DEF Channels, ChannelOrder, InOrder
<1>2. QED  BY <1>1, ChannelsInvariant, PTL

\* A receiver with its interrupt enabled is woken although only the first
\* message of a burst raises it.
THEOREM WakeupKept == Spec => []NoLostWakeup
<1>1. Channels => NoLostWakeup
  BY InterruptsByLength DEF Channels
<1>2. QED  BY <1>1, ChannelsInvariant, PTL

\* A sender with its interrupt enabled is told that its fifo ran empty.
THEOREM EmptinessTold == Spec => []EmptySignalled
<1>1. Channels => EmptySignalled
  BY InterruptsByLength DEF Channels
<1>2. QED  BY <1>1, ChannelsInvariant, PTL
-----------------------------------------------------------------------------
(* The ring buffers under the queues.                                      *)

CONSTANTS Value, Size, Word, Vector, Garbage
VARIABLES start, len, end, slots, saved

\* One buffer, of any size, whatever it holds.
Ring == INSTANCE FixedFifo WITH fifo <- slots

\* What division by a positive number gives.
LEMMA Division ==
    ASSUME NEW n \in Nat \ {0}, NEW x \in Int
    PROVE  /\ (x % n) \in 0 .. n - 1 /\ (x \div n) \in Int
           /\ x = (n * (x \div n)) + (x % n)
  OBVIOUS

\* Within a turn of 0 there are three quotients.
LEMMA Quotients ==
    ASSUME NEW n \in Nat \ {0}, NEW q \in Int, NEW r \in 0 .. n - 1
    PROVE  LET x == (n * q) + r IN
           /\ 0 <= x /\ x < n => q = 0
           /\ n <= x /\ x < n + n => q = 1
           /\ -n <= x /\ x < 0 => q = -1
  OBVIOUS

\* Indices are at most one turn away from their slots.
LEMMA Remainders ==
    ASSUME NEW n \in Nat \ {0}, NEW x \in Int
    PROVE  /\ 0 <= x /\ x < n => (x % n) = x
           /\ n <= x /\ x < n + n => (x % n) = x - n
           /\ -n <= x /\ x < 0 => (x % n) = x + n
<1> DEFINE q == x \div n
           r == x % n
<1>1. r \in 0 .. n - 1 /\ q \in Int /\ x = (n * q) + r
  BY Division
<1> HIDE DEF q
<1>2. (q = 0 => r = x) /\ (q = 1 => r = x - n) /\ (q = -1 => r = x + n)
  BY <1>1
<1> HIDE DEF r
<1>3. /\ 0 <= x /\ x < n => r = x
      /\ n <= x /\ x < n + n => r = x - n
      /\ -n <= x /\ x < 0 => r = x + n
  BY <1>1, <1>2, Quotients
<1>4. QED  BY <1>3 DEF r

\* Decrementing an index at 0 wraps to the last slot.
LEMMA LastRemainder ==
    ASSUME NEW n \in Nat \ {0}, NEW w \in Nat \ {0}, (w % n) = 0
    PROVE  ((w - 1) % n) = n - 1
<1> DEFINE q == w \div n
           p == (w - 1) \div n
           r == (w - 1) % n
<1>1. w = (n * q) /\ q \in Int /\ (w - 1) = (n * p) + r /\ p \in Int /\ r \in 0 .. n - 1
  BY Division
<1> HIDE DEF q, p, r
<1>2. n * (q - p) = r + 1 /\ q - p \in Int
  BY <1>1
<1>3. \A d \in Int : (n * d) \in 1 .. n => d = 1
  OBVIOUS
<1>4. q - p = 1
  BY <1>1, <1>2, <1>3
<1>5. r = n - 1
  BY <1>1, <1>2, <1>4
<1>6. QED  BY <1>5 DEF r

\* The slot i places behind a slot s.
Behind(s, i) == IF s + i < Size THEN s + i ELSE s + i - Size

\* Behind computes the slot the code's modulo computes.
LEMMA SlotBehind ==
    ASSUME Ring!Dimensions, NEW s \in 0 .. Size - 1, NEW i \in 0 .. Size
    PROVE  /\ ((i + s) % Size) = Behind(s, i)
           /\ ((s + i) % Size) = Behind(s, i)
           /\ Behind(s, i) \in 0 .. Size - 1
<1>1. Size \in Nat \ {0} /\ s + i \in Int /\ s + i = i + s
  BY DEF Ring!Dimensions
<1> DEFINE x == s + i
           m == x % Size
<1>2. x \in Int /\ 0 <= x /\ x < Size + Size /\ (x < Size \/ Size <= x)
  BY <1>1
<1>3. /\ 0 <= x /\ x < Size => m = x
      /\ Size <= x /\ x < Size + Size => m = x - Size
  BY <1>1, <1>2, Remainders, Zenon
<1>4. m = ((s + i) % Size) /\ m = ((i + s) % Size)
  BY <1>1, Zenon
<1> HIDE DEF m
<1>5. m = Behind(s, i) /\ Behind(s, i) \in 0 .. Size - 1
  BY <1>1, <1>2, <1>3 DEF Behind
<1>6. QED  BY <1>4, <1>5, Zenon

\* A store writes the slots from `from` on and no other.
LEMMA StoreWrites ==
    ASSUME Ring!Dimensions, slots \in [0 .. Size - 1 -> Value \cup {Garbage}],
           NEW from \in 0 .. Size - 1, NEW vs \in Seq(Value \cup {Garbage}), Ring!Store(from, vs)
    PROVE  /\ slots' \in [0 .. Size - 1 -> Value \cup {Garbage}]
           /\ \A k \in 0 .. Size - 1 :
                slots'[Behind(from, k)] = IF k < Len(vs) THEN vs[k + 1] ELSE slots[Behind(from, k)]
<1> DEFINE G == Value \cup {Garbage}
           at(s) == (s - from) % Size
<1>1. Size \in Nat \ {0} /\ Len(vs) \in Nat /\ \A i \in 1 .. Len(vs) : vs[i] \in G
  BY DEF Ring!Dimensions
<1>2. slots' = [s \in 0 .. Size - 1 |-> IF at(s) + 1 <= Len(vs) THEN vs[at(s) + 1] ELSE slots[s]]
  BY DEF Ring!Store, Ring!Slot
<1>3. \A s \in 0 .. Size - 1 : at(s) \in 0 .. Size - 1
  BY <1>1, Division
<1>4. ASSUME NEW k \in 0 .. Size - 1 PROVE at(Behind(from, k)) = k
  <2>1. Behind(from, k) \in 0 .. Size - 1 /\ Behind(from, k) - from \in {k, k - Size}
    BY <1>1 DEF Behind
  <2>2. (k % Size) = k /\ ((k - Size) % Size) = k
    <3>1. k \in Int /\ k - Size \in Int /\ 0 <= k /\ k < Size /\ -Size <= k - Size /\ k - Size < 0
      BY <1>1
    <3>2. (k % Size) = k
      BY <1>1, <3>1, Remainders, Zenon
    <3>3. ((k - Size) % Size) = (k - Size) + Size
      BY <1>1, <3>1, Remainders, Zenon
    <3> DEFINE m == (k - Size) % Size
    <3>4. m = (k - Size) + Size
      BY <3>3
    <3> HIDE DEF m
    <3>5. m = k
      BY <1>1, <3>4
    <3>6. QED  BY <3>2, <3>5, Zenon DEF m
  <2>3. QED  BY <2>1, <2>2
<1> HIDE DEF at
<1>5. slots' \in [0 .. Size - 1 -> G]
  <2>1. ASSUME NEW s \in 0 .. Size - 1
        PROVE  (IF at(s) + 1 <= Len(vs) THEN vs[at(s) + 1] ELSE slots[s]) \in G
    <3>1. slots[s] \in G
      BY Zenon
    <3>2. at(s) + 1 <= Len(vs) => vs[at(s) + 1] \in G
      <4>1. at(s) \in 0 .. Size - 1
        BY <1>3
      <4>2. at(s) + 1 <= Len(vs) => at(s) + 1 \in 1 .. Len(vs)
        BY <1>1, <4>1
      <4>3. QED  BY <1>1, <4>2, Zenon
    <3>3. QED  BY <3>1, <3>2, Zenon
  <2>2. QED  BY <1>2, <2>1, Zenon
<1>6. \A k \in 0 .. Size - 1 : Behind(from, k) \in 0 .. Size - 1
  BY <1>1 DEF Behind
<1>7. ASSUME NEW k \in 0 .. Size - 1
      PROVE  slots'[Behind(from, k)] = IF k < Len(vs) THEN vs[k + 1] ELSE slots[Behind(from, k)]
  <2>1. slots'[Behind(from, k)] = IF k + 1 <= Len(vs) THEN vs[k + 1] ELSE slots[Behind(from, k)]
    BY <1>2, <1>4, <1>6, Zenon
  <2>2. k + 1 <= Len(vs) <=> k < Len(vs)
    BY <1>1
  <2>3. QED  BY <2>1, <2>2, Zenon
<1>8. QED  BY <1>5, <1>7

\* The n elements from slot s on.
View(s, n, f) == [i \in 1 .. n |-> f[Behind(s, i - 1)]]

\* The elements the code's Index sees.
LEMMA Seen ==
    ASSUME Ring!Dimensions, NEW s \in 0 .. Size - 1, NEW n \in 0 .. Size, NEW f
    PROVE  [i \in 1 .. n |-> f[((i - 1) + s) % Size]] = View(s, n, f)
<1>1. ASSUME NEW i \in 1 .. n PROVE f[((i - 1) + s) % Size] = f[Behind(s, i - 1)]
  <2>1. i - 1 \in 0 .. Size
    BY DEF Ring!Dimensions
  <2>2. QED  BY <2>1, SlotBehind, Zenon
<1>2. QED  BY <1>1, Zenon DEF View

\* A store behind the n elements from slot s on made g of f: it wrote vs and
\* none of the n.
Extends(s, n, f, g, vs) ==
    \A k \in 0 .. Size - 1 :
        /\ k < Len(vs) => g[Behind(Behind(s, n), k)] = vs[k + 1]
        /\ Size - n <= k => g[Behind(Behind(s, n), k)] = f[Behind(Behind(s, n), k)]

\* Elements stored behind the others are the last of the sequence.
LEMMA PushedBack ==
    ASSUME Ring!Dimensions, NEW s \in 0 .. Size - 1, NEW n \in 0 .. Size, NEW f, NEW g,
           NEW vs \in Seq(Value), n + Len(vs) <= Size, View(s, n, f) \in Seq(Value),
           Extends(s, n, f, g, vs)
    PROVE  /\ View(s, n + Len(vs), g) = View(s, n, f) \o vs
           /\ View(s, n + Len(vs), g) \in Seq(Value)
           /\ Behind(Behind(s, n), Len(vs)) = Behind(s, n + Len(vs))
<1> DEFINE e == Behind(s, n)
           m == Len(vs)
           q == View(s, n, f)
<1>1. Size \in Nat \ {0} /\ m \in Nat /\ n \in Nat /\ e \in 0 .. Size - 1
  BY DEF Ring!Dimensions, Behind
<1>2. Len(q) = n /\ \A i \in 1 .. n : q[i] = f[Behind(s, i - 1)]
  BY <1>1 DEF View
<1>3. q \o vs \in Seq(Value) /\ Len(q \o vs) = n + m
      /\ \A i \in 1 .. n + m : (q \o vs)[i] = IF i <= n THEN q[i] ELSE vs[i - n]
  <2>1. q \in Seq(Value)
    OBVIOUS
  <2> HIDE DEF q
  <2>2. q \o vs \in Seq(Value) /\ Len(q \o vs) = Len(q) + Len(vs)
        /\ \A i \in 1 .. Len(q) + Len(vs) :
             (q \o vs)[i] = IF i <= Len(q) THEN q[i] ELSE vs[i - Len(q)]
    BY <2>1, ConcatProperties
  <2>3. QED  BY <1>2, <2>2, Zenon
<1>4. ASSUME NEW i \in 1 .. n PROVE g[Behind(s, i - 1)] = f[Behind(s, i - 1)]
  <2> DEFINE k == (Size - n) + (i - 1)
  <2>1. k \in 0 .. Size - 1 /\ Size - n <= k /\ Behind(e, k) = Behind(s, i - 1)
    BY <1>1 DEF Behind
  <2> HIDE DEF k
  <2>2. QED  BY <2>1 DEF Extends
<1>5. ASSUME NEW i \in n + 1 .. n + m PROVE g[Behind(s, i - 1)] = vs[i - n]
  <2> DEFINE k == i - 1 - n
  <2>1. k \in 0 .. Size - 1 /\ k < m /\ Behind(e, k) = Behind(s, i - 1) /\ k + 1 = i - n
    BY <1>1 DEF Behind
  <2> HIDE DEF k
  <2>2. g[Behind(e, k)] = vs[k + 1]
    BY <2>1 DEF Extends
  <2>3. QED  BY <2>1, <2>2
<1>6. View(s, n + m, g) = q \o vs
  <2>1. ASSUME NEW i \in 1 .. n + m PROVE g[Behind(s, i - 1)] = (q \o vs)[i]
    <3> HIDE DEF q
    <3>1. CASE i <= n
      <4>1. i \in 1 .. n
        BY <1>1, <3>1
      <4>2. QED  BY <1>2, <1>3, <1>4, <3>1, <4>1
    <3>2. CASE ~(i <= n)
      <4>1. i \in n + 1 .. n + m
        BY <1>1, <3>2
      <4>2. QED  BY <1>3, <1>5, <3>2, <4>1
    <3>3. QED  BY <3>1, <3>2
  <2>2. q \o vs = [i \in 1 .. n + m |-> (q \o vs)[i]]
    <3> DEFINE w == q \o vs
    <3>1. w \in Seq(Value) /\ Len(w) = n + m
      BY <1>3
    <3> HIDE DEF w
    <3>2. w = [i \in 1 .. n + m |-> w[i]]
      BY <3>1
    <3>3. QED  BY <3>2 DEF w
  <2>3. QED  BY <2>1, <2>2, Zenon DEF View
<1>7. Behind(e, m) = Behind(s, n + m)
  BY <1>1 DEF Behind
<1>8. QED  BY <1>3, <1>6, <1>7

\* A store before the elements from slot s on made g of f: it wrote v.
Precedes(s, f, g, v) ==
    /\ g[Behind(s, Size - 1)] = v
    /\ \A k \in 1 .. Size - 1 :
           g[Behind(Behind(s, Size - 1), k)] = f[Behind(Behind(s, Size - 1), k)]

\* An element stored before the others is the first of the sequence.
LEMMA PushedFront ==
    ASSUME Ring!Dimensions, NEW s \in 0 .. Size - 1, NEW n \in 0 .. Size - 1, NEW f, NEW g,
           NEW v \in Value, View(s, n, f) \in Seq(Value), Precedes(s, f, g, v)
    PROVE  /\ View(Behind(s, Size - 1), n + 1, g) = <<v>> \o View(s, n, f)
           /\ View(Behind(s, Size - 1), n + 1, g) \in Seq(Value)
           /\ Behind(s, n) = Behind(Behind(s, Size - 1), n + 1)
<1> DEFINE t == Behind(s, Size - 1)
           q == View(s, n, f)
<1>1. Size \in Nat \ {0} /\ n \in Nat /\ t \in 0 .. Size - 1
  BY DEF Ring!Dimensions, Behind
<1>2. Len(q) = n /\ \A i \in 1 .. n : q[i] = f[Behind(s, i - 1)]
  BY <1>1 DEF View
<1>3. <<v>> \o q \in Seq(Value) /\ Len(<<v>> \o q) = n + 1
      /\ \A i \in 1 .. n + 1 : (<<v>> \o q)[i] = IF i = 1 THEN v ELSE q[i - 1]
  <2>1. <<v>> \in Seq(Value) /\ Len(<<v>>) = 1 /\ <<v>>[1] = v
    OBVIOUS
  <2> HIDE DEF q
  <2>2. <<v>> \o q \in Seq(Value) /\ Len(<<v>> \o q) = 1 + n
        /\ \A i \in 1 .. 1 + n : (<<v>> \o q)[i] = IF i <= 1 THEN <<v>>[i] ELSE q[i - 1]
    BY <1>1, <1>2, <2>1, ConcatProperties DEF q
  <2>3. QED  BY <1>1, <2>1, <2>2
<1>4. ASSUME NEW i \in 1 .. n + 1 PROVE g[Behind(t, i - 1)] = (<<v>> \o q)[i]
  <2>1. CASE i = 1
    <3>1. Behind(t, i - 1) = t
      BY <1>1, <2>1 DEF Behind
    <3>2. QED  BY <1>3, <2>1, <3>1 DEF Precedes
  <2>2. CASE i # 1
    <3>1. i - 1 \in 1 .. Size - 1 /\ i - 1 \in 1 .. n /\ Behind(t, i - 1) = Behind(s, i - 1 - 1)
      BY <1>1, <2>2 DEF Behind
    <3>2. g[Behind(t, i - 1)] = f[Behind(t, i - 1)]
      BY <3>1 DEF Precedes
    <3>3. q[i - 1] = f[Behind(s, i - 1 - 1)]
      BY <1>2, <3>1
    <3>4. QED  BY <1>3, <2>2, <3>1, <3>2, <3>3
  <2>3. QED  BY <2>1, <2>2
<1>5. View(t, n + 1, g) = <<v>> \o q
  <2>1. <<v>> \o q = [i \in 1 .. n + 1 |-> (<<v>> \o q)[i]]
    BY <1>1, <1>3
  <2>2. QED  BY <1>4, <2>1, Zenon DEF View
<1>6. Behind(s, n) = Behind(t, n + 1)
  BY <1>1 DEF Behind
<1>7. QED  BY <1>3, <1>5, <1>6

\* What is left after k elements are taken from the front.
LEMMA Popped ==
    ASSUME Ring!Dimensions, NEW s \in 0 .. Size - 1, NEW n \in 0 .. Size, NEW f,
           View(s, n, f) \in Seq(Value), NEW k \in 0 .. n
    PROVE  /\ View(Behind(s, k), n - k, f) = SubSeq(View(s, n, f), k + 1, n)
           /\ View(Behind(s, k), n - k, f) \in Seq(Value)
           /\ Behind(s, n) = Behind(Behind(s, k), n - k)
<1> DEFINE q == View(s, n, f)
           t == SubSeq(q, k + 1, n)
<1>1. Size \in Nat \ {0} /\ n \in Nat /\ k \in Nat /\ k <= n
  BY DEF Ring!Dimensions
<1>2. Len(q) = n /\ \A i \in 1 .. n : q[i] = f[Behind(s, i - 1)]
  BY <1>1 DEF View
<1>3. t \in Seq(Value) /\ Len(t) = n - k /\ \A i \in 1 .. n - k : t[i] = q[k + i]
  <2>1. \A i \in k + 1 .. n : q[i] \in Value
    BY <1>1, <1>2
  <2> HIDE DEF q
  <2>2. t \in Seq(Value) /\ Len(t) = (IF k + 1 <= n THEN n - (k + 1) + 1 ELSE 0)
        /\ \A i \in 1 .. n - (k + 1) + 1 : t[i] = q[k + 1 + i - 1]
    BY <1>1, <2>1, SubSeqProperties
  <2> HIDE DEF t
  <2>3. \A i \in 1 .. n - k : k + 1 + i - 1 = k + i
    BY <1>1
  <2>4. QED  BY <1>1, <2>2, <2>3
<1>4. ASSUME NEW i \in 1 .. n - k PROVE f[Behind(Behind(s, k), i - 1)] = t[i]
  <2>1. k + i \in 1 .. n /\ Behind(Behind(s, k), i - 1) = Behind(s, (k + i) - 1)
    BY <1>1 DEF Behind
  <2>2. q[k + i] = f[Behind(s, (k + i) - 1)]
    BY <1>2, <2>1
  <2>3. QED  BY <1>3, <2>1, <2>2
<1>5. View(Behind(s, k), n - k, f) = t
  <2> HIDE DEF t
  <2>1. t = [i \in 1 .. n - k |-> t[i]]
    BY <1>1, <1>3
  <2>2. QED  BY <1>4, <2>1, Zenon DEF View
<1>6. Behind(s, n) = Behind(Behind(s, k), n - k)
  BY <1>1 DEF Behind
<1>7. QED  BY <1>3, <1>5, <1>6

-----------------------------------------------------------------------------

\* The elements before a step.
LEMMA Contents ==
    ASSUME Ring!Dimensions, Ring!TypeOK
    PROVE  Ring!contents = View(start, len, slots) /\ Len(Ring!contents) = len
<1>1. start \in 0 .. Size - 1 /\ len \in 0 .. Size
  BY DEF Ring!TypeOK, Ring!Slot
<1>2. Ring!contents = View(start, len, slots)
  BY <1>1, Seen DEF Ring!contents, Ring!Index
<1>3. len \in Nat
  BY <1>1 DEF Ring!Dimensions
<1>4. QED  BY <1>2, <1>3 DEF View

\* The elements after a step.
LEMMA ContentsAfter ==
    ASSUME Ring!Dimensions, Ring!TypeOK'
    PROVE  Ring!contents' = View(start', len', slots')
<1>1. start' \in 0 .. Size - 1 /\ len' \in 0 .. Size
  BY DEF Ring!TypeOK, Ring!Slot
<1>2. QED  BY <1>1, Seen DEF Ring!contents, Ring!Index

\* What Filled says, in slots.
LEMMA FilledParts ==
    ASSUME Ring!Dimensions, Ring!Filled
    PROVE  /\ start \in 0 .. Size - 1 /\ len \in 0 .. Size /\ end = Behind(start, len)
           /\ slots \in [0 .. Size - 1 -> Value \cup {Garbage}]
           /\ Ring!contents = View(start, len, slots) /\ Len(Ring!contents) = len
           /\ View(start, len, slots) \in Seq(Value)
<1>1. start \in 0 .. Size - 1 /\ len \in 0 .. Size /\ Ring!TypeOK
      /\ slots \in [0 .. Size - 1 -> Value \cup {Garbage}]
  BY DEF Ring!Filled, Ring!TypeOK, Ring!Slot
<1>2. end = Behind(start, len)
  BY <1>1, SlotBehind DEF Ring!Filled
<1>3. Ring!contents = View(start, len, slots) /\ Len(Ring!contents) = len
  BY <1>1, Contents
<1>4. QED  BY <1>1, <1>2, <1>3 DEF Ring!Filled

\* From slots back to Filled.
LEMMA FilledAfter ==
    ASSUME Ring!Dimensions,
           start' \in 0 .. Size - 1, len' \in 0 .. Size, end' = Behind(start', len'),
           slots' \in [0 .. Size - 1 -> Value \cup {Garbage}],
           View(start', len', slots') \in Seq(Value),
           saved' \in UNION {[1 .. n -> Value] : n \in 0 .. Size}
    PROVE  Ring!Filled' /\ Ring!contents' = View(start', len', slots')
<1>1. end' = (start' + len') % Size /\ end' \in 0 .. Size - 1
  BY SlotBehind
<1>2. Ring!TypeOK'
  BY <1>1 DEF Ring!TypeOK, Ring!Slot
<1>3. Ring!contents' = View(start', len', slots')
  BY <1>2, ContentsAfter
<1>4. QED  BY <1>1, <1>2, <1>3 DEF Ring!Filled

\* The pushes at the back, whose store ws begins with the values vs.
LEMMA PushBackStep ==
    ASSUME Ring!Dimensions, Ring!Filled, NEW vs \in Seq(Value), NEW ws \in Seq(Value \cup {Garbage}),
           Len(vs) <= Len(ws), len + Len(ws) <= Size,
           \A i \in 1 .. Len(vs) : ws[i] = vs[i],
           Ring!Store(end, ws), end' = (end + Len(vs)) % Size, len' = len + Len(vs),
           UNCHANGED <<start, saved>>
    PROVE  /\ Ring!Filled'
           /\ Len(Ring!contents) + Len(vs) <= Size
           /\ Ring!contents' = Ring!contents \o vs
<1> DEFINE m == Len(vs)
<1>1. /\ start \in 0 .. Size - 1 /\ len \in 0 .. Size /\ end = Behind(start, len)
      /\ slots \in [0 .. Size - 1 -> Value \cup {Garbage}]
      /\ Ring!contents = View(start, len, slots) /\ Len(Ring!contents) = len
      /\ View(start, len, slots) \in Seq(Value)
  BY FilledParts
<1>2. Size \in Nat \ {0} /\ m \in Nat /\ Len(ws) \in Nat /\ len + m \in 0 .. Size /\ m \in 0 .. Size
  BY <1>1 DEF Ring!Dimensions
<1>3. end \in 0 .. Size - 1
  BY <1>1, <1>2 DEF Behind
<1>4. /\ slots' \in [0 .. Size - 1 -> Value \cup {Garbage}]
      /\ \A k \in 0 .. Size - 1 :
           slots'[Behind(end, k)] = IF k < Len(ws) THEN ws[k + 1] ELSE slots[Behind(end, k)]
  BY <1>1, <1>3, StoreWrites
<1>5. Extends(start, len, slots, slots', vs)
  <2>1. ASSUME NEW k \in 0 .. Size - 1, k < m
        PROVE  slots'[Behind(end, k)] = vs[k + 1]
    <3>1. k < Len(ws) /\ k + 1 \in 1 .. m
      BY <1>2, <2>1
    <3>2. QED  BY <1>4, <3>1
  <2>2. ASSUME NEW k \in 0 .. Size - 1, Size - len <= k
        PROVE  slots'[Behind(end, k)] = slots[Behind(end, k)]
    <3>1. ~(k < Len(ws))
      BY <1>1, <1>2, <2>2
    <3>2. QED  BY <1>4, <3>1
  <2>3. QED  BY <1>1, <2>1, <2>2, Zenon DEF Extends
<1>6. /\ View(start, len + m, slots') = View(start, len, slots) \o vs
      /\ View(start, len + m, slots') \in Seq(Value)
      /\ Behind(Behind(start, len), m) = Behind(start, len + m)
  <2>1. len + m <= Size
    BY <1>2
  <2>2. QED  BY <1>1, <1>5, <2>1, PushedBack, Zenon
<1>7. end' = Behind(start', len') /\ start' = start /\ len' = len + m
  BY <1>1, <1>2, <1>3, <1>6, SlotBehind
<1>8. saved' \in UNION {[1 .. n -> Value] : n \in 0 .. Size}
  BY DEF Ring!Filled, Ring!TypeOK
<1>9. Ring!Filled' /\ Ring!contents' = View(start', len', slots')
  BY <1>1, <1>2, <1>4, <1>6, <1>7, <1>8, FilledAfter
<1>10. len + Len(vs) <= Size
  BY <1>2
<1>11. QED  BY <1>1, <1>6, <1>7, <1>9, <1>10, Zenon

\* push_front keeps the buffer filled and is a push at the front of the queue.
LEMMA PushFrontStep ==
    ASSUME Ring!Dimensions, Ring!Filled, NEW v \in Value, Ring!PushFront(v)
    PROVE  Ring!Filled' /\ Ring!Abstract!PushFront(v)
<1>1. /\ start \in 0 .. Size - 1 /\ len \in 0 .. Size /\ end = Behind(start, len)
      /\ slots \in [0 .. Size - 1 -> Value \cup {Garbage}]
      /\ Ring!contents = View(start, len, slots) /\ Len(Ring!contents) = len
      /\ View(start, len, slots) \in Seq(Value)
  BY FilledParts
<1>2. Size \in Nat \ {0} /\ len \in 0 .. Size - 1 /\ Word \in Nat \ {0} /\ (Word % Size) = 0
  BY <1>1 DEF Ring!Dimensions, Ring!PushFront
<1>3. start' = Behind(start, Size - 1) /\ start' \in 0 .. Size - 1
  <2>1. start' = Ring!WrappingDec(start) % Size
    BY DEF Ring!PushFront
  <2>2. CASE start = 0
    <3>1. start' = Size - 1
      BY <1>2, <2>1, <2>2, LastRemainder DEF Ring!WrappingDec
    <3>2. QED  BY <1>2, <2>2, <3>1 DEF Behind
  <2>3. CASE start # 0
    <3>1. start - 1 \in Int /\ 0 <= start - 1 /\ start - 1 < Size
      BY <1>1, <1>2, <2>3
    <3>2. ((start - 1) % Size) = start - 1
      BY <1>2, <3>1, Remainders, Zenon
    <3>3. start' = start - 1
      BY <2>1, <2>3, <3>2, Zenon DEF Ring!WrappingDec
    <3>4. QED  BY <1>1, <1>2, <2>3, <3>3 DEF Behind
  <2>4. QED  BY <2>2, <2>3
<1>4. /\ slots' \in [0 .. Size - 1 -> Value \cup {Garbage}]
      /\ \A k \in 0 .. Size - 1 :
           slots'[Behind(start', k)] = IF k < 1 THEN v ELSE slots[Behind(start', k)]
  <2>1. <<v>> \in Seq(Value \cup {Garbage}) /\ Len(<<v>>) = 1 /\ <<v>>[1] = v
    OBVIOUS
  <2>2. Ring!Store(start', <<v>>)
    BY DEF Ring!PushFront
  <2>3. /\ slots' \in [0 .. Size - 1 -> Value \cup {Garbage}]
        /\ \A k \in 0 .. Size - 1 :
             slots'[Behind(start', k)] = IF k < Len(<<v>>) THEN <<v>>[k + 1] ELSE slots[Behind(start', k)]
    BY <1>1, <1>3, <2>1, <2>2, StoreWrites
  <2>4. QED  BY <1>2, <2>1, <2>3
<1>5. /\ slots'[start'] = v
      /\ \A k \in 1 .. Size - 1 : slots'[Behind(start', k)] = slots[Behind(start', k)]
  <2>1. Behind(start', 0) = start' /\ 0 \in 0 .. Size - 1
    BY <1>2, <1>3 DEF Behind
  <2>2. QED  BY <1>2, <1>4, <2>1
<1>6. /\ View(start', len + 1, slots') = <<v>> \o View(start, len, slots)
      /\ View(start', len + 1, slots') \in Seq(Value)
      /\ Behind(start, len) = Behind(start', len + 1)
  <2> DEFINE t == Behind(start, Size - 1)
  <2>1. Precedes(start, slots, slots', v)
    BY <1>3, <1>5, Zenon DEF Precedes
  <2>2. /\ View(t, len + 1, slots') = <<v>> \o View(start, len, slots)
        /\ View(t, len + 1, slots') \in Seq(Value)
        /\ Behind(start, len) = Behind(t, len + 1)
    BY <1>1, <1>2, <2>1, PushedFront, Zenon
  <2>3. QED  BY <1>3, <2>2, Zenon
<1>7. /\ end' = Behind(start', len') /\ len' = len + 1 /\ len' \in 0 .. Size /\ saved' = saved
      /\ saved' \in UNION {[1 .. n -> Value] : n \in 0 .. Size}
  BY <1>1, <1>2, <1>6 DEF Ring!PushFront, Ring!Filled, Ring!TypeOK
<1>8. Ring!Filled' /\ Ring!contents' = View(start', len', slots')
  BY <1>3, <1>4, <1>6, <1>7, FilledAfter
<1>9. QED  BY <1>1, <1>2, <1>6, <1>7, <1>8 DEF Ring!Abstract!PushFront

\* pop_front_multiple keeps the buffer filled and takes elements from the queue's front.
LEMMA PopStep ==
    ASSUME Ring!Dimensions, Ring!Filled, NEW k \in 1 .. Size, Ring!PopFrontMultiple(k)
    PROVE  Ring!Filled' /\ Ring!Abstract!PopFront(k)
<1>1. /\ start \in 0 .. Size - 1 /\ len \in 0 .. Size /\ end = Behind(start, len)
      /\ slots \in [0 .. Size - 1 -> Value \cup {Garbage}]
      /\ Ring!contents = View(start, len, slots) /\ Len(Ring!contents) = len
      /\ View(start, len, slots) \in Seq(Value)
  BY FilledParts
<1>2. Size \in Nat \ {0} /\ k \in 0 .. len /\ k \in 0 .. Size /\ len - k \in 0 .. Size
  BY <1>1 DEF Ring!Dimensions, Ring!PopFrontMultiple
<1>3. start' = Behind(start, k) /\ start' \in 0 .. Size - 1
  BY <1>1, <1>2, SlotBehind DEF Ring!PopFrontMultiple
<1>4. /\ View(start', len - k, slots) = SubSeq(View(start, len, slots), k + 1, len)
      /\ View(start', len - k, slots) \in Seq(Value)
      /\ Behind(start, len) = Behind(start', len - k)
  <2>1. /\ View(Behind(start, k), len - k, slots) = SubSeq(View(start, len, slots), k + 1, len)
        /\ View(Behind(start, k), len - k, slots) \in Seq(Value)
        /\ Behind(start, len) = Behind(Behind(start, k), len - k)
    BY <1>1, <1>2, Popped, Zenon
  <2>2. QED  BY <1>3, <2>1, Zenon
<1>5. /\ end' = Behind(start', len') /\ len' = len - k /\ slots' = slots /\ saved' = saved
      /\ saved' \in UNION {[1 .. n -> Value] : n \in 0 .. Size}
  BY <1>1, <1>2, <1>4 DEF Ring!PopFrontMultiple, Ring!Filled, Ring!TypeOK
<1>6. Ring!Filled' /\ Ring!contents' = View(start', len', slots')
  BY <1>1, <1>2, <1>3, <1>4, <1>5, FilledAfter
<1>7. k <= len
  BY <1>1, <1>2
<1>8. QED  BY <1>1, <1>4, <1>5, <1>6, <1>7 DEF Ring!Abstract!PopFront

\* push_back, push_back_multiple and its form that stores whole vectors keep the
\* buffer filled and are pushes at the back of the queue.
LEMMA PushSteps ==
    ASSUME Ring!Dimensions, Ring!Filled, NEW n \in 1 .. Size, NEW vs \in [1 .. n -> Value],
           \/ Ring!PushBackMultiple(vs) \/ Ring!PushBackMultipleFast(vs)
           \/ n = 1 /\ Ring!PushBack(vs[1])
    PROVE  Ring!Filled' /\ Ring!Abstract!PushBack(vs)
<1> DEFINE G == Value \cup {Garbage}
<1>1. Size \in Nat \ {0} /\ Vector \in Nat \ {0} /\ len \in Nat
  BY DEF Ring!Dimensions, Ring!Filled, Ring!TypeOK
<1>2. vs \in Seq(Value) /\ vs \in Seq(G) /\ Len(vs) = n /\ n \in Nat
  BY <1>1
<1>3. CASE Ring!PushBackMultiple(vs)
  <2>1. /\ len + Len(vs) <= Size /\ Ring!Store(end, vs) /\ end' = (end + Len(vs)) % Size
        /\ len' = len + Len(vs) /\ UNCHANGED <<start, saved>>
    BY <1>3, Zenon DEF Ring!PushBackMultiple
  <2>2. Len(vs) <= Len(vs) /\ \A i \in 1 .. Len(vs) : vs[i] = vs[i]
    BY <1>2
  <2>3. QED  BY <1>2, <2>1, <2>2, PushBackStep, Zenon DEF Ring!Abstract!PushBack
<1>4. CASE Ring!PushBackMultipleFast(vs)
  <2> DEFINE k == (-Len(vs)) % Vector
             pad == [i \in 1 .. k |-> Garbage]
             ws == Ring!WholeVectors(vs)
  <2>1. k \in Nat
    <3>1. -Len(vs) \in Int
      BY <1>2
    <3>2. QED  BY <1>1, <3>1, Division
  <2>2. pad \in Seq(G) /\ Len(pad) = k
    <3> HIDE DEF k
    <3>1. QED  BY <2>1
  <2>3. ws = vs \o pad
    BY DEF Ring!WholeVectors
  <2> HIDE DEF k, pad, ws
  <2>4. /\ ws \in Seq(G) /\ Len(ws) = Len(vs) + k
        /\ \A i \in 1 .. Len(vs) + k : ws[i] = IF i <= Len(vs) THEN vs[i] ELSE pad[i - Len(vs)]
    BY <1>2, <2>1, <2>2, <2>3, ConcatProperties
  <2>5. Len(vs) <= Len(ws) /\ \A i \in 1 .. Len(vs) : ws[i] = vs[i]
    BY <1>2, <2>1, <2>4
  <2>6. /\ len + Len(ws) <= Size /\ Ring!Store(end, ws) /\ end' = (end + Len(vs)) % Size
        /\ len' = len + Len(vs) /\ UNCHANGED <<start, saved>>
    BY <1>4, Zenon DEF Ring!PushBackMultipleFast, Ring!FastHeadroom, ws
  <2>7. QED  BY <1>2, <2>4, <2>5, <2>6, PushBackStep, Zenon DEF Ring!Abstract!PushBack
<1>5. CASE n = 1 /\ Ring!PushBack(vs[1])
  <2>1. vs = <<vs[1]>> /\ Len(vs) = 1
    BY <1>2, <1>5
  <2>2. /\ len + Len(vs) <= Size /\ Ring!Store(end, vs) /\ end' = (end + Len(vs)) % Size
        /\ len' = len + Len(vs) /\ UNCHANGED <<start, saved>>
    <3>1. /\ len < Size /\ Ring!Store(end, <<vs[1]>>) /\ end' = (end + 1) % Size
          /\ len' = len + 1 /\ UNCHANGED <<start, saved>>
      BY <1>5, Zenon DEF Ring!PushBack
    <3>2. len + 1 <= Size
      BY <1>1, <3>1
    <3>3. QED  BY <2>1, <3>1, <3>2, Zenon
  <2>3. Len(vs) <= Len(vs) /\ \A i \in 1 .. Len(vs) : vs[i] = vs[i]
    BY <1>2
  <2>4. QED  BY <1>2, <2>2, <2>3, PushBackStep, Zenon DEF Ring!Abstract!PushBack
<1>6. QED  BY <1>3, <1>4, <1>5

\* clear keeps the buffer filled and empties the queue.
LEMMA ClearStep ==
    ASSUME Ring!Dimensions, Ring!Filled, Ring!Clear
    PROVE  Ring!Filled' /\ Ring!Abstract!Clear
<1>1. Size \in Nat \ {0} /\ start' = 0 /\ len' = 0 /\ end' = 0 /\ slots' = slots /\ saved' = saved
  BY DEF Ring!Dimensions, Ring!Clear
<1>2. View(start', len', slots') = <<>>
  BY <1>1 DEF View
<1>3. end' = Behind(start', len') /\ start' \in 0 .. Size - 1 /\ len' \in 0 .. Size
  BY <1>1 DEF Behind
<1>4. /\ slots' \in [0 .. Size - 1 -> Value \cup {Garbage}]
      /\ saved' \in UNION {[1 .. n -> Value] : n \in 0 .. Size}
  BY <1>1 DEF Ring!Filled, Ring!TypeOK, Ring!Slot
<1>5. View(start', len', slots') \in Seq(Value)
  BY <1>2
<1>6. Ring!Filled' /\ Ring!contents' = View(start', len', slots')
  BY <1>3, <1>4, <1>5, FilledAfter
<1>7. QED  BY <1>1, <1>2, <1>6 DEF Ring!Abstract!Clear

\* Saving keeps the buffer filled and saves the queue.
LEMMA SaveStep ==
    ASSUME Ring!Dimensions, Ring!Filled, Ring!Save
    PROVE  Ring!Filled' /\ Ring!Abstract!Save
<1>1. /\ start \in 0 .. Size - 1 /\ len \in 0 .. Size /\ end = Behind(start, len)
      /\ slots \in [0 .. Size - 1 -> Value \cup {Garbage}]
      /\ Ring!contents = View(start, len, slots) /\ Len(Ring!contents) = len
      /\ View(start, len, slots) \in Seq(Value)
  BY FilledParts
<1>2. /\ start' = start /\ len' = len /\ end' = end /\ slots' = slots /\ saved' = Ring!contents
  BY DEF Ring!Save, Ring!ring
<1>3. saved' \in UNION {[1 .. n -> Value] : n \in 0 .. Size}
  <2>1. Ring!contents \in [1 .. len -> Value]
    BY <1>1
  <2>2. QED  BY <1>1, <1>2, <2>1
<1>4. Ring!Filled' /\ Ring!contents' = View(start', len', slots')
  BY <1>1, <1>2, <1>3, FilledAfter
<1>5. QED  BY <1>1, <1>2, <1>4 DEF Ring!Abstract!Save

\* Loading fills the buffer from slot 0 on with the saved queue.
LEMMA LoadStep ==
    ASSUME Ring!Dimensions, Ring!Filled, Ring!Load
    PROVE  Ring!Filled' /\ Ring!Abstract!Load
<1> DEFINE G == Value \cup {Garbage}
           n == Len(saved)
<1>1. PICK m \in 0 .. Size : saved \in [1 .. m -> Value]
  BY DEF Ring!Filled, Ring!TypeOK
<1>2. Size \in Nat \ {0} /\ n = m /\ n \in 0 .. Size /\ saved \in Seq(Value) /\ saved \in Seq(G)
  BY <1>1 DEF Ring!Dimensions
<1>3. /\ start' = 0 /\ len' = n /\ end' = n % Size /\ Ring!Store(0, saved) /\ saved' = saved
  BY DEF Ring!Load, Ring!LoadedEnd
<1>4. slots \in [0 .. Size - 1 -> G] /\ 0 \in 0 .. Size - 1
  BY <1>2 DEF Ring!Filled, Ring!TypeOK, Ring!Slot
<1>5. /\ slots' \in [0 .. Size - 1 -> G]
      /\ \A k \in 0 .. Size - 1 :
           slots'[Behind(0, k)] = IF k < n THEN saved[k + 1] ELSE slots[Behind(0, k)]
  BY <1>2, <1>3, <1>4, StoreWrites
<1>6. ASSUME NEW i \in 1 .. n PROVE slots'[Behind(0, i - 1)] = saved[i]
  <2>1. i - 1 \in 0 .. Size - 1 /\ i - 1 < n /\ (i - 1) + 1 = i
    BY <1>2
  <2>2. QED  BY <1>5, <2>1
<1>7. View(0, n, slots') = saved
  <2>1. saved = [i \in 1 .. n |-> saved[i]]
    BY <1>1, <1>2
  <2>2. QED  BY <1>6, <2>1, Zenon DEF View
<1>8. end' = Behind(0, n)
  <2>1. ((0 + n) % Size) = Behind(0, n)
    BY <1>2, <1>4, SlotBehind
  <2>2. 0 + n = n
    BY <1>2
  <2>3. QED  BY <1>3, <2>1, <2>2, Zenon
<1>9. saved' \in UNION {[1 .. k -> Value] : k \in 0 .. Size}
  BY <1>3 DEF Ring!Filled, Ring!TypeOK
<1>10. View(start', len', slots') = saved /\ end' = Behind(start', len')
  BY <1>3, <1>7, <1>8, Zenon
<1>11. Ring!Filled' /\ Ring!contents' = View(start', len', slots')
  <2>1. start' \in 0 .. Size - 1 /\ len' \in 0 .. Size /\ View(start', len', slots') \in Seq(Value)
    BY <1>2, <1>3, <1>4, <1>10, Zenon
  <2>2. QED  BY <1>5, <1>9, <1>10, <2>1, FilledAfter, Zenon
<1>12. QED  BY <1>3, <1>10, <1>11, Zenon DEF Ring!Abstract!Load

\* Every step of a buffer is a step of a queue, and leaves it filled.
LEMMA RingStep ==
    ASSUME Ring!Dimensions, Ring!Filled, [Ring!Next]_Ring!vars
    PROVE  Ring!Filled' /\ [Ring!Abstract!Next]_<<Ring!contents, saved>>
<1>1. ASSUME NEW v \in Value, Ring!PushFront(v)
      PROVE  Ring!Filled' /\ Ring!Abstract!Next
  BY <1>1, PushFrontStep DEF Ring!Abstract!Next
<1>2. ASSUME NEW v \in Value, Ring!PushBack(v)
      PROVE  Ring!Filled' /\ Ring!Abstract!Next
  <2> DEFINE vs == [i \in 1 .. 1 |-> v]
  <2>1. 1 \in 1 .. Size /\ vs \in [1 .. 1 -> Value] /\ vs[1] = v
    BY DEF Ring!Dimensions
  <2> HIDE DEF vs
  <2>2. Ring!Filled' /\ Ring!Abstract!PushBack(vs)
    BY <1>2, <2>1, PushSteps
  <2>3. QED  BY <2>1, <2>2, Zenon DEF Ring!Abstract!Next
<1>3. ASSUME NEW n \in 1 .. Size, NEW vs \in [1 .. n -> Value],
             Ring!PushBackMultiple(vs) \/ Ring!PushBackMultipleFast(vs)
      PROVE  Ring!Filled' /\ Ring!Abstract!Next
  <2>1. Ring!Filled' /\ Ring!Abstract!PushBack(vs)
    BY <1>3, PushSteps
  <2>2. QED  BY <2>1, Zenon DEF Ring!Abstract!Next
<1>4. ASSUME NEW n \in 1 .. Size, Ring!PopFrontMultiple(n)
      PROVE  Ring!Filled' /\ Ring!Abstract!Next
  BY <1>4, PopStep DEF Ring!Abstract!Next
<1>5. CASE Ring!PopFront
  <2>1. 1 \in 1 .. Size /\ Ring!PopFrontMultiple(1)
    BY <1>5 DEF Ring!Dimensions, Ring!PopFront, Ring!PopFrontMultiple, Ring!Filled, Ring!TypeOK
  <2>2. QED  BY <1>4, <2>1 DEF Ring!Abstract!Next
<1>6. CASE Ring!Clear \/ Ring!LoadTooLong
  BY <1>6, ClearStep DEF Ring!Abstract!Next, Ring!LoadTooLong
<1>7. CASE Ring!Save
  BY <1>7, SaveStep DEF Ring!Abstract!Next
<1>8. CASE Ring!Load
  BY <1>8, LoadStep DEF Ring!Abstract!Next
<1>9. CASE UNCHANGED Ring!vars
  <2>1. /\ start' = start /\ len' = len /\ end' = end /\ slots' = slots /\ saved' = saved
    BY <1>9 DEF Ring!vars
  <2>2. Ring!contents' = Ring!contents
    BY <2>1 DEF Ring!contents, Ring!Index
  <2>3. Ring!Filled'
    BY <2>1, <2>2 DEF Ring!Filled, Ring!TypeOK
  <2>4. QED  BY <2>1, <2>2, <2>3
<1>10. QED
  BY <1>1, <1>2, <1>3, <1>4, <1>5, <1>6, <1>7, <1>8, <1>9, Zenon DEF Ring!Next

\* FixedFifo and FastFixedFifo behave as bounded double-ended queues, for every
\* size, index type and vector length, through wraps of either index, whole-vector
\* stores, savestates and loads of what was saved.
THEOREM BuffersAreQueues ==
    ASSUME Ring!Dimensions
    PROVE  Ring!Spec => Ring!ActsAsQueue
<1>1. Ring!Init => Ring!Filled /\ Ring!Abstract!Init
  <2> SUFFICES ASSUME Ring!Init PROVE Ring!Filled /\ Ring!Abstract!Init
    OBVIOUS
  <2>1. Size \in Nat \ {0} /\ start = 0 /\ len = 0 /\ end = 0 /\ saved = <<>>
    BY DEF Ring!Dimensions, Ring!Init
  <2>2. Ring!contents = <<>>
    BY <2>1 DEF Ring!contents
  <2>3. Ring!TypeOK
    <3>1. <<>> \in [1 .. 0 -> Value] /\ 0 \in 0 .. Size
      BY <2>1
    <3>2. slots \in [0 .. Size - 1 -> Value \cup {Garbage}]
      BY DEF Ring!Init, Ring!Slot
    <3>3. saved \in UNION {[1 .. n -> Value] : n \in 0 .. Size}
      BY <2>1, <3>1
    <3>4. QED  BY <2>1, <3>2, <3>3 DEF Ring!TypeOK, Ring!Slot
  <2>4. end = (start + len) % Size
    <3>1. ((0 + 0) % Size) = Behind(0, 0) /\ Behind(0, 0) = 0
      BY <2>1, SlotBehind DEF Behind
    <3>2. QED  BY <2>1, <3>1, Zenon
  <2>5. QED  BY <2>1, <2>2, <2>3, <2>4 DEF Ring!Filled, Ring!Abstract!Init
<1>2. Ring!Filled /\ [Ring!Next]_Ring!vars => Ring!Filled' /\ [Ring!Abstract!Next]_<<Ring!contents, saved>>
  BY RingStep
<1>3. QED  BY <1>1, <1>2, PTL DEF Ring!Spec, Ring!ActsAsQueue, Ring!Abstract!Spec
=============================================================================
