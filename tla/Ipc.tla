--------------------------------- MODULE Ipc ---------------------------------
(***************************************************************************)
(* The message fifos between the two CPUs (src/core/ipc.rs), in the        *)
(* emulation of both CPUs (IpcLle, with or without sound messages taken    *)
(* out by the emulator) and with the ARM7 replaced by HLE services         *)
(* (IpcHle, src/core/hle/arm7_hle.rs).                                     *)
(*                                                                         *)
(* The status bits of the two control registers are kept beside the queues *)
(* and changed one at a time, and the interrupts are raised on edges only. *)
(* A register is the set of its bits that are set.                         *)
(* A guest driver acknowledges its interrupt, then reads until it sees the *)
(* fifo empty.  Messages are numbered modulo Numbers in the order sent.    *)
(* last_received, what a read of an empty fifo returns, is left out.       *)
(***************************************************************************)
EXTENDS Integers, Sequences

CONSTANTS
    IpcTypes,   \* the emulations a game may be started with
    Capacity,   \* 16
    Numbers,    \* message numbers
    Writes      \* values the guest writes to the control register (a bound)

\* The bits of the control register a write sets or clears, and the others.
Config == {"sendEmptyIrq", "recvNotEmptyIrq", "enable"}
Control == Config \cup {"sendEmpty", "sendFull", "recvEmpty", "recvFull", "err"}

ASSUME IpcAssumption ==
    /\ IpcTypes \subseteq {"Lle", "SoundHle", "Hle"}
    /\ Capacity \in Nat /\ Capacity >= 2
    /\ Numbers \in Nat /\ Numbers > Capacity
    /\ Writes \subseteq SUBSET (Config \cup {"sendClear", "err"})

Cpu == {"ARM9", "ARM7"}
Other(c) == IF c = "ARM9" THEN "ARM7" ELSE "ARM9"

VARIABLES
    ipcType,    \* "Lle", "SoundHle" or "Hle", chosen when the game starts
    cnt,        \* IpcFifoCnt of each CPU
    queue,      \* queue[c]: messages sent by c
    irf,        \* request flags of each CPU: "recv" and "sent"
    draining,   \* the CPUs whose driver is in its read loop
    next,       \* history: number of the next message each CPU sends
    expect,     \* history: number of the next message of each CPU to arrive
    signalled   \* history: the CPUs whose "sent" was raised since their fifo
                \* last ran empty or its interrupt was enabled

vars == <<cnt, queue, irf, draining, next, expect, signalled>>

\* The CPUs that run guest code.
Guest == IF ipcType = "Hle" THEN {"ARM9"} ELSE Cpu

When(condition, x) == IF condition THEN {x} ELSE {}

Init ==
    /\ ipcType \in IpcTypes
    /\ cnt = [c \in Cpu |-> {"sendEmpty", "recvEmpty"}]
    /\ queue = [c \in Cpu |-> <<>>]
    /\ irf = [c \in Cpu |-> {}]
    /\ draining = {}
    /\ next = [c \in Cpu |-> 0] /\ expect = [c \in Cpu |-> 0]
    /\ signalled = Cpu

\* cpu_send_interrupt, as far as this module is concerned.
Raise(c, flag, when) == [irf EXCEPT ![c] = @ \cup When(when, flag)]

-----------------------------------------------------------------------------
(* Sending.                                                                *)

\* The status bits after a message joins a queue of length len.
MarkSent(c, len) ==
    [cnt EXCEPT ![c] = (@ \ When(len = 0, "sendEmpty")) \cup When(len = Capacity - 1, "sendFull"),
                ![Other(c)] = (@ \ When(len = 0, "recvEmpty"))
                                  \cup When(len = Capacity - 1, "recvFull")]

Enqueue(c) ==
    /\ queue' = [queue EXCEPT ![c] = Append(@, next[c])]
    /\ next' = [next EXCEPT ![c] = (@ + 1) % Numbers]

\* Mutant of RecvEdge: the interrupt is raised when a second message joins.
RecvEdgeLate(c, len) == len = 1 /\ "recvNotEmptyIrq" \in cnt[Other(c)]

RecvEdge(c, len) == len = 0 /\ "recvNotEmptyIrq" \in cnt[Other(c)]

HasRoom(c) == Len(queue[c]) < Capacity

\* IpcLle::fifo_send of a message that goes through the fifo.  A full fifo
\* swallows it without an error.
FifoSendLle(c) ==
    /\ ipcType # "Hle"
    /\ LET len == Len(queue[c])
       IN  \/ "enable" \notin cnt[c]
              /\ cnt' = [cnt EXCEPT ![c] = @ \cup {"err"}]
              /\ UNCHANGED <<queue, irf, next>>
           \/ "enable" \in cnt[c] /\ HasRoom(c)
              /\ Enqueue(c)
              /\ cnt' = MarkSent(c, len)
              /\ irf' = Raise(Other(c), "recv", RecvEdge(c, len))
           \/ "enable" \in cnt[c] /\ ~HasRoom(c)
              /\ UNCHANGED <<cnt, queue, irf, next>>
    /\ UNCHANGED <<draining, expect, signalled>>

\* The ARM9's sound messages reach the emulator's sound service directly, and
\* only when the fifo they bypass has room.
FifoSendSound ==
    /\ ipcType = "SoundHle"
    /\ cnt' = [cnt EXCEPT !["ARM9"] = @ \cup When("enable" \notin @, "err")]
    /\ UNCHANGED <<queue, irf, draining, next, expect, signalled>>

\* arm7_hle_send_ipc_fifo.  A full fifo drops the reply and is marked.
Reply(k, n) ==
    IF n = Capacity
      THEN /\ cnt' = [k EXCEPT !["ARM7"] = @ \cup {"err", "sendFull"},
                               !["ARM9"] = @ \cup {"recvFull"}]
           /\ UNCHANGED <<queue, next>>
      ELSE /\ cnt' = [k EXCEPT !["ARM7"] = @ \ When(n = 0, "sendEmpty"),
                               !["ARM9"] = @ \ When(n = 0, "recvEmpty")]
           /\ Enqueue("ARM7")

\* IpcHle::fifo_send: the service takes the message out at once and may
\* answer before the send returns.
FifoSendHle(answers) ==
    /\ ipcType = "Hle"
    /\ "enable" \in cnt["ARM9"]
    /\ LET k == [cnt EXCEPT !["ARM9"] = @ \ {"sendEmpty"}]
           n == Len(queue["ARM7"])
           sent == "sendEmptyIrq" \in cnt["ARM9"]
           recv == answers /\ n = 0 /\ "recvNotEmptyIrq" \in cnt["ARM9"]
       IN  /\ IF answers THEN Reply(k, n) ELSE cnt' = k /\ UNCHANGED <<queue, next>>
           /\ irf' = [irf EXCEPT !["ARM9"] = @ \cup When(sent, "sent") \cup When(recv, "recv")]
           /\ signalled' = (signalled \ {"ARM9"}) \cup When(sent, "ARM9")
    /\ UNCHANGED <<draining, expect>>

\* A service speaks up by itself (touch samples, microphone, wireless).
ReplyUnasked ==
    /\ ipcType = "Hle"
    /\ LET n == Len(queue["ARM7"])
       IN  /\ Reply(cnt, n)
           /\ irf' = Raise("ARM9", "recv", n = 0 /\ "recvNotEmptyIrq" \in cnt["ARM9"])
    /\ UNCHANGED <<draining, expect, signalled>>

-----------------------------------------------------------------------------
(* Receiving.                                                              *)

\* Mutant of Pops: a disabled fifo loses the message it shows.
PopsAlways(c) == TRUE

\* A disabled fifo shows its front message and keeps it.
Pops(c) == "enable" \in cnt[c]

\* The status bits after c takes a message from a queue of length len.
MarkReceived(c, len) ==
    [cnt EXCEPT ![c] = (@ \ When(len = Capacity, "recvFull")) \cup When(len = 1, "recvEmpty"),
                ![Other(c)] = (@ \ When(len = Capacity, "sendFull"))
                                  \cup When(len = 1, "sendEmpty")]

FifoRecv(c) ==
    LET o == Other(c)
        len == Len(queue[o])
        emptied == len = 1 /\ "sendEmptyIrq" \in cnt[o]
    IN  \/ len = 0
           /\ cnt' = [cnt EXCEPT ![c] = @ \cup {"err"}]
           /\ UNCHANGED <<queue, irf, expect, signalled>>
        \/ len > 0 /\ ~Pops(c)
           /\ UNCHANGED <<cnt, queue, irf, expect, signalled>>
        \/ len > 0 /\ Pops(c)
           /\ queue' = [queue EXCEPT ![o] = Tail(@)]
           /\ expect' = [expect EXCEPT ![o] = IF "enable" \in cnt[c] THEN (@ + 1) % Numbers ELSE @]
           /\ cnt' = MarkReceived(c, len)
           /\ irf' = Raise(o, "sent", emptied)
           /\ signalled' = (signalled \ When(len = 1, o)) \cup When(emptied, o)

\* The guest reads the fifo outside its driver.
Poll(c) == FifoRecv(c) /\ UNCHANGED <<draining, next>>

\* The driver acknowledges the interrupt and enters its loop.
DriverStart(c) ==
    /\ c \notin draining /\ "recv" \in irf[c]
    /\ irf' = [irf EXCEPT ![c] = @ \ {"recv"}]
    /\ draining' = draining \cup {c}
    /\ UNCHANGED <<cnt, queue, next, expect, signalled>>

\* get_fifo_cnt: the HLE derives the bit from the queue.
ReadsEmpty(c) == IF ipcType = "Hle" THEN queue["ARM7"] = <<>> ELSE "recvEmpty" \in cnt[c]

DriverRead(c) ==
    /\ c \in draining /\ ~ReadsEmpty(c)
    /\ FifoRecv(c)
    /\ UNCHANGED <<draining, next>>

DriverDone(c) ==
    /\ c \in draining /\ ReadsEmpty(c)
    /\ draining' = draining \ {c}
    /\ UNCHANGED <<cnt, queue, irf, next, expect, signalled>>

AcknowledgeSent(c) ==
    /\ "sent" \in irf[c]
    /\ irf' = [irf EXCEPT ![c] = @ \ {"sent"}]
    /\ UNCHANGED <<cnt, queue, draining, next, expect, signalled>>

-----------------------------------------------------------------------------
(* The control register.                                                   *)

\* Mutant of Cleared: the receiver's status bits are forgotten.
ClearedOneSided(c) == [cnt EXCEPT ![c] = (@ \ {"sendFull"}) \cup {"sendEmpty"}]

\* The status bits after send_clear of a fifo that holds messages.
Cleared(c) ==
    [cnt EXCEPT ![c] = (@ \ {"sendFull"}) \cup {"sendEmpty"},
                ![Other(c)] = (@ \ {"recvFull"}) \cup {"recvEmpty"}]

\* Mutant of RecvEnabledEdge: enabling the interrupt looks at nothing.
RecvEnabledEdgeNever(k, w) == FALSE

\* Enabling the interrupt over a fifo that is not empty raises it.
RecvEnabledEdge(k, w) ==
    "recvEmpty" \notin k /\ "recvNotEmptyIrq" \notin k /\ "recvNotEmptyIrq" \in w

\* Mutant of SentEnabledEdge: enabling the interrupt looks at nothing.
SentEnabledEdgeNever(k, w) == FALSE

SentEnabledEdge(k, w) ==
    "sendEmpty" \in k /\ "sendEmptyIrq" \notin k /\ "sendEmptyIrq" \in w

\* ipc_set_fifo_cnt.  Clearing a fifo with its send-empty interrupt enabled is
\* not implemented (todo!), so the guest never does.
SetFifoCnt(c, w) ==
    LET clears == "sendClear" \in w /\ queue[c] # <<>>
        k == IF clears THEN Cleared(c) ELSE cnt
        sent == SentEnabledEdge(k[c], w)
        recv == RecvEnabledEdge(k[c], w)
    IN  /\ clears => "sendEmptyIrq" \notin cnt[c]
        /\ queue' = [queue EXCEPT ![c] = IF clears THEN <<>> ELSE @]
        /\ expect' = [expect EXCEPT ![c] = IF clears THEN next[c] ELSE @]
        /\ irf' = [irf EXCEPT ![c] = @ \cup When(sent, "sent") \cup When(recv, "recv")]
        /\ signalled' = (signalled \ When(clears, c)) \cup When(sent, c)
        /\ cnt' = [k EXCEPT ![c] = (@ \ (Config \cup (w \cap {"err"}))) \cup (w \cap Config)]
        /\ UNCHANGED <<draining, next>>

-----------------------------------------------------------------------------

Send(c) == FifoSendLle(c) \/ (c = "ARM9" /\ FifoSendSound)

SendHle == ReplyUnasked \/ \E answers \in BOOLEAN : FifoSendHle(answers)

Driver(c) == DriverStart(c) \/ DriverRead(c) \/ DriverDone(c)

Next ==
    \/ SendHle
    \/ \E c \in Guest :
           \/ Send(c) \/ Poll(c) \/ Driver(c) \/ AcknowledgeSent(c)
           \/ \E w \in Writes : SetFifoCnt(c, w)

Spec == Init /\ [][Next /\ UNCHANGED ipcType]_<<vars, ipcType>>

\* A driver whose interrupt is requested runs, and its loop goes on.
FairSpec == Spec /\ \A c \in Cpu : WF_vars(c \in Guest /\ Driver(c))

-----------------------------------------------------------------------------
(* Properties                                                              *)

\* Registers, queues and flags have their types, and no queue outgrows the
\* sixteen entries of the hardware.
TypeOK ==
    /\ cnt \in [Cpu -> SUBSET Control]
    /\ queue \in [Cpu -> Seq(0 .. Numbers - 1)]
    /\ \A c \in Cpu : Len(queue[c]) <= Capacity
    /\ irf \in [Cpu -> SUBSET {"recv", "sent"}]
    /\ draining \subseteq Cpu /\ signalled \subseteq Cpu
    /\ next \in [Cpu -> 0 .. Numbers - 1] /\ expect \in [Cpu -> 0 .. Numbers - 1]

\* The status bits both CPUs read, changed one at a time by sends, receives
\* and clears, always tell the state of the queue between them.  With the
\* ARM7 in HLE the receive bit of the ARM9 is the one that still does.
StatusAgrees ==
    /\ TypeOK
    /\ \A c \in Cpu :
        /\ ipcType # "Hle" =>
            /\ "sendEmpty" \in cnt[c] <=> queue[c] = <<>>
            /\ "sendFull" \in cnt[c] <=> Len(queue[c]) = Capacity
            /\ "recvFull" \in cnt[Other(c)] <=> Len(queue[c]) = Capacity
        /\ Other(c) \in Guest => ("recvEmpty" \in cnt[Other(c)] <=> queue[c] = <<>>)

\* A queue holds exactly the messages sent and not yet received, in order.
InOrder ==
    \A c \in Cpu :
        /\ \A i \in 1 .. Len(queue[c]) : queue[c][i] = (expect[c] + i - 1) % Numbers
        /\ next[c] = (expect[c] + Len(queue[c])) % Numbers

\* Although the interrupt is raised on the first message only, a receiver that
\* has it enabled has it requested or is still reading while messages wait.
NoLostWakeup ==
    \A c \in Guest :
        "recvNotEmptyIrq" \in cnt[c] /\ queue[Other(c)] # <<>> => "recv" \in irf[c] \/ c \in draining

\* A sender that has the interrupt enabled was told that its fifo ran empty,
\* before it enabled the interrupt or after (both CPUs emulated).
EmptySignalled ==
    ipcType # "Hle" =>
        \A c \in Cpu : "sendEmptyIrq" \in cnt[c] /\ queue[c] = <<>> => c \in signalled

Listening(c) == {"enable", "recvNotEmptyIrq"} \subseteq cnt[c]

\* A receiver that keeps listening to a fifo that keeps messages keeps taking
\* them, whether they are sent by the other CPU or by an HLE service.
Arrives ==
    \A c \in Cpu :
        \/ []<>(c \notin Guest \/ queue[Other(c)] = <<>> \/ ~Listening(c))
        \/ []<><<expect[Other(c)]' # expect[Other(c)]>>_vars

=============================================================================
