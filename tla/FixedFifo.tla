------------------------------ MODULE FixedFifo ------------------------------
(***************************************************************************)
(* The ring buffers FixedFifo (src/fixed_fifo.rs, used by the IPC fifos)   *)
(* and FastFixedFifo (src/fast_fixed_fifo.rs, used by the geometry command *)
(* fifo): start, len and end over an array of Size slots.  The two share   *)
(* their index arithmetic; FastFixedFifo maps its array twice, back to     *)
(* back, so that a run of slots that crosses the end is contiguous, copies *)
(* in whole vectors, and is saved logically and reloaded at slot 0.        *)
(*                                                                         *)
(* No operation checks the length; the callers do, and the guards on len   *)
(* are their checks.                                                       *)
(***************************************************************************)
EXTENDS Integers, Sequences

CONSTANTS
    Value,
    Size,      \* SIZE
    Word,      \* number of values of the index type (2^16 in FixedFifo)
    Vector,    \* slots written by one vector store of push_back_multiple
    Garbage    \* what a slot holds, or a store brings along, by accident

\* The index type wraps at a multiple of the size, as a power of two does.
Dimensions ==
    /\ Size \in Nat \ {0} /\ Word \in Nat \ {0} /\ Vector \in Nat \ {0}
    /\ Word % Size = 0
    /\ Garbage \notin Value

ASSUME FifoAssumption == Dimensions

VARIABLES start, len, end, fifo, saved

ring == <<start, len, end, fifo>>
vars == <<start, len, end, fifo, saved>>

Slot == 0 .. Size - 1

Init ==
    /\ start = 0 /\ len = 0 /\ end = 0
    /\ fifo = [s \in Slot |-> Garbage]
    /\ saved = <<>>

\* Element i of the fifo, counted from 0.
Index(i) == fifo[(i + start) % Size]

\* The elements from front to back.
contents == [i \in 1 .. len |-> Index(i - 1)]

\* The slots from `from` on take the values vs, wrapping at Size: the modulo
\* of one buffer, the second mapping of the other.
Store(from, vs) ==
    fifo' = [s \in Slot |->
                LET i == ((s - from) % Size) + 1
                IN  IF i <= Len(vs) THEN vs[i] ELSE fifo[s]]

-----------------------------------------------------------------------------

\* wrapping_sub(1) of the index type.
WrappingDec(x) == IF x = 0 THEN Word - 1 ELSE x - 1

PushFront(v) ==
    /\ len < Size
    /\ start' = WrappingDec(start) % Size
    /\ Store(start', <<v>>)
    /\ len' = len + 1
    /\ UNCHANGED <<end, saved>>

PushBack(v) ==
    /\ len < Size
    /\ Store(end, <<v>>)
    /\ end' = (end + 1) % Size
    /\ len' = len + 1
    /\ UNCHANGED <<start, saved>>

\* Mutant of PushBackMultiple: the values are stored behind the moved end.
PushBackMultipleBehindEnd(vs) ==
    /\ len + Len(vs) <= Size
    /\ end' = (end + Len(vs)) % Size
    /\ len' = len + Len(vs)
    /\ Store(end', vs)
    /\ UNCHANGED <<start, saved>>

\* Elements are copied one by one.
PushBackMultiple(vs) ==
    /\ len + Len(vs) <= Size
    /\ end' = (end + Len(vs)) % Size
    /\ len' = len + Len(vs)
    /\ Store(end, vs)
    /\ UNCHANGED <<start, saved>>

\* vs padded to whole vectors with what lies behind it in memory.
WholeVectors(vs) ==
    vs \o [i \in 1 .. (-Len(vs)) % Vector |-> Garbage]

\* The geometry fifo is pushed to only below its thresholds, which leave more
\* than a vector free.
FastHeadroom(vs) == len + Len(WholeVectors(vs)) <= Size

\* FAST_MEMCPY: elements are copied a vector at a time.
PushBackMultipleFast(vs) ==
    /\ FastHeadroom(vs)
    /\ end' = (end + Len(vs)) % Size
    /\ len' = len + Len(vs)
    /\ Store(end, WholeVectors(vs))
    /\ UNCHANGED <<start, saved>>

PopFront ==
    /\ len > 0
    /\ start' = (start + 1) % Size
    /\ len' = len - 1
    /\ UNCHANGED <<end, fifo, saved>>

PopFrontMultiple(count) ==
    /\ count <= len
    /\ start' = (start + count) % Size
    /\ len' = len - count
    /\ UNCHANGED <<end, fifo, saved>>

Clear ==
    /\ start' = 0 /\ len' = 0 /\ end' = 0
    /\ UNCHANGED <<fifo, saved>>

\* The len slots from front_ptr on go to the savestate.
Save == saved' = contents /\ UNCHANGED ring

LoadedEnd == Len(saved) % Size

\* A loaded fifo starts at slot 0.
Load ==
    /\ start' = 0
    /\ len' = Len(saved)
    /\ end' = LoadedEnd
    /\ Store(0, saved)
    /\ UNCHANGED saved

\* A saved length beyond SIZE is an error and leaves the fifo empty.
LoadTooLong == Clear

Next ==
    \/ \E v \in Value : PushFront(v) \/ PushBack(v)
    \/ \E n \in 1 .. Size : \E vs \in [1 .. n -> Value] :
           PushBackMultiple(vs) \/ PushBackMultipleFast(vs)
    \/ \E n \in 1 .. Size : PopFrontMultiple(n)
    \/ PopFront \/ Clear \/ Save \/ Load \/ LoadTooLong

Spec == Init /\ [][Next]_vars

-----------------------------------------------------------------------------
(* Properties                                                              *)

\* The indices stay inside the array, also after start is decremented at 0.
TypeOK ==
    /\ start \in Slot /\ end \in Slot
    /\ len \in 0 .. Size
    /\ fifo \in [Slot -> Value \cup {Garbage}]
    /\ saved \in UNION {[1 .. n -> Value] : n \in 0 .. Size}

\* The strengthening behind ActsAsQueue: end is where the elements end, and they
\* are values that were pushed.
Filled ==
    /\ TypeOK
    /\ end = (start + len) % Size
    /\ contents \in Seq(Value)

Abstract == INSTANCE Queue WITH queue <- contents

\* Every operation does to the elements what it would do to a queue: nothing
\* is overwritten, reordered or replaced by what a vector store drags along.
ActsAsQueue == Abstract!Spec

=============================================================================
