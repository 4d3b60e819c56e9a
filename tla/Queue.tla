-------------------------------- MODULE Queue --------------------------------
(***************************************************************************)
(* What the fixed-size fifos promise their users: a double-ended queue of  *)
(* bounded length whose contents can be saved and brought back.            *)
(***************************************************************************)
EXTENDS Integers, Sequences

CONSTANTS Value, Size

VARIABLES queue, saved

Init == queue = <<>> /\ saved = <<>>

PushBack(vs) ==
    /\ Len(queue) + Len(vs) <= Size
    /\ queue' = queue \o vs
    /\ UNCHANGED saved

PushFront(v) ==
    /\ Len(queue) < Size
    /\ queue' = <<v>> \o queue
    /\ UNCHANGED saved

PopFront(n) ==
    /\ n <= Len(queue)
    /\ queue' = SubSeq(queue, n + 1, Len(queue))
    /\ UNCHANGED saved

Clear == queue' = <<>> /\ UNCHANGED saved

Save == saved' = queue /\ UNCHANGED queue

Load == queue' = saved /\ UNCHANGED saved

Next ==
    \/ \E n \in 1 .. Size : \E vs \in [1 .. n -> Value] : PushBack(vs)
    \/ \E v \in Value : PushFront(v)
    \/ \E n \in 1 .. Size : PopFront(n)
    \/ Clear \/ Save \/ Load

Spec == Init /\ [][Next]_<<queue, saved>>

=============================================================================
