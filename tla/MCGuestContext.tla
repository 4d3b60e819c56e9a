--------------------------- MODULE MCGuestContext ---------------------------
(* GuestContext with two threads and a ring that wraps.                    *)
EXTENDS GuestContext, TLC

\* The threads are interchangeable.
Sym == Permutations(Threads)

\* Whether a frame's block is gone changes no step and none of the properties
\* but FlushedFramesUnwound: where that is not checked, states that differ only
\* in it are the same.
NotFreed(f) == [f EXCEPT !.freed = FALSE]
WithoutFreed == <<guest, op, [i \in DOMAIN host |-> NotFreed(host[i])], ring,
                  in_interrupt, interrupt_sp, NotFreed(resumed), leftover>>
=============================================================================
