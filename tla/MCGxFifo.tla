------------------------------ MODULE MCGxFifo ------------------------------
EXTENDS GxFifo

\* A command without parameters, one with two, a swap and a test.
MCParams == [nop |-> 0, push |-> 0, vtx |-> 2, swap |-> 1, test |-> 1]

MCHeaders == {<<>>, <<"vtx">>, <<"swap", "push">>, <<"push", "nop", "test">>}
=============================================================================
