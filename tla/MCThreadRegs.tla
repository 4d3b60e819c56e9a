---------------------------- MODULE MCThreadRegs -----------------------------
EXTENDS ThreadRegs, TLC
ValueSymmetry == Permutations(Value)
=============================================================================
