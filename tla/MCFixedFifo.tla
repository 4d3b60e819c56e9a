----------------------------- MODULE MCFixedFifo -----------------------------
EXTENDS FixedFifo
=============================================================================
