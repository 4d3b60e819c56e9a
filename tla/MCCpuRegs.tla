------------------------------ MODULE MCCpuRegs ------------------------------
EXTENDS CpuRegs
=============================================================================
