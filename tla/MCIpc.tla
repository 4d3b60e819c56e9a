-------------------------------- MODULE MCIpc --------------------------------
EXTENDS Ipc

\* Everything on; a clear that turns the send interrupt off; a clear that
\* turns everything off.
ControlWrites ==
    {Config, {"sendClear", "recvNotEmptyIrq", "err", "enable"}, {"sendClear"}}
=============================================================================
