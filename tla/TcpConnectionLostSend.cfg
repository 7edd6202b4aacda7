\* send() from another thread, then shutdown() on the loop thread.
CONSTANTS
    MsgLen = 2
    MaxSends = 2
    MaxPeerMsgs = 1
    CrossThread = TRUE
SPECIFICATION Spec
INVARIANTS
    DrainBeforeHalfClose
