\* shutdown() from another thread racing the loop's connectDestroyed.
CONSTANTS
    MsgLen = 2
    MaxSends = 2
    MaxPeerMsgs = 1
    CrossThread = TRUE
SPECIFICATION Spec
PROPERTIES
    StateNeverGoesBack
