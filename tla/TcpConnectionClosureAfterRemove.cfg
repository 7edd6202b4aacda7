\* send() from another thread after handleClose, while the loop destroys the connection.
CONSTANTS
    MsgLen = 2
    MaxSends = 2
    MaxPeerMsgs = 1
    CrossThread = TRUE
SPECIFICATION Spec
INVARIANTS
    NoClosureAfterRemove
