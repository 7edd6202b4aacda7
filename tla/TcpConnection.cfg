\* One connection, its loop and a peer, with another thread calling send and
\* shutdown.
CONSTANTS
    MsgLen = 2
    MaxSends = 3
    MaxPeerMsgs = 2
    CrossThread = TRUE
SPECIFICATION Spec
INVARIANTS
    WireInSendOrder
    CloseOnce
    CloseHandlerUnreached
PROPERTIES
    PeerCloseDestroys
    DrainOnHalfClose
