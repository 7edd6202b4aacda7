\* The echo server: accepts, echoes, closes and destroys over reused fds.
CONSTANTS
    a = a
    b = b
    c = c
    Acc = Acc
    NoChan = NoChan
    Conns <- MCConns
    Fds <- MCFds
    ListenFd = 0
    IdBits = 2
    ThreadsNum = 0
    MaxSends = 2
SPECIFICATION Spec
INVARIANTS
    MapTracksOpenConnections
    PollerHealthy
    WritingIffPending
PROPERTIES
    ClosedConnectionReleased
    EchoDrains
    EchoSpec
    BacklogServed
