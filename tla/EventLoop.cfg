\* An EventLoopThread, its loop, two producers and another channel.
CONSTANTS
    p1 = p1
    p2 = p2
    Producers <- MCProducers
    MaxTasks = 4
    MaxIo = 2
SPECIFICATION Spec
INVARIANTS
    NoSleepWithWork
PROPERTIES
    TaskQueueSpec
    QuitAfterStartStops
\* The system ends once the owner has joined the loop thread.
CHECK_DEADLOCK FALSE
