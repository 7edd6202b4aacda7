CONSTANTS
    p1 = p1
    p2 = p2
    Producers <- MCProducers
    MaxTasks = 2
    MaxIo = 1
SPECIFICATION Spec
INVARIANT NoQuitOnDeadLoop
CHECK_DEADLOCK FALSE
