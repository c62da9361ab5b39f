SPECIFICATION FairSpec
CONSTANTS
    Tasks = {a, b, c}
    MaxQueued = 2
    PipeCapacity = 1
    MaxCommands = 3
    MaxLines = 1
    NoTask = NoTask
INVARIANTS TypeOK ResultIsOwn LockIsHeldByTheCommand QueueAccounting
PROPERTIES ExchangeSpec EveryExecuteEnds
CHECK_DEADLOCK FALSE
