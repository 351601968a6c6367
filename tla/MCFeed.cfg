CONSTANTS
    Sockets = {s1, s2}
    NoSocket = NoSocket
    QueueSize = 2
    MaxRetries = 2
    KeepLive = 2
    KeepMap = 1
    Addresses = {7}
    WireSize = 1
    MaxEvents = 4
    MaxVisits = 1
    MaxFaults = 1
SPECIFICATION FeedSpec
INVARIANTS
    FeedTypeOK
    OneConnection
    NewestFirst
PROPERTIES
    KeepsPromise
    Reconnects
    DeadQueueRemoved
CHECK_DEADLOCK FALSE
