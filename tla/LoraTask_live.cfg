CONSTANTS
    p1 = p1
    p2 = p2
    Producers = {p1}
    QueueSize = 2
    MaxMessages = 2
SPECIFICATION FairSpec
PROPERTIES FeedsForever Drains
CHECK_DEADLOCK FALSE
