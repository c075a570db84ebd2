CONSTANTS
    p1 = p1
    p2 = p2
    Producers = {p1}
    QueueSize = 2
    MaxMessages = 1
SPECIFICATION Spec
PROPERTY InvalidAuthClears
CHECK_DEADLOCK FALSE
