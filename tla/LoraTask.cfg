CONSTANTS
    p1 = p1
    p2 = p2
    Producers = {p1, p2}
    QueueSize = 1
    MaxMessages = 3
SPECIFICATION Spec
SYMMETRY Alike
INVARIANTS TypeOK Pacing OneLateSend CallbackLines JoinsConfigured
PROPERTIES IsPipe
CHECK_DEADLOCK FALSE
