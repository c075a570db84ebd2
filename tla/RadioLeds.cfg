CONSTANTS
    QueueSize = 2
    MaxAir = 1
SPECIFICATION FairSpec
INVARIANTS TypeOK LampsRight CaughtUp
PROPERTIES RadioGoesOn DarkForGood LastShown
