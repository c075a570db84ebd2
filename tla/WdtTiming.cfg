CONSTANTS
    lora = lora
    bt = bt
    Threads = {lora, bt}
    Prio <- TwoPrio
    Gap <- TwoGap
    Timeout = 10
    Half = 5
    Tenth = 1
SPECIFICATION FairSpec
INVARIANTS TypeOK NoSpuriousExpiry DetectBound OnTime
PROPERTIES HangRecovers IsWatchdog
CHECK_DEADLOCK FALSE
