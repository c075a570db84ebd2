\* Every client registers before it first blocks; the highest number is last.
CONSTANTS
    uart = uart
    lora = lora
    bt = bt
    Threads = {uart, lora, bt}
    Prio <- ClientPrio
    Late = {lora}
    MayDeregister = {lora}
    Width = 8
SPECIFICATION Spec
INVARIANTS UniqueIds MaskExact HonestAgg
PROPERTIES FeedAccounts LostOnlyToLower IsWatchdog
CHECK_DEADLOCK FALSE
