CONSTANTS
    uart = uart
    lora = lora
    bt = bt
    Threads = {uart, lora, bt}
    Prio <- ClientPrio
    Late = {bt}
    MayDeregister = {}
    Width = 8
SPECIFICATION Spec
INVARIANT UniqueIds
CHECK_DEADLOCK FALSE
