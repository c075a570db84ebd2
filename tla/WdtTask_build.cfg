\* The build: the Bluetooth thread precedes the others and registers late.
CONSTANTS
    uart = uart
    lora = lora
    bt = bt
    Threads = {uart, lora, bt}
    Prio <- ClientPrio
    Late = {bt}
    MayDeregister = {}
    Width = 8
SPECIFICATION Spec
PROPERTIES SoundWhileExclusive OnlyLateOverlaps
CHECK_DEADLOCK FALSE
