------------------------------ MODULE MCWdtTask ------------------------------
(* WdtTask with the clients of the build: uart_task.c, LoRa_task.c, bt_task.c *)
(* and the priorities of signetik.h.                                          *)
EXTENDS WdtTask, TLC

CONSTANTS uart, lora, bt

ClientPrio == (uart :> 3) @@ (lora :> 4) @@ (bt :> 2)
=============================================================================
