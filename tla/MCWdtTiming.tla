----------------------------- MODULE MCWdtTiming -----------------------------
(* WdtTiming in ticks of 2 s: a timeout of 10, sleeps of 5 and 1.  The LoRa   *)
(* thread's longest pass is 12.3 s of sleeps and waits plus the send; it gets *)
(* the largest gap the rule allows.  The Bluetooth thread reports each second.*)
EXTENDS WdtTiming, TLC

CONSTANTS lora, bt

TwoPrio == (bt :> 2) @@ (lora :> 4)
TwoGap == (bt :> 2) @@ (lora :> 9)
=============================================================================
