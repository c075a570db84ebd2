------------------------------- MODULE MCSetting -------------------------------
(* Setting with a string of four bytes, the first value two letters long and   *)
(* the other three (var_lora_auth has five, for "ABP" and "OTAA"), a key of    *)
(* two bytes, and var_lora_datarate.  Letters: A = 1, B = 2, O = 3, T = 4.     *)
EXTENDS Setting

MCDefault == [str |-> <<1, 2, 0, 0>>, bin |-> <<111, 123>>, num |-> <<1>>]

\* "oTA", "O"; a key, one with a bad digit, one too short; 256 + 4, -1.
MCTyped == [
    str |-> {<<13, 4, 1>>, <<3>>},
    bin |-> {<<0, 11, 3, 0>>, <<5, 2, 10, Bad>>, <<1, 2>>},
    num |-> {<<260>>, <<-1>>}]

\* "ota" without its NUL, and from the second character on "b" with it and "ba"
\* without; a key whole and in two parts.
MCSent == [
    str |-> {[offset |-> 0, bytes |-> <<13, 14, 11>>],
             [offset |-> 1, bytes |-> <<12, 0>>],
             [offset |-> 1, bytes |-> <<12, 11>>]},
    bin |-> {[offset |-> 0, bytes |-> <<166, 12>>], [offset |-> 0, bytes |-> <<82>>],
             [offset |-> 1, bytes |-> <<17>>], [offset |-> 1, bytes |-> <<1, 2>>]},
    num |-> {[offset |-> 0, bytes |-> <<3, 0>>]}]
=============================================================================
