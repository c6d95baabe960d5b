------------------------------ MODULE MCFirmware ------------------------------
(* Firmware of two devices; nothing is built for the second one.            *)
EXTENDS Firmware

CONSTANTS d1, d2

TheKinds == <<"files", "binary">>
TheBuilds == [d \in {d1, d2} |-> IF d = d1 THEN {1, 2} ELSE {}]
TheAsks ==
  {[udid |-> d1, forced |-> FALSE, ott |-> FALSE, env |-> FALSE],
   [udid |-> d1, forced |-> FALSE, ott |-> TRUE, env |-> TRUE],
   [udid |-> d1, forced |-> TRUE, ott |-> TRUE, env |-> FALSE]}
=============================================================================
