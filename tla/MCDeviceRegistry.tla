--------------------------- MODULE MCDeviceRegistry ---------------------------
(* Instances of DeviceRegistry for TLC. *)
EXTENDS DeviceRegistry

CONSTANTS a1, a2, n1

OneAddr == {a1}
TwoAddrs == {a1, a2}
SecondAddr == {a2}
NoAddr == {}
OneName == {n1}
===============================================================================
