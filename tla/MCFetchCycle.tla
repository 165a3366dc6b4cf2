----------------------------- MODULE MCFetchCycle -----------------------------
(* Instances of FetchCycle for TLC: one or two devices, an interval of five ticks and a
   budget of four (80%), three tries whose delays double up to a cap. *)
EXTENDS FetchCycle

CONSTANTS d1, d2

OneDevice == {d1}
TwoDevices == {d1, d2}
===============================================================================
