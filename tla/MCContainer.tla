------------------------------ MODULE MCContainer ------------------------------
(* An instance of Container for TLC. *)
EXTENDS Container

BothLoops == {"emeter", "sysinfo"}
==============================================================================
