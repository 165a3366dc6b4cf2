------------------------------- MODULE Doubling -------------------------------
(* The powers of two by which the collector spaces what it tries again: 2 to the n, as a
   function, one doubling after the other. *)
LOCAL INSTANCE Naturals

Doubled[n \in Nat] == IF n = 0 THEN 1 ELSE 2 * Doubled[n - 1]
===============================================================================
