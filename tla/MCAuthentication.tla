--------------------------- MODULE MCAuthentication ---------------------------
(* An instance of Authentication for TLC: three clients (one may be lost in each timed
   call, and one is in hand), two timed calls, one poller beside the attempt. *)
EXTENDS Authentication

CONSTANTS c1, c2, c3, auth, poll

ThreeClients == {c1, c2, c3}
TwoCallers == {auth, poll}
==============================================================================
