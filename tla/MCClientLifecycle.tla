-------------------------- MODULE MCClientLifecycle --------------------------
(* Instances of ClientLifecycle for TLC: a few addresses, a pool of clients that are
   made again once nothing refers to them, and DEVICE_HOSTS entries of either kind. *)
EXTENDS ClientLifecycle, TLC

CONSTANTS k1, k2, c1, c2, c3, c4, n1, n2

TwoKeys == {k1, k2}
OneKey == {k1}
TwoClients == {c1, c2}
ThreeClients == {c1, c2, c3}
FourClients == {c1, c2, c3, c4}
AddressEntry == {k1}
NameEntry == {n1}
TwoNames == {n1, n2}

ClientSymmetry == Permutations(Clients)
ClientAndNameSymmetry == Permutations(Clients) \cup Permutations(Entries)
==============================================================================
