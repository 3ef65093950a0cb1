----------------------------- MODULE MCUserAccess -----------------------------
(* Small instances of UserAccess for TLC.                                   *)
EXTENDS UserAccess, TLC

CONSTANTS c1, c2

TwoClients == {c1, c2}

(* Requests are interchangeable.                                            *)
ClientSymmetry == Permutations(Clients)
=============================================================================
