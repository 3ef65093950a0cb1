------------------------------ MODULE MCStrategy ------------------------------
(* A small instance of StrategyCenter.                                      *)
EXTENDS StrategyCenter

CONSTANTS c1, c2, n1

TwoClients == {c1, c2}
TwoNames   == {n1, DefaultName}   \* nothing stops an operator from using it
=============================================================================
