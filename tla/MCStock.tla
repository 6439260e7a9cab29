------------------------------ MODULE MCStock ------------------------------
(* Small instances of StockLedger for TLC.                                 *)
EXTENDS StockLedger, TLC

CONSTANTS c1, c2, s1, s2, w1, w2

OpeningOfTwo == [c \in Cells |-> 2]

Symmetric == Permutations(Sessions) \cup Permutations(WorkOrders)
=============================================================================
