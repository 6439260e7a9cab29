--------------------------- MODULE MCReceivables ---------------------------
(* Small instances of Receivables for TLC.                                 *)
EXTENDS Receivables, TLC

GrossOfTwo == [i \in Invoices |-> 2]

Symmetric == Permutations(Sessions) \cup Permutations(Receipts) \cup Permutations(Invoices)
=============================================================================
