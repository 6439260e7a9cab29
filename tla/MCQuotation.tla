--------------------------- MODULE MCQuotation ---------------------------
(* Small instances of Quotation for TLC.                                   *)
EXTENDS Quotation, TLC

Symmetric == Permutations(Sessions) \cup Permutations(Quotations)
             \cup Permutations(Revisions) \cup Permutations(Items)
=============================================================================
