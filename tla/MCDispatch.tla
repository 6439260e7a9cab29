----------------------------- MODULE MCDispatch -----------------------------
(* Small instances of MessageDispatch for TLC.                             *)
EXTENDS MessageDispatch, TLC

Symmetric == Permutations(Messages) \cup Permutations(Workers)
=============================================================================
