------------------------------ MODULE MCSending ------------------------------
(***************************************************************************)
(* Small instances of Sending: one or two messages of one account.         *)
(***************************************************************************)
EXTENDS Sending, TLC

CONSTANTS m1, m2

Interchangeable == Permutations(Messages) \cup Permutations(Workers)
=============================================================================
