----------------------------- MODULE MCAccounts -----------------------------
(***************************************************************************)
(* A small instance of Accounts: one account that sends, and one whose     *)
(* token cannot be decrypted and which shares the renewal scan with it.    *)
(***************************************************************************)
EXTENDS Accounts

CONSTANTS a1, a2, s1, s2

SendersOn == [s \in Senders |-> a1]
=============================================================================
