------------------------------- MODULE MCAccess -------------------------------
(* Instance of Access for TLC. *)
EXTENDS Access
=============================================================================
