------------------------------ MODULE MCTickets ------------------------------
(***************************************************************************)
(* Small instances of Tickets: a post with two comments of one person, a   *)
(* direct message of that person, and a stranger who tags the account.     *)
(***************************************************************************)
EXTENDS Tickets

CONSTANTS c1, c2, d1, t1, ann, bob, p1, m1, m2

KindOf == [e \in Events |-> CASE e = d1 -> "dm" [] e = t1 -> "tagged" [] OTHER -> "comment"]
FromOf == [e \in Events |-> IF e = t1 THEN bob ELSE ann]
PostOf == [e \in Events |-> IF e = d1 THEN NoPost ELSE p1]
TeamOf == <<m1, m2>>
AllOn == [s \in SettingNames |-> TRUE]
=============================================================================
