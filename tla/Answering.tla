------------------------------ MODULE Answering ------------------------------
(***************************************************************************)
(* What matching promises of a message, whatever fails on the way and      *)
(* however often it is retried: one automation's actions are queued, each  *)
(* once and in any order, and only then is the message MATCHED; or nothing *)
(* is queued and it is NO_MATCH; and that verdict is final.                *)
(***************************************************************************)
EXTENDS Naturals

CONSTANTS
  Events, Automations, ActionIds,
  Wanted        \* Automations -> Events -> the actions it answers with

VARIABLES
  copies,       \* Events \X ActionIds -> how often that action was queued
  verdict       \* Events -> "PENDING", "MATCHED" or "NO_MATCH"

Queued(e) == {x \in ActionIds : copies[<<e, x>>] > 0}

Init ==
  /\ copies = [k \in Events \X ActionIds |-> 0]
  /\ verdict = [e \in Events |-> "PENDING"]

\* One more action of the one automation that answers.
Queue(e, x) ==
  /\ verdict[e] = "PENDING" /\ copies[<<e, x>>] = 0
  /\ \E a \in Automations : Queued(e) \cup {x} \subseteq Wanted[a][e]
  /\ copies' = [copies EXCEPT ![<<e, x>>] = 1]
  /\ UNCHANGED verdict

Decide(e, v) ==
  /\ verdict[e] = "PENDING"
  /\ verdict' = [verdict EXCEPT ![e] = v]
  /\ UNCHANGED copies

Match(e) ==
  /\ \E a \in Automations : Queued(e) = Wanted[a][e]
  /\ Decide(e, "MATCHED")

Decline(e) == Queued(e) = {} /\ Decide(e, "NO_MATCH")

Next == \E e \in Events : Match(e) \/ Decline(e) \/ \E x \in ActionIds : Queue(e, x)

Spec == Init /\ [][Next]_<<copies, verdict>>
=============================================================================
