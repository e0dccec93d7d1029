--------------------------- MODULE TicketsProofs ---------------------------
(***************************************************************************)
(* What holds of tickets for every number of workers, agents, events and   *)
(* edits: that rows and tasks keep their types, when a ticket is dated,    *)
(* what a worker may reopen, in which race a message is lost, and that the *)
(* numbers on the tabs are the numbers of what they list.                  *)
(***************************************************************************)
EXTENDS Tickets, FiniteSetTheorems, TLAPS

-----------------------------------------------------------------------------
(* The inductive invariant.                                                *)

TicketFields == {"status", "number", "assignee", "resolved", "answered"}
TaskFields == {"at", "event", "key", "seen", "created", "found", "number", "tries", "assignee"}

\* What a row needs for its status and date to be written.
Dated(t) ==
  /\ DOMAIN t = TicketFields
  /\ t.number \in Nat
  /\ t.status \in Closing => t.resolved
  /\ t.resolved => t.status \in Closing \cup {"IN_PROGRESS"}

\* A worker that writes to the ticket of a post read it open, created it, or
\* adopted it when it was about to create one, and then it had a number ready.
LookedUp(t) ==
  /\ DOMAIN t = TaskFields
  /\ t.number \in Nat
  /\ t.at = "create" => t.number > 0
  /\ /\ t.at \in {"duplicate", "participant", "message", "touch"}
     /\ PostKey(t.key) /\ t.seen \in Closing
     => t.number > 0

IInv ==
  /\ DOMAIN ticket = Keys /\ ticket = [k \in Keys |-> ticket[k]]
  /\ \A k \in Keys : Dated(ticket[k])
  /\ DOMAIN task = Workers /\ task = [w \in Workers |-> task[w]]
  /\ \A w \in Workers : LookedUp(task[w])

-----------------------------------------------------------------------------
(* Rows.                                                                   *)

\* A row replaced, or left alone.
LEMMA OneRow ==
  ASSUME IInv, NEW k, NEW t, k \in Keys => Dated(t), ticket' = [ticket EXCEPT ![k] = t]
  PROVE  /\ DOMAIN ticket' = Keys /\ ticket' = [o \in Keys |-> ticket'[o]]
         /\ \A o \in Keys : Dated(ticket'[o])
BY DEF IInv

LEMMA OneTask ==
  ASSUME IInv, NEW w \in Workers, NEW t, LookedUp(t), task' = [task EXCEPT ![w] = t]
  PROVE  /\ DOMAIN task' = Workers /\ task' = [o \in Workers |-> task'[o]]
         /\ \A o \in Workers : LookedUp(task'[o])
BY DEF IInv

LEMMA Idle == LookedUp(NoTask) /\ NoTask.at = "idle"
BY DEF LookedUp, NoTask, TaskFields

LEMMA FreshTicket ==
  ASSUME NEW n \in Nat, NEW m
  PROVE  Dated([NoTicket EXCEPT !.status = "OPEN", !.number = n, !.assignee = m])
BY DEF Dated, NoTicket, TicketFields, Closing

(* What ingest does to a ticket and to its own task, step by step.         *)
LEMMA WorkerKeeps ==
  ASSUME IInv, NEW w \in Workers,
         Work(w) \/ Swallow(w) \/ \E e \in Events : IngestEvent(w, e)
  PROVE  IInv'
<1> USE DEF rows
<1>0. LookedUp(task[w])
  BY DEF IInv
<1>1. PICK t : t = task[w]
  OBVIOUS
<1>2. DOMAIN t = TaskFields /\ t.number \in Nat
  BY <1>0, <1>1 DEF LookedUp
<1>3. ASSUME UNCHANGED ticket, NEW u, LookedUp(u), task' = [task EXCEPT ![w] = u]
      PROVE  IInv'
  BY <1>3, OneTask DEF IInv
<1>4. ASSUME NEW e \in Events, IngestEvent(w, e)
      PROVE  IInv'
  <2>1. CASE task' = task
    BY <1>4, <2>1 DEF IngestEvent, IInv
  <2>2. CASE task' # task
    <3>1. task' = [task EXCEPT ![w] = [NoTask EXCEPT !.at = "find", !.event = e, !.key = TargetOf(e)]]
          /\ ticket' = ticket
      BY <1>4, <2>2 DEF IngestEvent
    <3>2. LookedUp([NoTask EXCEPT !.at = "find", !.event = e, !.key = TargetOf(e)])
      BY DEF LookedUp, NoTask, TaskFields
    <3>. QED BY <1>3, <3>1, <3>2
  <2>. QED BY <2>1, <2>2
<1>5. CASE Ingest(w)
  <2>1. CASE PostKey(t.key) /\ ticket[t.key].status \in Closing
    BY <1>1, <1>3, <1>5, <2>1, Idle DEF Ingest, Done
  <2>2. CASE ~(PostKey(t.key) /\ ticket[t.key].status \in Closing)
    <3>1. PICK step \in {"duplicate", "assign", "number"}, seen \in {ticket[t.key].status} :
            /\ seen = ticket[t.key].status
            /\ task' = [task EXCEPT ![w].at = step, ![w].seen = seen] /\ ticket' = ticket
      BY <1>1, <1>5, <2>2 DEF Ingest
    <3>2. LookedUp([t EXCEPT !.at = step, !.seen = seen])
      BY <1>2, <2>2, <3>1 DEF LookedUp, TaskFields
    <3>3. task' = [task EXCEPT ![w] = [t EXCEPT !.at = step, !.seen = seen]]
      BY <1>1, <3>1 DEF IInv
    <3>. QED BY <1>3, <3>1, <3>2, <3>3
  <2>. QED BY <2>1, <2>2
<1>6. CASE PickVacantMember(w)
  <2>1. PICK m : m = VacantMember
    OBVIOUS
  <2>2. task' = [task EXCEPT ![w] = [t EXCEPT !.at = "number", !.assignee = m]]
        /\ ticket' = ticket
    BY <1>1, <1>6, <2>1 DEF PickVacantMember
  <2>3. LookedUp([t EXCEPT !.at = "number", !.assignee = m])
    BY <1>2 DEF LookedUp, TaskFields
  <2>. QED BY <1>3, <2>2, <2>3
<1>7. CASE NextNumber(w)
  <2>0. PICK k \in Keys : task' = [task EXCEPT ![w].at = "create", ![w].number = ticket[k].number + 1]
    BY <1>7 DEF NextNumber
  <2>1. PICK n \in Nat : n = ticket[k].number
    BY DEF IInv, Dated
  <2>2. task' = [task EXCEPT ![w] = [t EXCEPT !.at = "create", !.number = n + 1]]
    BY <1>1, <2>0, <2>1
  <2>4. ticket' = ticket
    BY <1>7 DEF NextNumber
  <2>3. LookedUp([t EXCEPT !.at = "create", !.number = n + 1])
    BY <1>2, <2>1 DEF LookedUp, TaskFields
  <2>. QED BY <1>3, <2>2, <2>3, <2>4
<1>8. CASE CreateTicket(w)
  <2>1. t.number > 0
    BY <1>0, <1>1, <1>8 DEF CreateTicket, At, LookedUp
  <2>2. ASSUME NEW seen, ticket' = ticket, task' = [task EXCEPT ![w].at = "duplicate", ![w].seen = seen]
        PROVE  IInv'
    <3>1. LookedUp([t EXCEPT !.at = "duplicate", !.seen = seen])
      BY <1>2, <2>1 DEF LookedUp, TaskFields
    <3>2. task' = [task EXCEPT ![w] = [t EXCEPT !.at = "duplicate", !.seen = seen]]
      BY <1>1, <2>2
    <3>. QED BY <1>3, <2>2, <3>1, <3>2
  <2>3. ASSUME ticket' = ticket, task' = [task EXCEPT ![w].at = "number", ![w].tries = t.tries + 1]
        PROVE  IInv'
    <3>1. LookedUp([t EXCEPT !.at = "number", !.tries = t.tries + 1])
      BY <1>2 DEF LookedUp, TaskFields
    <3>2. task' = [task EXCEPT ![w] = [t EXCEPT !.at = "number", !.tries = t.tries + 1]]
      BY <1>1, <2>3
    <3>. QED BY <1>3, <2>3, <3>1, <3>2
  <2>4. ASSUME NEW x, ticket' = ticket, Done(w, x)
        PROVE  IInv'
    BY <1>3, <2>4, Idle DEF Done
  <2>5. ASSUME ticket' = [ticket EXCEPT ![t.key] =
                 [NoTicket EXCEPT !.status = "OPEN", !.number = t.number, !.assignee = t.assignee]],
               task' = [task EXCEPT ![w].at = "duplicate", ![w].seen = "OPEN", ![w].created = TRUE]
        PROVE  IInv'
    <3>1. LookedUp([t EXCEPT !.at = "duplicate", !.seen = "OPEN", !.created = TRUE])
      BY <1>2, <2>1 DEF LookedUp, TaskFields
    <3>2. task' = [task EXCEPT ![w] = [t EXCEPT !.at = "duplicate", !.seen = "OPEN", !.created = TRUE]]
      BY <1>1, <2>5
    <3>3. Dated([NoTicket EXCEPT !.status = "OPEN", !.number = t.number, !.assignee = t.assignee])
      BY <1>2, FreshTicket
    <3>4. /\ DOMAIN ticket' = Keys /\ ticket' = [o \in Keys |-> ticket'[o]]
          /\ \A o \in Keys : Dated(ticket'[o])
      BY <2>5, <3>3, OneRow
    <3>5. /\ DOMAIN task' = Workers /\ task' = [o \in Workers |-> task'[o]]
          /\ \A o \in Workers : LookedUp(task'[o])
      BY <3>1, <3>2, OneTask
    <3>. QED BY <3>4, <3>5 DEF IInv
  <2>6. \/ \E seen : ticket' = ticket /\ task' = [task EXCEPT ![w].at = "duplicate", ![w].seen = seen]
        \/ ticket' = ticket /\ task' = [task EXCEPT ![w].at = "number", ![w].tries = t.tries + 1]
        \/ ticket' = ticket /\ Done(w, "lost")
        \/ /\ ticket' = [ticket EXCEPT ![t.key] =
                [NoTicket EXCEPT !.status = "OPEN", !.number = t.number, !.assignee = t.assignee]]
           /\ task' = [task EXCEPT ![w].at = "duplicate", ![w].seen = "OPEN", ![w].created = TRUE]
    BY <1>1, <1>8, Zenon DEF CreateTicket
  <2>. QED BY <2>2, <2>3, <2>4, <2>5, <2>6
<1>9. CASE CheckDuplicate(w)
  <2>1. CASE Done(w, "duplicate")
    BY <1>3, <1>9, <2>1, Idle DEF CheckDuplicate, Done
  <2>2. CASE ~Done(w, "duplicate")
    <3>1. PICK found : /\ task' = [task EXCEPT ![w].at = "participant", ![w].found = found]
                       /\ t.at = "duplicate"
      BY <1>1, <1>9, <2>2 DEF CheckDuplicate, At
    <3>2. LookedUp([t EXCEPT !.at = "participant", !.found = found])
      BY <1>0, <1>1, <3>1 DEF LookedUp, TaskFields
    <3>3. task' = [task EXCEPT ![w] = [t EXCEPT !.at = "participant", !.found = found]]
          /\ ticket' = ticket
      BY <1>1, <1>9, <3>1 DEF CheckDuplicate
    <3>. QED BY <1>3, <3>2, <3>3
  <2>. QED BY <2>1, <2>2
<1>10. CASE SaveParticipant(w) \/ SaveMessage(w)
  <2>1. ticket' = ticket /\ t.at \in {"participant", "message"}
        /\ (Done(w, "lost") \/ Go(w, "message") \/ Go(w, "touch"))
    BY <1>1, <1>10 DEF SaveParticipant, SaveMessage, At
  <2>2. CASE Done(w, "lost")
    BY <1>3, <2>1, <2>2, Idle DEF Done
  <2>3. ASSUME NEW step \in {"message", "touch"}, Go(w, step)
        PROVE  IInv'
    <3>1. LookedUp([t EXCEPT !.at = step])
      BY <1>0, <1>1, <2>1 DEF LookedUp, TaskFields
    <3>2. task' = [task EXCEPT ![w] = [t EXCEPT !.at = step]]
      BY <1>1, <2>3 DEF Go
    <3>. QED BY <1>3, <2>1, <3>1, <3>2
  <2>. QED BY <2>1, <2>2, <2>3
<1>11. CASE TouchTicket(w)
  <2>1. PICK k : k = t.key
    OBVIOUS
  <2>2. PICK r : r = ticket[k]
    OBVIOUS
  <2>3. task' = [task EXCEPT ![w] = NoTask]
    BY <1>11 DEF TouchTicket, Done
  <2>4. /\ DOMAIN task' = Workers /\ task' = [o \in Workers |-> task'[o]]
        /\ \A o \in Workers : LookedUp(task'[o])
    BY <2>3, Idle, OneTask
  <2>5. \/ ticket' = ticket
        \/ ticket' = [ticket EXCEPT ![k] = [r EXCEPT !.status = "OPEN", !.resolved = FALSE]]
    BY <1>1, <1>11, <2>1, <2>2 DEF TouchTicket
  <2>6. k \in Keys => Dated([r EXCEPT !.status = "OPEN", !.resolved = FALSE])
    <3>1. SUFFICES ASSUME k \in Keys PROVE Dated([r EXCEPT !.status = "OPEN", !.resolved = FALSE])
      OBVIOUS
    <3>2. Dated(r)
      BY <2>2, <3>1 DEF IInv
    <3>. QED BY <3>2 DEF Dated, TicketFields, Closing
  <2>7. /\ DOMAIN ticket' = Keys /\ ticket' = [o \in Keys |-> ticket'[o]]
        /\ \A o \in Keys : Dated(ticket'[o])
    BY <2>5, <2>6, OneRow DEF IInv
  <2>. QED BY <2>4, <2>7 DEF IInv
<1>12. CASE Swallow(w)
  BY <1>3, <1>12, Idle DEF Swallow, Done
<1>. QED BY <1>4, <1>5, <1>6, <1>7, <1>8, <1>9, <1>10, <1>11, <1>12 DEF Work

(* What agents do to a ticket: a status and its date are written together, *)
(* and only a reply writes a status alone.                                 *)
LEMMA AgentKeeps ==
  ASSUME IInv, NEW a \in Agents, Act(a)
  PROVE  IInv'
<1> USE DEF rows
<1>1. ASSUME UNCHANGED <<ticket, task>> PROVE IInv'
  BY <1>1 DEF IInv
<1>2. ASSUME NEW k, NEW t, k \in Keys => Dated(t), task' = task, ticket' = [ticket EXCEPT ![k] = t]
      PROVE  IInv'
  BY <1>2, OneRow DEF IInv
<1>3. CASE SaveUpdate(a)
  <2>1. PICK d, r : d = desk[a] /\ r = ticket[d.key]
    OBVIOUS
  <2>2. PICK changes : changes = (d.status \notin {"same", d.seen})
    OBVIOUS
  <2>3. PICK saved : saved = [r EXCEPT
                  !.status = IF changes THEN d.status ELSE r.status,
                  !.resolved = IF changes THEN d.status \in Closing ELSE r.resolved,
                  !.assignee = IF d.assignee = "same" THEN r.assignee ELSE d.assignee]
    OBVIOUS
  <2>4. task' = task
    BY <1>3 DEF SaveUpdate
  <2>5. ticket' = [ticket EXCEPT ![d.key] = saved] \/ ticket' = [ticket EXCEPT ![d.key] = r]
    BY <1>3, <2>1, <2>2, <2>3 DEF SaveUpdate
  <2>6. ASSUME d.key \in Keys PROVE Dated(saved) /\ Dated(r)
    <3>1. Dated(r)
      BY <2>1, <2>6 DEF IInv
    <3>2. PICK st, re, as : /\ st = (IF changes THEN d.status ELSE r.status)
                            /\ re = (IF changes THEN d.status \in Closing ELSE r.resolved)
                            /\ as = (IF d.assignee = "same" THEN r.assignee ELSE d.assignee)
      OBVIOUS
    <3>3. saved = [r EXCEPT !.status = st, !.resolved = re, !.assignee = as]
      BY <2>3, <3>2
    <3>4. /\ DOMAIN saved = TicketFields /\ saved.status = st /\ saved.resolved = re
          /\ saved.number = r.number
      BY <3>1, <3>3 DEF Dated, TicketFields
    <3>5. (st \in Closing => re) /\ (re => st \in Closing \cup {"IN_PROGRESS"})
      BY <3>1, <3>2 DEF Dated
    <3>. QED BY <3>1, <3>4, <3>5 DEF Dated
  <2>. QED BY <1>2, <2>4, <2>5, <2>6
<1>4. CASE Advance(a)
  <2>1. PICK d, r : d = desk[a] /\ r = ticket[d.key]
    OBVIOUS
  <2>2. PICK st : st = (IF d.seen = "OPEN" THEN "IN_PROGRESS" ELSE r.status)
    OBVIOUS
  <2>3. task' = task /\ ticket' = [ticket EXCEPT ![d.key] = [r EXCEPT !.status = st, !.answered = TRUE]]
    BY <1>4, <2>1, <2>2 DEF Advance
  <2>4. ASSUME d.key \in Keys PROVE Dated([r EXCEPT !.status = st, !.answered = TRUE])
    <3>1. Dated(r)
      BY <2>1, <2>4 DEF IInv
    <3>2. PICK saved : saved = [r EXCEPT !.status = st, !.answered = TRUE]
      OBVIOUS
    <3>3. /\ DOMAIN saved = TicketFields /\ saved.status = st /\ saved.resolved = r.resolved
          /\ saved.number = r.number
      BY <3>1, <3>2 DEF Dated, TicketFields
    <3>4. (st \in Closing => r.resolved) /\ (r.resolved => st \in Closing \cup {"IN_PROGRESS"})
      BY <2>2, <3>1 DEF Dated, Closing
    <3>5. Dated(saved)
      BY <3>1, <3>3, <3>4 DEF Dated
    <3>. QED BY <3>2, <3>5
  <2>. QED BY <1>2, <2>3, <2>4
<1>5. ~SaveUpdate(a) /\ ~Advance(a) => UNCHANGED <<ticket, task>>
  BY DEF Act, Update, AddNote, Reply, Send, MarkPrivate
<1>. QED BY <1>1, <1>3, <1>4, <1>5

LEMMA RemovalKeeps ==
  ASSUME IInv, NEW m, RemoveMember(m)
  PROVE  IInv'
<1>1. /\ task' = task
      /\ ticket' = [k \in Keys |-> IF ticket[k].assignee = m
                                     THEN [ticket[k] EXCEPT !.assignee = Nobody] ELSE ticket[k]]
  BY DEF RemoveMember
<1>2. ASSUME NEW k \in Keys PROVE Dated(ticket'[k])
  <2>1. PICK r : r = ticket[k]
    OBVIOUS
  <2>2. Dated(r)
    BY <2>1 DEF IInv
  <2>3. Dated([r EXCEPT !.assignee = Nobody])
    BY <2>2 DEF Dated, TicketFields
  <2>4. ticket'[k] = IF r.assignee = m THEN [r EXCEPT !.assignee = Nobody] ELSE r
    BY <1>1, <2>1
  <2>. QED BY <2>2, <2>3, <2>4
<1>. QED BY <1>1, <1>2 DEF IInv

LEMMA InitIInv == Init => IInv
<1>1. Dated(NoTicket)
  BY DEF Dated, NoTicket, TicketFields, Closing
<1>. QED BY <1>1, Idle DEF Init, IInv

LEMMA NextIInv == IInv /\ [Next]_vars => IInv'
<1> SUFFICES ASSUME IInv, [Next]_vars PROVE IInv'
  OBVIOUS
<1>1. ASSUME UNCHANGED <<ticket, task>> PROVE IInv'
  BY <1>1 DEF IInv
<1>2. CASE \E w \in Workers, e \in Events : IngestEvent(w, e)
  BY <1>2, WorkerKeeps
<1>3. CASE \E w \in Workers : Work(w) \/ Swallow(w)
  BY <1>3, WorkerKeeps
<1>4. CASE \E a \in Agents : Act(a)
  BY <1>4, AgentKeeps
<1>5. CASE \E m \in team : RemoveMember(m)
  BY <1>5, RemovalKeeps
<1>6. CASE \E k \in Keys, u \in People : WindowPasses(k, u) \/ CommentAges(k, u)
  BY <1>1, <1>6 DEF WindowPasses, CommentAges
<1>7. CASE UNCHANGED vars
  BY <1>1, <1>7 DEF vars, rows
<1>. QED BY <1>2, <1>3, <1>4, <1>5, <1>6, <1>7 DEF Next

THEOREM Inductive == Spec => []IInv
<1>. QED BY InitIInv, NextIInv, PTL DEF Spec

(* A closed ticket bears its resolution date and an open one does not,     *)
(* save one in progress, however updates, replies and ingest overlap       *)
(* (update, reply, ingest).                                                *)
THEOREM DateFollowsStatus == Spec => []DatedWhenResolved
<1>1. IInv => DatedWhenResolved
  BY DEF IInv, Dated, DatedWhenResolved
<1>. QED BY <1>1, Inductive, PTL

(* A worker reopens the ticket of a post only if it found it waiting, or   *)
(* adopted it when about to create it (ingestEvent, ingest).               *)
LEMMA Reopens ==
  ASSUME IInv, [Next]_vars, NEW k \in Keys, NEW w \in Workers,
         PostKey(k), ticket[k].status \in Closing, ticket'[k].status \notin Closing,
         task[w].at # "idle", task'[w].at = "idle"
  PROVE  task[w].seen = "WAITING" \/ task[w].number > 0
<1> USE DEF rows
<1>1. ticket' # ticket /\ task' # task
  OBVIOUS
<1>2. ASSUME NEW v \in Workers, NEW u, task' = [task EXCEPT ![v] = u] PROVE v = w
  BY <1>2 DEF IInv
<1>3. ASSUME NEW v \in Workers, Work(v) \/ Swallow(v) PROVE TouchTicket(w)
  <2>1. \/ TouchTicket(v)
        \/ /\ CreateTicket(v) /\ task' = [task EXCEPT ![v].at = "duplicate", ![v].seen = "OPEN",
                                                     ![v].created = TRUE]
    BY <1>1, <1>3, Zenon DEF Work, Swallow, Ingest, PickVacantMember, NextNumber, CreateTicket,
                     CheckDuplicate, SaveParticipant, SaveMessage
  <2>2. ~(task' = [task EXCEPT ![v].at = "duplicate", ![v].seen = "OPEN", ![v].created = TRUE])
    <3>1. SUFFICES ASSUME task' = [task EXCEPT ![v].at = "duplicate", ![v].seen = "OPEN",
                                               ![v].created = TRUE]
                   PROVE  FALSE
      OBVIOUS
    <3>2. DOMAIN task[v] = TaskFields /\ v \in DOMAIN task
      BY DEF IInv, LookedUp
    <3>3. PICK u : u = [task[v] EXCEPT !.at = "duplicate", !.seen = "OPEN", !.created = TRUE]
      OBVIOUS
    <3>4. task' = [task EXCEPT ![v] = u]
      BY <3>1, <3>2, <3>3
    <3>5. u.at = "duplicate"
      BY <3>2, <3>3 DEF TaskFields
    <3>6. v = w
      BY <1>2, <3>4
    <3>. QED BY <3>2, <3>4, <3>5, <3>6
  <2>3. v = w
    BY <1>2, <2>1, <2>2 DEF TouchTicket, Done
  <2>. QED BY <2>1, <2>2, <2>3
<1>4. ~(\E v \in Workers, e \in Events : IngestEvent(v, e))
  BY <1>1 DEF IngestEvent
<1>5. ~(\E a \in Agents : Act(a))
  <2> SUFFICES ASSUME NEW a \in Agents, Act(a) PROVE task' = task
    BY <1>1
  <2>1. ASSUME NEW k0 \in Keys, NEW edit, Update(a, k0, edit) PROVE task' = task
    BY <2>1 DEF Update
  <2>2. CASE SaveUpdate(a)
    BY <2>2 DEF SaveUpdate
  <2>3. ASSUME NEW k0 \in Keys, AddNote(a, k0) PROVE task' = task
    BY <2>3 DEF AddNote
  <2>4. ASSUME NEW k0 \in Keys, NEW u \in People, NEW c, Reply(a, k0, u, c) PROVE task' = task
    BY <2>4 DEF Reply
  <2>5. CASE Send(a)
    BY <2>5 DEF Send
  <2>6. CASE MarkPrivate(a)
    BY <2>6 DEF MarkPrivate
  <2>7. CASE Advance(a)
    BY <2>7 DEF Advance
  <2>. QED BY <2>1, <2>2, <2>3, <2>4, <2>5, <2>6, <2>7, Zenon DEF Act
<1>6. TouchTicket(w)
  BY <1>1, <1>3, <1>4, <1>5 DEF Next, WindowPasses, CommentAges, RemoveMember, vars
<1>7. PICK t : t = task[w]
  OBVIOUS
<1>8. /\ t.at = "touch"
      /\ ticket' = IF (~t.created /\ t.seen \in Closing) \/ t.seen = "WAITING"
                     THEN [ticket EXCEPT ![t.key].status = "OPEN", ![t.key].resolved = FALSE]
                     ELSE ticket
  BY <1>6, <1>7 DEF TouchTicket, At
<1>9. CASE t.seen = "WAITING"
  BY <1>7, <1>9
<1>10. CASE t.seen \in Closing /\ t.seen # "WAITING"
  <2>1. t.key = k
    BY <1>1, <1>8, <1>10 DEF IInv
  <2>. QED BY <1>7, <1>8, <1>10, <2>1 DEF IInv, LookedUp
<1>. QED BY <1>1, <1>8, <1>9, <1>10

THEOREM ResolvedPostsStayResolved == Spec => ClosedPostsStayClosed
<1> DEFINE Kept ==
      \A k \in Keys, w \in Workers :
        /\ PostKey(k) /\ ticket[k].status \in Closing /\ ticket'[k].status \notin Closing
        /\ task[w].at # "idle" /\ task'[w].at = "idle"
        => task[w].seen = "WAITING" \/ task[w].number > 0
<1>1. IInv /\ [Next]_vars => Kept
  BY Reopens
<1>2. ([][Kept]_vars) => ClosedPostsStayClosed
  BY DEF ClosedPostsStayClosed
<1> HIDE DEF Kept
<1>. QED BY <1>1, <1>2, Inductive, PTL DEF Spec

-----------------------------------------------------------------------------
(* Which actions write which variable.                                     *)

Worker(w) == Work(w) \/ Swallow(w) \/ \E e \in Events : IngestEvent(w, e)

Clock == \E k \in Keys, u \in People : WindowPasses(k, u) \/ CommentAges(k, u)

LEMMA StepByStep ==
  ASSUME [Next]_vars
  PROVE  \/ \E w \in Workers : Worker(w)
         \/ \E a \in Agents : Act(a)
         \/ Clock
         \/ \E m \in team : RemoveMember(m)
         \/ UNCHANGED vars
BY DEF Next, Worker, Clock

LEMMA WorkerWrites ==
  ASSUME NEW w \in Workers, Worker(w)
  PROVE  /\ UNCHANGED <<team, desk>>
         /\ ticket' = ticket \/ CreateTicket(w) \/ TouchTicket(w)
         /\ newer' = newer \/ CreateTicket(w) \/ TouchTicket(w)
         /\ people' = people \/ SaveParticipant(w)
         /\ inbox' = inbox \/ SaveMessage(w)
         /\ spent' = spent \/ Spend("sync") \/ Spend("fault")
<1> USE DEF rows
<1>1. ASSUME NEW e \in Events, IngestEvent(w, e)
      PROVE  UNCHANGED <<rows, team, desk>> /\ (spent' = spent \/ Spend("sync"))
  BY <1>1 DEF IngestEvent, Available
<1>2. CASE Swallow(w)
  BY <1>2 DEF Swallow
<1>3. CASE Ingest(w)
  BY <1>3 DEF Ingest
<1>4. CASE PickVacantMember(w) \/ NextNumber(w)
  BY <1>4 DEF PickVacantMember, NextNumber
<1>5. CASE CreateTicket(w)
  BY <1>5 DEF CreateTicket
<1>6. CASE CheckDuplicate(w)
  BY <1>6 DEF CheckDuplicate
<1>7. CASE SaveParticipant(w)
  BY <1>7 DEF SaveParticipant
<1>8. CASE SaveMessage(w) \/ TouchTicket(w)
  BY <1>8 DEF SaveMessage, TouchTicket
<1>. QED BY <1>1, <1>2, <1>3, <1>4, <1>5, <1>6, <1>7, <1>8 DEF Worker, Work

LEMMA AgentWrites ==
  ASSUME NEW a \in Agents, Act(a)
  PROVE  /\ UNCHANGED <<team, inbox, fate, cause, task>>
         /\ ticket' = ticket \/ SaveUpdate(a) \/ Advance(a)
         /\ newer' = newer \/ Advance(a) \/ \E k \in Keys : AddNote(a, k)
         /\ people' = people \/ MarkPrivate(a)
         /\ spent' = spent \/ Spend("edit") \/ Spend("reply")
<1> USE DEF rows
<1>1. ASSUME NEW k \in Keys, NEW edit, Update(a, k, edit)
      PROVE  UNCHANGED <<rows, team, fate, cause, task>> /\ Spend("edit")
  BY <1>1 DEF Update
<1>2. CASE SaveUpdate(a)
  BY <1>2 DEF SaveUpdate
<1>3. ASSUME NEW k \in Keys, AddNote(a, k)
      PROVE  UNCHANGED <<ticket, people, team, inbox, fate, cause, task>> /\ Spend("edit")
  BY <1>3 DEF AddNote
<1>4. ASSUME NEW k \in Keys, NEW u \in People, NEW c, Reply(a, k, u, c)
      PROVE  UNCHANGED <<rows, team, fate, cause, task>> /\ Spend("reply")
  BY <1>4, Zenon DEF Reply
<1>5. CASE Send(a)
  BY <1>5 DEF Send
<1>6. CASE MarkPrivate(a)
  BY <1>6 DEF MarkPrivate
<1>7. CASE Advance(a)
  BY <1>7 DEF Advance
<1>8. \/ \E k \in Keys : \E edit : Update(a, k, edit)
      \/ SaveUpdate(a)
      \/ \E k \in Keys : AddNote(a, k)
      \/ \E k \in Keys, u \in People, c \in {"DM", "PUBLIC_REPLY"} : Reply(a, k, u, c)
      \/ Send(a) \/ MarkPrivate(a) \/ Advance(a)
  BY Zenon DEF Act
<1>. QED BY <1>1, <1>2, <1>3, <1>4, <1>5, <1>6, <1>7, <1>8

LEMMA OthersWrite ==
  ASSUME Clock \/ (\E m \in team : RemoveMember(m)) \/ UNCHANGED vars
  PROVE  /\ UNCHANGED <<inbox, newer, fate, task, desk>>
         /\ UNCHANGED <<ticket, team, cause>> \/ \E m \in team : RemoveMember(m)
         /\ people' = people \/ Clock
         /\ spent' = spent \/ Spend("hour") \/ Spend("removal")
<1>1. ASSUME NEW k \in Keys, NEW u \in People, WindowPasses(k, u) \/ CommentAges(k, u)
      PROVE  UNCHANGED <<inbox, newer, fate, cause, task, desk, ticket, team>> /\ Spend("hour")
  BY <1>1 DEF WindowPasses, CommentAges
<1>2. ASSUME NEW m \in team, RemoveMember(m)
      PROVE  UNCHANGED <<inbox, newer, fate, task, desk, people>> /\ Spend("removal")
  BY <1>2 DEF RemoveMember
<1>3. CASE UNCHANGED vars
  BY <1>3 DEF vars, rows
<1>. QED BY <1>1, <1>2, <1>3 DEF Clock

-----------------------------------------------------------------------------
(* Types.  What the steps need beyond TypeOK: a ticket that does not exist *)
(* has no number, and an agent's request is about one that does.           *)

Rows == ticket \in [Keys -> Row] /\ \A k \in Keys : ~Exists(k) => ticket[k].number = 0

Order ==
  /\ newer \subseteq Keys \X Keys
  /\ \A k, l \in Keys : Exists(k) /\ Exists(l) /\ k # l => (<<k, l>> \in newer) # (<<l, k>> \in newer)

Under(t) == t \in Task /\ (t.at # "idle" => t.event \in Events /\ t.key \in Keys)

Tasks == task \in [Workers -> Task] /\ \A w \in Workers : Under(task[w])

Asked(d) ==
  /\ d \in Request
  /\ d.at # "idle" => d.key \in Keys
  /\ d.at = "update" => d.status # "none"

Desks ==
  /\ desk \in [Agents -> Request]
  /\ \A a \in Agents : Asked(desk[a]) /\ (desk[a].at # "idle" => Exists(desk[a].key))

Fates == {"waiting", "taken", "ignored", "closed", "duplicate", "kept", "lost"}

Causes == {"race", "throw", "removal"}

TInv ==
  /\ Rows /\ Order /\ Tasks /\ Desks
  /\ people \in [Keys -> [People -> Participant]]
  /\ inbox \in [Keys -> SUBSET Events]
  /\ team \subseteq Range(Members)
  /\ fate \in [Events -> Fates] /\ cause \in [Events -> SUBSET Causes]
  /\ spent \in [Budget -> Nat]

LEMMA TypesFollow == TInv => TypeOK
BY DEF TInv, TypeOK, Rows, Order, Tasks, Desks, Under, Asked, Fates, Causes

LEMMA Typed == NoTask \in Task /\ NoDesk \in Request /\ NoTicket \in Row /\ Stranger \in Participant
BY DEF NoTask, Task, NoDesk, Request, NoTicket, Row, Stranger, Participant, Statuses, Closing

(* An event that qualifies belongs on a ticket: TargetOf is one of Keys.   *)
LEMMA TargetIsKey ==
  ASSUME TicketsAssumption, NEW e \in Events, Qualifies(e)
  PROVE  TargetOf(e) \in Keys
<1>1. CASE Kind[e] = "comment"
  BY <1>1 DEF TicketsAssumption, TargetOf, CommentKey, Keys
<1>2. CASE Kind[e] = "dm"
  <2>1. PICK u : u = From[e]
    OBVIOUS
  <2>2. u \in Sending("dm")
    BY <1>2, <2>1 DEF Sending
  <2>3. Ongoing(u) = NoKey \/ Ongoing(u) \in Keys
    <3>1. Latest(u) \subseteq Keys
      BY DEF Latest
    <3>. QED BY <3>1 DEF Ongoing
  <2>4. TargetOf(e) = IF Ongoing(u) # NoKey THEN Ongoing(u) ELSE <<"dm", u>>
    BY <1>2, <2>1 DEF TargetOf
  <2>5. <<"dm", u>> \in Keys
    BY <2>2 DEF Keys
  <2>. QED BY <2>3, <2>4, <2>5
<1>3. CASE Kind[e] = "story"
  BY <1>3 DEF TargetOf, Keys, Sending
<1>4. CASE Kind[e] = "referral"
  BY <1>4 DEF TargetOf, Keys, Sending
<1>5. CASE Kind[e] = "tagged"
  BY <1>5 DEF TicketsAssumption, TargetOf, Keys
<1>6. Kind[e] \in {"comment", "dm", "story", "referral", "tagged"}
  BY DEF Qualifies
<1>. QED BY <1>1, <1>2, <1>3, <1>4, <1>5, <1>6

(* Whom pickVacantMember may name.                                         *)
LEMMA VacantIsMember == VacantMember \in team \cup {Nobody}
<1>1. \A i \in Vacant : Members[i] \in team
  BY DEF Vacant
<1>. QED BY <1>1 DEF VacantMember

(* A worker keeps its event and key from the moment it takes the event.    *)
LEMMA TaskKeeps ==
  ASSUME TicketsAssumption, TInv, NEW w \in Workers, Worker(w)
  PROVE  Tasks' /\ fate' \in [Events -> Fates]
<1> USE DEF rows
<1>1. PICK t : t = task[w]
  OBVIOUS
<1>2. Under(t) /\ t \in Task
  BY <1>1 DEF TInv, Tasks, Under
<1>3. ASSUME NEW u, Under(u), task' = [task EXCEPT ![w] = u] PROVE Tasks'
  BY <1>3 DEF TInv, Tasks, Under
<1>4. Under(NoTask)
  BY Typed DEF Under, NoTask
<1>5. ASSUME NEW x \in Fates, Done(w, x) PROVE Tasks' /\ fate' \in [Events -> Fates]
  BY <1>3, <1>4, <1>5 DEF Done, TInv
<1>6. ASSUME UNCHANGED fate PROVE fate' \in [Events -> Fates]
  BY <1>6 DEF TInv
<1>7. ASSUME NEW e \in Events, IngestEvent(w, e) PROVE Tasks' /\ fate' \in [Events -> Fates]
  <2>1. fate' \in [Events -> Fates]
    <3>1. \E x \in {"closed", "ignored", "taken"} : fate' = [fate EXCEPT ![e] = x]
      BY <1>7, Zenon DEF IngestEvent
    <3>. QED BY <3>1 DEF TInv, Fates
  <2>2. CASE task' = task
    BY <2>1, <2>2 DEF TInv, Tasks
  <2>3. CASE task' # task
    <3>1. Qualifies(e) /\ task' = [task EXCEPT ![w] =
                                [NoTask EXCEPT !.at = "find", !.event = e, !.key = TargetOf(e)]]
      BY <1>7, <2>3 DEF IngestEvent
    <3>2. PICK k \in Keys : k = TargetOf(e)
      BY <3>1, TargetIsKey
    <3>3. Under([NoTask EXCEPT !.at = "find", !.event = e, !.key = k])
      BY Typed DEF Under, Task
    <3>. QED BY <1>3, <2>1, <3>1, <3>2, <3>3
  <2>. QED BY <2>2, <2>3
<1>8. CASE Swallow(w)
  <2>1. Done(w, "kept") \/ Done(w, "lost")
    BY <1>8 DEF Swallow
  <2>. QED BY <1>5, <2>1 DEF Fates
<1>9. ticket \in [Keys -> Row] /\ people \in [Keys -> [People -> Participant]]
  BY DEF TInv, Rows
<1>10. CASE Ingest(w)
  <2>1. CASE Done(w, "closed")
    BY <1>5, <2>1 DEF Fates
  <2>2. CASE ~Done(w, "closed")
    <3>1. t.at = "find" /\ t.key \in Keys
      BY <1>1, <1>2, <1>10 DEF Ingest, At, Under
    <3>2. PICK seen \in Statuses \cup {"none"} : seen = ticket[t.key].status
      BY <1>9, <3>1 DEF Row
    <3>3. PICK step \in {"duplicate", "assign", "number"} :
            task' = [task EXCEPT ![w].at = step, ![w].seen = seen] /\ fate' = fate
      BY <1>1, <1>10, <2>2, <3>2 DEF Ingest
    <3>4. Under([t EXCEPT !.at = step, !.seen = seen])
      BY <1>2, <3>1 DEF Under, Task
    <3>5. task' = [task EXCEPT ![w] = [t EXCEPT !.at = step, !.seen = seen]]
      BY <1>1, <3>3 DEF TInv, Tasks
    <3>. QED BY <1>3, <1>6, <3>3, <3>4, <3>5
  <2>. QED BY <2>1, <2>2
<1>11. CASE PickVacantMember(w)
  <2>1. PICK m : m = VacantMember
    OBVIOUS
  <2>2. m \in Range(Members) \cup {Nobody}
    BY <2>1, VacantIsMember DEF TInv
  <2>3. /\ task' = [task EXCEPT ![w] = [t EXCEPT !.at = "number", !.assignee = m]]
        /\ fate' = fate /\ t.at = "assign"
    BY <1>1, <1>11, <2>1 DEF PickVacantMember, At
  <2>4. Under([t EXCEPT !.at = "number", !.assignee = m])
    BY <1>2, <2>2, <2>3 DEF Under, Task
  <2>. QED BY <1>3, <1>6, <2>3, <2>4
<1>12. CASE NextNumber(w)
  <2>1. PICK k \in Keys : task' = [task EXCEPT ![w].at = "create", ![w].number = ticket[k].number + 1]
    BY <1>12 DEF NextNumber
  <2>2. PICK n \in Nat : n = ticket[k].number + 1
    <3>1. ticket[k].number \in Nat
      BY <1>9 DEF Row
    <3>. QED BY <3>1
  <2>3. task' = [task EXCEPT ![w] = [t EXCEPT !.at = "create", !.number = n]]
    BY <1>1, <2>1, <2>2
  <2>4. fate' = fate /\ t.at = "number"
    BY <1>1, <1>12 DEF NextNumber, At
  <2>5. Under([t EXCEPT !.at = "create", !.number = n])
    BY <1>2, <2>2, <2>4 DEF Under, Task
  <2>. QED BY <1>3, <1>6, <2>3, <2>4, <2>5
<1>13. CASE CreateTicket(w)
  <2>1. t.at = "create" /\ t.key \in Keys
    BY <1>1, <1>2, <1>13 DEF CreateTicket, At, Under
  <2>2. PICK seen \in Statuses \cup {"none"} : seen = ticket[t.key].status
    BY <1>9, <2>1 DEF Row
  <2>2a. PICK tries \in Nat : tries = t.tries + 1
    <3>1. t.tries \in Nat
      BY <1>2 DEF Task
    <3>. QED BY <3>1
  <2>3. \/ task' = [task EXCEPT ![w].at = "duplicate", ![w].seen = seen] /\ fate' = fate
        \/ task' = [task EXCEPT ![w].at = "number", ![w].tries = tries] /\ fate' = fate
        \/ Done(w, "lost")
        \/ /\ task' = [task EXCEPT ![w].at = "duplicate", ![w].seen = "OPEN", ![w].created = TRUE]
           /\ fate' = fate
    BY <1>1, <1>13, <2>2, <2>2a, Zenon DEF CreateTicket
  <2>4. Under([t EXCEPT !.at = "duplicate", !.seen = seen])
    BY <1>2, <2>1, <2>2 DEF Under, Task
  <2>5. Under([t EXCEPT !.at = "number", !.tries = tries])
    BY <1>2, <2>1 DEF Under, Task
  <2>6. Under([t EXCEPT !.at = "duplicate", !.seen = "OPEN", !.created = TRUE])
    BY <1>2, <2>1 DEF Under, Task, Statuses
  <2>7. CASE Done(w, "lost")
    BY <1>5, <2>7 DEF Fates
  <2>8. CASE ~Done(w, "lost")
    <3>1. \/ task' = [task EXCEPT ![w] = [t EXCEPT !.at = "duplicate", !.seen = seen]]
          \/ task' = [task EXCEPT ![w] = [t EXCEPT !.at = "number", !.tries = tries]]
          \/ task' = [task EXCEPT ![w] = [t EXCEPT !.at = "duplicate", !.seen = "OPEN", !.created = TRUE]]
      BY <1>1, <2>3, <2>8
    <3>. QED BY <1>3, <1>6, <2>3, <2>4, <2>5, <2>6, <2>8, <3>1
  <2>. QED BY <2>7, <2>8
<1>14. CASE CheckDuplicate(w)
  <2>1. t.at = "duplicate" /\ t.key \in Keys /\ From[t.event] \in People
    BY <1>1, <1>2, <1>14 DEF CheckDuplicate, At, Under, TicketsAssumption
  <2>2. PICK found \in BOOLEAN : found = people[t.key][From[t.event]].on
    BY <1>9, <2>1 DEF Participant
  <2>3. \/ Done(w, "duplicate")
        \/ task' = [task EXCEPT ![w].at = "participant", ![w].found = found] /\ fate' = fate
    BY <1>1, <1>14, <2>2 DEF CheckDuplicate
  <2>4. Under([t EXCEPT !.at = "participant", !.found = found])
    BY <1>2, <2>1 DEF Under, Task
  <2>5. CASE Done(w, "duplicate")
    BY <1>5, <2>5 DEF Fates
  <2>6. CASE ~Done(w, "duplicate")
    <3>1. task' = [task EXCEPT ![w] = [t EXCEPT !.at = "participant", !.found = found]]
      BY <1>1, <2>3, <2>6
    <3>. QED BY <1>3, <1>6, <2>3, <2>4, <2>6, <3>1
  <2>. QED BY <2>5, <2>6
<1>15. CASE SaveParticipant(w) \/ SaveMessage(w)
  <2>1. /\ t.at \in {"participant", "message"}
        /\ Done(w, "lost") \/ (fate' = fate /\ (Go(w, "message") \/ Go(w, "touch")))
    BY <1>1, <1>15 DEF SaveParticipant, SaveMessage, At
  <2>2. CASE Done(w, "lost")
    BY <1>5, <2>2 DEF Fates
  <2>3. ASSUME fate' = fate, NEW step \in {"message", "touch"}, Go(w, step)
        PROVE  Tasks' /\ fate' \in [Events -> Fates]
    <3>1. Under([t EXCEPT !.at = step])
      BY <1>2, <2>1 DEF Under, Task
    <3>2. task' = [task EXCEPT ![w] = [t EXCEPT !.at = step]]
      BY <1>1, <2>3 DEF Go
    <3>. QED BY <1>3, <1>6, <2>3, <3>1, <3>2
  <2>. QED BY <2>1, <2>2, <2>3
<1>16. CASE TouchTicket(w)
  BY <1>5, <1>16 DEF TouchTicket, Fates
<1>. QED BY <1>7, <1>8, <1>10, <1>11, <1>12, <1>13, <1>14, <1>15, <1>16 DEF Worker, Work

(* How a step changes a worker's task from t to u: the worker takes an     *)
(* event nobody has, ends with its event, goes on with it, or stays idle.  *)
Takes(u) ==
  \E e \in Events :
    /\ fate[e] # "taken" /\ fate' = [fate EXCEPT ![e] = "taken"]
    /\ cause' = [cause EXCEPT ![e] = {}]
    /\ u.at = "find" /\ u.event = e /\ u.assignee = Nobody

Ignores(t, u) ==
  /\ u = t
  /\ \E e \in Events, x \in {"closed", "ignored"} :
       fate[e] # "taken" /\ fate' = [fate EXCEPT ![e] = x]

Ends(t, u) ==
  /\ t.at # "idle" /\ u = NoTask
  /\ \E x \in {"closed", "duplicate", "kept", "lost"} : fate' = [fate EXCEPT ![t.event] = x]

GoesOn(t, u) ==
  /\ t.at # "idle" /\ u.at \notin {"idle", "find"}
  /\ u.event = t.event /\ u.key = t.key /\ fate' = fate
  /\ u.at = "participant" => u.found = people[t.key][From[t.event]].on /\ people' = people
  /\ u.at \in {"number", "create"} =>
       \/ t.at \in {"find", "number", "create"} /\ u.assignee = t.assignee
       \/ u.assignee \in team \cup {Nobody}

Remembers == cause' = cause \/ \E what \in Causes : \E es : Befalls(what, es)

Moves(t, u) == Takes(u) \/ (Remembers /\ (Ignores(t, u) \/ Ends(t, u) \/ GoesOn(t, u)))

LEMMA WorkerMoves ==
  ASSUME TicketsAssumption, TInv, NEW w \in Workers, Worker(w)
  PROVE  \E u : task' = [task EXCEPT ![w] = u] /\ Moves(task[w], u)
<1>1. PICK t : t = task[w]
  OBVIOUS
<1>2. t \in Task /\ task \in [Workers -> Task]
  BY <1>1 DEF TInv, Tasks, Under
<1>3. ASSUME NEW u, task' = [task EXCEPT ![w] = u], Moves(t, u)
      PROVE  \E v : task' = [task EXCEPT ![w] = v] /\ Moves(task[w], v)
  BY <1>1, <1>3
<1>4. ASSUME NEW x \in {"closed", "duplicate", "kept", "lost"}, Done(w, x), t.at # "idle", Remembers
      PROVE  \E v : task' = [task EXCEPT ![w] = v] /\ Moves(task[w], v)
  <2>1. Ends(t, NoTask)
    BY <1>1, <1>4 DEF Done, Ends
  <2>. QED BY <1>3, <1>4, <2>1 DEF Done, Moves
<1>5. ASSUME NEW step \in {"message", "touch"}, Go(w, step), t.at # "idle", Remembers, fate' = fate
      PROVE  \E v : task' = [task EXCEPT ![w] = v] /\ Moves(task[w], v)
  <2>1. PICK u : u = [t EXCEPT !.at = step]
    OBVIOUS
  <2>2. u.at = step /\ u.event = t.event /\ u.key = t.key
    BY <1>2, <2>1 DEF Task
  <2>3. task' = [task EXCEPT ![w] = u]
    BY <1>1, <1>5, <2>1 DEF Go
  <2>. QED BY <1>3, <1>5, <2>2, <2>3 DEF Moves, GoesOn
<1>6. ASSUME NEW e \in Events, IngestEvent(w, e)
      PROVE  \E v : task' = [task EXCEPT ![w] = v] /\ Moves(task[w], v)
  <2>1. fate[e] # "taken"
    BY <1>6 DEF IngestEvent, Available
  <2>2. CASE \E x \in {"closed", "ignored"} : fate' = [fate EXCEPT ![e] = x] /\ UNCHANGED <<cause, task>>
    <3>1. Ignores(t, t) /\ Remembers
      BY <2>1, <2>2 DEF Ignores, Remembers
    <3>2. task' = [task EXCEPT ![w] = t]
      BY <1>1, <1>2, <2>2
    <3>. QED BY <1>3, <3>1, <3>2 DEF Moves
  <2>3. CASE /\ task' = [task EXCEPT ![w] = [NoTask EXCEPT !.at = "find", !.event = e, !.key = TargetOf(e)]]
             /\ fate' = [fate EXCEPT ![e] = "taken"] /\ cause' = [cause EXCEPT ![e] = {}]
    <3>1. PICK k : k = TargetOf(e)
      OBVIOUS
    <3>2. PICK u : u = [NoTask EXCEPT !.at = "find", !.event = e, !.key = k]
      OBVIOUS
    <3>3. u.at = "find" /\ u.event = e /\ u.assignee = Nobody
      BY <3>2 DEF NoTask
    <3>. QED BY <1>3, <2>1, <2>3, <3>1, <3>2, <3>3 DEF Moves, Takes
  <2>. QED BY <1>6, <2>2, <2>3, Zenon DEF IngestEvent
<1>7. CASE Swallow(w)
  <2>1. Done(w, "kept") \/ Done(w, "lost")
    BY <1>7 DEF Swallow
  <2>2. Remembers /\ t.at # "idle"
    BY <1>1, <1>7 DEF Swallow, Remembers, Causes, TicketsAssumption
  <2>. QED BY <1>4, <2>1, <2>2
<1>8. CASE Ingest(w)
  <2>1. t.at = "find" /\ Remembers
    BY <1>1, <1>8 DEF Ingest, At, Remembers
  <2>2. CASE Done(w, "closed")
    BY <1>4, <2>1, <2>2
  <2>3. CASE ~Done(w, "closed")
    <3>1. PICK seen : seen = ticket[t.key].status
      OBVIOUS
    <3>2. PICK step \in {"duplicate", "assign", "number"} :
            task' = [task EXCEPT ![w].at = step, ![w].seen = seen] /\ fate' = fate
      BY <1>1, <1>8, <2>3, <3>1 DEF Ingest
    <3>3. PICK u : u = [t EXCEPT !.at = step, !.seen = seen]
      OBVIOUS
    <3>4. u.at = step /\ u.event = t.event /\ u.key = t.key /\ u.assignee = t.assignee
      BY <1>2, <3>3 DEF Task
    <3>5. task' = [task EXCEPT ![w] = u]
      BY <1>1, <3>2, <3>3
    <3>. QED BY <1>3, <2>1, <3>2, <3>4, <3>5 DEF Moves, GoesOn
  <2>. QED BY <2>2, <2>3
<1>9. CASE PickVacantMember(w)
  <2>1. PICK m \in team \cup {Nobody} : m = VacantMember
    BY VacantIsMember
  <2>2. /\ task' = [task EXCEPT ![w].at = "number", ![w].assignee = m]
        /\ fate' = fate /\ t.at = "assign" /\ Remembers
    BY <1>1, <1>9, <2>1 DEF PickVacantMember, At, Remembers
  <2>3. PICK u : u = [t EXCEPT !.at = "number", !.assignee = m]
    OBVIOUS
  <2>4. u.at = "number" /\ u.event = t.event /\ u.key = t.key /\ u.assignee = m
    BY <1>2, <2>3 DEF Task
  <2>5. task' = [task EXCEPT ![w] = u]
    BY <1>1, <2>2, <2>3
  <2>. QED BY <1>3, <2>2, <2>4, <2>5 DEF Moves, GoesOn
<1>10. CASE NextNumber(w)
  <2>1. PICK n : task' = [task EXCEPT ![w].at = "create", ![w].number = n]
    BY <1>10 DEF NextNumber
  <2>2. fate' = fate /\ t.at = "number" /\ Remembers
    BY <1>1, <1>10 DEF NextNumber, At, Remembers
  <2>3. PICK u : u = [t EXCEPT !.at = "create", !.number = n]
    OBVIOUS
  <2>4. u.at = "create" /\ u.event = t.event /\ u.key = t.key /\ u.assignee = t.assignee
    BY <1>2, <2>3 DEF Task
  <2>5. task' = [task EXCEPT ![w] = u]
    BY <1>1, <2>1, <2>3
  <2>. QED BY <1>3, <2>2, <2>4, <2>5 DEF Moves, GoesOn
<1>11. CASE CreateTicket(w)
  <2>1. t.at = "create" /\ Remembers
    BY <1>1, <1>11 DEF CreateTicket, At, Remembers
  <2>2. \/ Done(w, "lost")
        \/ fate' = fate /\ \E seen : task' = [task EXCEPT ![w].at = "duplicate", ![w].seen = seen]
        \/ fate' = fate /\ \E n : task' = [task EXCEPT ![w].at = "number", ![w].tries = n]
        \/ fate' = fate /\ task' = [task EXCEPT ![w].at = "duplicate", ![w].seen = "OPEN", ![w].created = TRUE]
    BY <1>11, Zenon DEF CreateTicket
  <2>3. ASSUME fate' = fate, NEW seen, task' = [task EXCEPT ![w].at = "duplicate", ![w].seen = seen]
        PROVE  \E v : task' = [task EXCEPT ![w] = v] /\ Moves(task[w], v)
    <3>1. PICK u : u = [t EXCEPT !.at = "duplicate", !.seen = seen]
      OBVIOUS
    <3>2. u.at = "duplicate" /\ u.event = t.event /\ u.key = t.key
      BY <1>2, <3>1 DEF Task
    <3>3. task' = [task EXCEPT ![w] = u]
      BY <1>1, <2>3, <3>1
    <3>. QED BY <1>3, <2>1, <2>3, <3>2, <3>3 DEF Moves, GoesOn
  <2>4. ASSUME fate' = fate, NEW n, task' = [task EXCEPT ![w].at = "number", ![w].tries = n]
        PROVE  \E v : task' = [task EXCEPT ![w] = v] /\ Moves(task[w], v)
    <3>1. PICK u : u = [t EXCEPT !.at = "number", !.tries = n]
      OBVIOUS
    <3>2. u.at = "number" /\ u.event = t.event /\ u.key = t.key /\ u.assignee = t.assignee
      BY <1>2, <3>1 DEF Task
    <3>3. task' = [task EXCEPT ![w] = u]
      BY <1>1, <2>4, <3>1
    <3>. QED BY <1>3, <2>1, <2>4, <3>2, <3>3 DEF Moves, GoesOn
  <2>5. ASSUME fate' = fate,
               task' = [task EXCEPT ![w].at = "duplicate", ![w].seen = "OPEN", ![w].created = TRUE]
        PROVE  \E v : task' = [task EXCEPT ![w] = v] /\ Moves(task[w], v)
    <3>1. PICK u : u = [t EXCEPT !.at = "duplicate", !.seen = "OPEN", !.created = TRUE]
      OBVIOUS
    <3>2. u.at = "duplicate" /\ u.event = t.event /\ u.key = t.key
      BY <1>2, <3>1 DEF Task
    <3>3. task' = [task EXCEPT ![w] = u]
      BY <1>1, <2>5, <3>1
    <3>. QED BY <1>3, <2>1, <2>5, <3>2, <3>3 DEF Moves, GoesOn
  <2>6. CASE Done(w, "lost")
    BY <1>4, <2>1, <2>6
  <2>. QED BY <2>2, <2>3, <2>4, <2>5, <2>6
<1>12. CASE CheckDuplicate(w)
  <2>1. t.at = "duplicate" /\ Remembers
    BY <1>1, <1>12 DEF CheckDuplicate, At, Remembers
  <2>2. CASE Done(w, "duplicate")
    BY <1>4, <2>1, <2>2
  <2>3. CASE ~Done(w, "duplicate")
    <3>1. PICK found : found = people[t.key][From[t.event]].on
      OBVIOUS
    <3>2. /\ task' = [task EXCEPT ![w].at = "participant", ![w].found = found]
          /\ fate' = fate /\ people' = people
      BY <1>1, <1>12, <2>3, <3>1 DEF CheckDuplicate, rows
    <3>3. PICK u : u = [t EXCEPT !.at = "participant", !.found = found]
      OBVIOUS
    <3>4. u.at = "participant" /\ u.event = t.event /\ u.key = t.key /\ u.found = found
      BY <1>2, <3>3 DEF Task
    <3>5. task' = [task EXCEPT ![w] = u]
      BY <1>1, <3>2, <3>3
    <3>. QED BY <1>3, <2>1, <3>1, <3>2, <3>4, <3>5 DEF Moves, GoesOn
  <2>. QED BY <2>2, <2>3
<1>13. CASE SaveParticipant(w)
  <2>1. t.at = "participant"
    BY <1>1, <1>13 DEF SaveParticipant, At
  <2>2. \/ Done(w, "lost") /\ cause' = cause
        \/ Go(w, "message") /\ fate' = fate /\ \E es : Befalls("race", es)
    BY <1>13, Zenon DEF SaveParticipant
  <2>3. Remembers
    BY <2>2 DEF Remembers, Causes
  <2>. QED BY <1>4, <1>5, <2>1, <2>2, <2>3
<1>14. CASE SaveMessage(w) \/ TouchTicket(w)
  <2>1. t.at \in {"message", "touch"} /\ Remembers
    BY <1>1, <1>14 DEF SaveMessage, TouchTicket, At, Remembers
  <2>2. Done(w, "kept") \/ (Go(w, "touch") /\ fate' = fate)
    BY <1>14 DEF SaveMessage, TouchTicket
  <2>. QED BY <1>4, <1>5, <2>1, <2>2
<1>. QED BY <1>6, <1>7, <1>8, <1>9, <1>10, <1>11, <1>12, <1>13, <1>14 DEF Worker, Work

(* A ticket that exists stays, under its number.                           *)
Follows(r, old) ==
  /\ r \in Row
  /\ r.status = "none" => r.number = 0
  /\ old.status # "none" => r.status # "none" /\ r.number = old.number

TicketsStay ==
  \A k \in Keys : Exists(k) => ticket'[k].status # "none" /\ ticket'[k].number = ticket[k].number

LEMMA RowsKeep ==
  ASSUME TicketsAssumption, TInv, [Next]_vars
  PROVE  Rows' /\ TicketsStay
<1>1. ASSUME ticket' = ticket PROVE Rows' /\ TicketsStay
  BY <1>1 DEF TInv, Rows, TicketsStay, Exists
<1>2. ASSUME NEW k, NEW r, k \in Keys => Follows(r, ticket[k]), ticket' = [ticket EXCEPT ![k] = r]
      PROVE  Rows' /\ TicketsStay
  <2>1. ticket \in [Keys -> Row] /\ \A o \in Keys : Follows(ticket[o], ticket[o])
    BY DEF TInv, Rows, Follows, Exists
  <2>2. /\ ticket' \in [Keys -> Row]
        /\ \A o \in Keys : Follows(ticket'[o], ticket[o])
    BY <1>2, <2>1 DEF Follows
  <2>. QED BY <2>2 DEF Rows, TicketsStay, Follows, Exists
<1>3. ASSUME NEW w \in Workers, CreateTicket(w) PROVE Rows' /\ TicketsStay
  <2>1. PICK t : t = task[w]
    OBVIOUS
  <2>2. t \in Task /\ t.key \in Keys
    BY <1>3, <2>1 DEF TInv, Tasks, Under, CreateTicket, At
  <2>3. CASE ticket' = ticket
    BY <1>1, <2>3
  <2>4. CASE ticket' # ticket
    <3>1. PICK r : r = [NoTicket EXCEPT !.status = "OPEN", !.number = t.number, !.assignee = t.assignee]
      OBVIOUS
    <3>2. ~Exists(t.key) /\ ticket' = [ticket EXCEPT ![t.key] = r]
      BY <1>3, <2>1, <2>4, <3>1 DEF CreateTicket
    <3>3. t.number \in Nat /\ t.assignee \in Range(Members) \cup {Nobody}
      BY <2>2 DEF Task
    <3>4. r \in Row /\ r.status # "none"
      BY <3>1, <3>3, Typed DEF Row, Statuses
    <3>. QED BY <1>2, <3>2, <3>4 DEF Follows, Exists
  <2>. QED BY <2>3, <2>4
<1>4. ASSUME NEW w \in Workers, TouchTicket(w) PROVE Rows' /\ TicketsStay
  <2>1. PICK k, old : k = task[w].key /\ old = ticket[k]
    OBVIOUS
  <2>2. k \in Keys => old \in Row
    BY <2>1 DEF TInv, Rows
  <2>3. \/ ticket' = ticket
        \/ ticket' = [ticket EXCEPT ![k] = [old EXCEPT !.status = "OPEN", !.resolved = FALSE]]
    BY <1>4, <2>1 DEF TouchTicket
  <2>4. k \in Keys => Follows([old EXCEPT !.status = "OPEN", !.resolved = FALSE], old)
    BY <2>2 DEF Follows, Row, Statuses
  <2>. QED BY <1>1, <1>2, <2>1, <2>3, <2>4
<1>5. ASSUME NEW a \in Agents, SaveUpdate(a) PROVE Rows' /\ TicketsStay
  <2>1. PICK d, k, old : d = desk[a] /\ k = d.key /\ old = ticket[k]
    OBVIOUS
  <2>2. /\ d \in Request /\ d.at = "update" /\ d.status # "none"
        /\ k \in Keys /\ Exists(k) /\ old \in Row
    BY <1>5, <2>1 DEF TInv, Rows, Desks, Asked, SaveUpdate
  <2>3. PICK st, re, as :
          /\ st = (IF d.status \notin {"same", d.seen} THEN d.status ELSE old.status)
          /\ re = (IF d.status \notin {"same", d.seen} THEN d.status \in Closing ELSE old.resolved)
          /\ as = (IF d.assignee = "same" THEN old.assignee ELSE d.assignee)
    OBVIOUS
  <2>4. \/ ticket' = [ticket EXCEPT ![k] = [old EXCEPT !.status = st, !.resolved = re, !.assignee = as]]
           /\ d.assignee \in team \cup {Nobody, "same"}
        \/ ticket' = [ticket EXCEPT ![k] = old]
    BY <1>5, <2>1, <2>3 DEF SaveUpdate
  <2>5. old.status \in Statuses
    BY <2>1, <2>2 DEF Exists, Row
  <2>6. Follows(old, old)
    BY <2>2, <2>5 DEF Follows, Statuses, Closing
  <2>7. ASSUME d.assignee \in team \cup {Nobody, "same"}
        PROVE  Follows([old EXCEPT !.status = st, !.resolved = re, !.assignee = as], old)
    <3>1. st \in Statuses /\ st # "none"
      BY <2>2, <2>3, <2>5 DEF Request, Statuses, Closing
    <3>2. re \in BOOLEAN
      <4>1. old.resolved \in BOOLEAN
        BY <2>2 DEF Row
      <4>2. CASE d.status \notin {"same", d.seen}
        BY <2>3, <4>2
      <4>3. CASE ~(d.status \notin {"same", d.seen})
        BY <2>3, <4>1, <4>3
      <4>. QED BY <4>2, <4>3
    <3>3. as \in Range(Members) \cup {Nobody}
      BY <2>2, <2>3, <2>7 DEF Row, TInv
    <3>. QED BY <2>2, <3>1, <3>2, <3>3 DEF Follows, Row
  <2>. QED BY <1>2, <2>1, <2>4, <2>6, <2>7
<1>6. ASSUME NEW a \in Agents, Advance(a) PROVE Rows' /\ TicketsStay
  <2>1. PICK d, k, old : d = desk[a] /\ k = d.key /\ old = ticket[k]
    OBVIOUS
  <2>2. k \in Keys /\ Exists(k) /\ old \in Row
    BY <1>6, <2>1 DEF TInv, Rows, Desks, Asked, Advance
  <2>3. old.status \in Statuses
    BY <2>1, <2>2 DEF Exists, Row
  <2>4. PICK st : st = (IF d.seen = "OPEN" THEN "IN_PROGRESS" ELSE old.status)
    OBVIOUS
  <2>5. ticket' = [ticket EXCEPT ![k] = [old EXCEPT !.status = st, !.answered = TRUE]]
    BY <1>6, <2>1, <2>4 DEF Advance
  <2>6. st \in Statuses /\ st # "none"
    BY <2>3, <2>4 DEF Statuses, Closing
  <2>7. Follows([old EXCEPT !.status = st, !.answered = TRUE], old)
    BY <2>2, <2>6 DEF Follows, Row
  <2>. QED BY <1>2, <2>1, <2>5, <2>7
<1>7. ASSUME NEW m \in team, RemoveMember(m) PROVE Rows' /\ TicketsStay
  <2>1. ticket' = [k \in Keys |-> IF ticket[k].assignee = m
                                     THEN [ticket[k] EXCEPT !.assignee = Nobody] ELSE ticket[k]]
    BY <1>7 DEF RemoveMember
  <2>2. ASSUME NEW k \in Keys PROVE Follows(ticket'[k], ticket[k])
    <3>1. PICK old \in Row : old = ticket[k] /\ Follows(old, old)
      BY DEF TInv, Rows, Follows, Exists
    <3>2. Follows([old EXCEPT !.assignee = Nobody], old)
      BY <3>1 DEF Follows, Row
    <3>. QED BY <2>1, <3>1, <3>2
  <2>. QED BY <2>1, <2>2 DEF Rows, TicketsStay, Follows, Exists
<1>. QED BY <1>1, <1>3, <1>4, <1>5, <1>6, <1>7, StepByStep, WorkerWrites, AgentWrites, OthersWrite

(* Setting one ticket's activity date keeps the tickets in order.          *)
LEMMA TopOrders ==
  ASSUME TInv, NEW k \in Keys, Top(k),
         \A l \in Keys \ {k} : ticket'[l].status # "none" => Exists(l)
  PROVE  Order'
<1>1. PICK O : O = Others(k)
  OBVIOUS
<1>2. newer' = (newer \cup {k} \X O) \ (O \X {k})
  BY <1>1 DEF Top
<1>3. O \subseteq Keys \ {k}
  BY <1>1 DEF Others
<1>4. newer' \subseteq Keys \X Keys
  BY <1>2, <1>3 DEF TInv, Order
<1>5. ASSUME NEW l \in Keys \ {k}, ticket'[l].status # "none"
      PROVE  <<k, l>> \in newer' /\ <<l, k>> \notin newer'
  <2>1. l \in O
    BY <1>1, <1>5 DEF Others
  <2>. QED BY <1>2, <1>3, <2>1
<1>6. ASSUME NEW l \in Keys \ {k}, NEW m \in Keys \ {k}
      PROVE  <<l, m>> \in newer' <=> <<l, m>> \in newer
  BY <1>2, <1>6
<1>7. ASSUME NEW l \in Keys, NEW m \in Keys, ticket'[l].status # "none", ticket'[m].status # "none", l # m
      PROVE  (<<l, m>> \in newer') # (<<m, l>> \in newer')
  <2>1. CASE l = k \/ m = k
    BY <1>5, <1>7, <2>1
  <2>2. CASE l # k /\ m # k
    <3>1. Exists(l) /\ Exists(m)
      BY <1>7, <2>2
    <3>2. (<<l, m>> \in newer) # (<<m, l>> \in newer)
      BY <1>7, <3>1 DEF TInv, Order
    <3>. QED BY <1>6, <2>2, <3>2
  <2>. QED BY <2>1, <2>2
<1>. QED BY <1>4, <1>7 DEF Order, Exists

LEMMA OrderKeeps ==
  ASSUME TicketsAssumption, TInv, [Next]_vars
  PROVE  Order'
<1>1. ASSUME newer' = newer, \A k \in Keys : ticket'[k].status # "none" => Exists(k)
      PROVE  Order'
  BY <1>1 DEF TInv, Order, Exists
<1>2. ASSUME NEW w \in Workers, CreateTicket(w) \/ TouchTicket(w) PROVE Order'
  <2>1. PICK k : k = task[w].key
    OBVIOUS
  <2>2. k \in Keys
    BY <1>2, <2>1 DEF TInv, Tasks, Under, CreateTicket, TouchTicket, At
  <2>3. ticket' = ticket \/ \E r : ticket' = [ticket EXCEPT ![k] = r]
    BY <1>2, <2>1, Zenon DEF CreateTicket, TouchTicket
  <2>4. Top(k) \/ (newer' = newer /\ ticket' = ticket)
    BY <1>2, <2>1 DEF CreateTicket, TouchTicket
  <2>5. \A l \in Keys \ {k} : ticket'[l].status # "none" => Exists(l)
    BY <2>3 DEF Exists, TInv, Rows
  <2>. QED BY <1>1, <2>2, <2>4, <2>5, TopOrders DEF Exists
<1>3. ASSUME NEW a \in Agents, SaveUpdate(a) PROVE Order'
  <2>1. PICK k : k = desk[a].key
    OBVIOUS
  <2>2. k \in Keys /\ Exists(k)
    BY <1>3, <2>1 DEF TInv, Desks, Asked, SaveUpdate
  <2>3. newer' = newer /\ \E r : ticket' = [ticket EXCEPT ![k] = r]
    BY <1>3, <2>1, Zenon DEF SaveUpdate
  <2>4. \A l \in Keys : ticket'[l].status # "none" => Exists(l)
    BY <2>2, <2>3 DEF Exists, TInv, Rows
  <2>. QED BY <1>1, <2>3, <2>4
<1>4. ASSUME NEW a \in Agents, Advance(a) PROVE Order'
  <2>1. PICK k : k = desk[a].key
    OBVIOUS
  <2>2. k \in Keys /\ Exists(k)
    BY <1>4, <2>1 DEF TInv, Desks, Asked, Advance
  <2>3. Top(k) /\ \E r : ticket' = [ticket EXCEPT ![k] = r]
    BY <1>4, <2>1, Zenon DEF Advance
  <2>4. \A l \in Keys \ {k} : ticket'[l].status # "none" => Exists(l)
    BY <2>3 DEF Exists, TInv, Rows
  <2>. QED BY <2>2, <2>3, <2>4, TopOrders
<1>5. ASSUME NEW a \in Agents, NEW k \in Keys, AddNote(a, k) PROVE Order'
  BY <1>5, TopOrders DEF AddNote, Exists
<1>6. ASSUME NEW m \in team, RemoveMember(m) PROVE Order'
  <2>1. /\ newer' = newer
        /\ ticket' = [k \in Keys |-> IF ticket[k].assignee = m
                                     THEN [ticket[k] EXCEPT !.assignee = Nobody] ELSE ticket[k]]
    BY <1>6 DEF RemoveMember
  <2>2. ASSUME NEW k \in Keys, ticket'[k].status # "none" PROVE Exists(k)
    <3>1. PICK old \in Row : old = ticket[k]
      BY DEF TInv, Rows
    <3>2. [old EXCEPT !.assignee = Nobody].status = old.status
      BY DEF Row
    <3>. QED BY <2>1, <2>2, <3>1, <3>2 DEF Exists
  <2>. QED BY <1>1, <2>1, <2>2
<1>7. CASE UNCHANGED <<newer, ticket>>
  BY <1>1, <1>7 DEF Exists
<1>. QED BY <1>2, <1>3, <1>4, <1>5, <1>6, <1>7, StepByStep, WorkerWrites, AgentWrites, OthersWrite

(* A request under way is about a ticket that exists, and tickets stay.    *)
LEMMA DesksKeep ==
  ASSUME TicketsAssumption, TInv, [Next]_vars
  PROVE  Desks'
<1> USE DEF rows
<1>0. \A k \in Keys : Exists(k) => ticket'[k].status # "none"
  BY RowsKeep DEF TicketsStay
<1>1. ASSUME NEW a \in Agents, NEW d, Asked(d), desk' = [desk EXCEPT ![a] = d],
             d.at # "idle" => Exists(d.key)
      PROVE  Desks'
  <2>1. \A b \in Agents : desk[b].at # "idle" => ticket'[desk[b].key].status # "none"
    BY <1>0 DEF TInv, Desks, Asked
  <2>2. d.at # "idle" => ticket'[d.key].status # "none"
    BY <1>0, <1>1 DEF Asked
  <2>. QED BY <1>1, <2>1, <2>2 DEF TInv, Desks, Asked, Exists
<1>2. CASE desk' = desk
  BY <1>0, <1>2 DEF TInv, Desks, Asked, Exists
<1>3. Asked(NoDesk) /\ NoDesk.at = "idle"
  BY Typed DEF Asked, NoDesk
<1>4. ticket \in [Keys -> Row] /\ people \in [Keys -> [People -> Participant]]
  BY DEF TInv, Rows
<1>5. ASSUME NEW a \in Agents, NEW k \in Keys, NEW s \in Statuses \cup {"same"},
             NEW m \in team \cup {Nobody, "same"},
             Update(a, k, [status |-> s, assignee |-> m])
      PROVE  Desks'
  <2>1. PICK seen \in Statuses \cup {"none"} : seen = ticket[k].status
    BY <1>4 DEF Row
  <2>2. PICK d : d = [NoDesk EXCEPT !.at = "update", !.key = k, !.seen = seen, !.status = s, !.assignee = m]
    OBVIOUS
  <2>3. m \in Range(Members) \cup {Nobody, "same"}
    BY DEF TInv
  <2>4. Asked(d) /\ d.key = k
    BY <2>2, <2>3, Typed DEF Asked, Request, Statuses, Closing
  <2>5. desk' = [desk EXCEPT ![a] = d] /\ Exists(k)
    BY <1>5, <2>1, <2>2 DEF Update
  <2>. QED BY <1>1, <2>4, <2>5
<1>6. ASSUME NEW a \in Agents, NEW k \in Keys, NEW u \in People, NEW c \in {"DM", "PUBLIC_REPLY"},
             Reply(a, k, u, c)
      PROVE  Desks'
  <2>1. PICK seen \in Statuses \cup {"none"} : seen = ticket[k].status
    BY <1>4 DEF Row
  <2>2. PICK mode : mode = (IF c = "PUBLIC_REPLY" THEN c ELSE DmMode(people[k][u], u))
    OBVIOUS
  <2>3. mode \in {"none", "PUBLIC_REPLY", "DM", "HUMAN_AGENT", "PRIVATE_REPLY"}
    BY <2>2, Zenon DEF DmMode
  <2>4. PICK d : d = [NoDesk EXCEPT !.at = "send", !.key = k, !.person = u, !.seen = seen, !.mode = mode]
    OBVIOUS
  <2>5. Asked(d) /\ d.key = k
    BY <2>3, <2>4, Typed DEF Asked, Request
  <2>6. desk' = [desk EXCEPT ![a] = d] /\ Exists(k)
    BY <1>6, <2>1, <2>2, <2>4 DEF Reply
  <2>. QED BY <1>1, <2>5, <2>6
<1>7. ASSUME NEW a \in Agents, SaveUpdate(a) \/ Advance(a) PROVE Desks'
  BY <1>1, <1>3, <1>7 DEF SaveUpdate, Advance
<1>8. ASSUME NEW a \in Agents, Send(a) \/ MarkPrivate(a) PROVE Desks'
  <2>1. PICK d : d = desk[a]
    OBVIOUS
  <2>2. Asked(d) /\ d.at \in {"send", "private"} /\ d.key \in Keys /\ Exists(d.key)
    BY <1>8, <2>1 DEF TInv, Desks, Asked, Send, MarkPrivate
  <2>3. \/ desk' = [desk EXCEPT ![a] = NoDesk]
        \/ \E step \in {"private", "advance"} : desk' = [desk EXCEPT ![a] = [d EXCEPT !.at = step]]
    BY <1>8, <2>1, Zenon DEF Send, MarkPrivate
  <2>4. ASSUME NEW step \in {"private", "advance"}
        PROVE  Asked([d EXCEPT !.at = step]) /\ [d EXCEPT !.at = step].key = d.key
    BY <2>2 DEF Asked, Request
  <2>. QED BY <1>1, <1>3, <2>2, <2>3, <2>4
<1>9. ASSUME NEW a \in Agents, NEW k \in Keys, AddNote(a, k) PROVE Desks'
  BY <1>2, <1>9 DEF AddNote
<1>10. ASSUME NEW a \in Agents, Act(a) PROVE Desks'
  <2>1. \/ \E k \in Keys, s \in StatusEdits : Update(a, k, [status |-> s, assignee |-> "same"])
        \/ \E k \in Keys, m \in team \cup {Nobody} :
             Update(a, k, [status |-> "same", assignee |-> m])
        \/ SaveUpdate(a) \/ Advance(a) \/ Send(a) \/ MarkPrivate(a)
        \/ \E k \in Keys : AddNote(a, k)
        \/ \E k \in Keys, u \in People, c \in {"DM", "PUBLIC_REPLY"} : Reply(a, k, u, c)
    BY <1>10, Zenon DEF Act
  <2>2. StatusEdits \subseteq Statuses
    BY DEF TicketsAssumption
  <2>3. ASSUME NEW k \in Keys, NEW s \in StatusEdits, Update(a, k, [status |-> s, assignee |-> "same"])
        PROVE  Desks'
    BY <1>5, <2>2, <2>3
  <2>4. ASSUME NEW k \in Keys, NEW m \in team \cup {Nobody},
               Update(a, k, [status |-> "same", assignee |-> m])
        PROVE  Desks'
    BY <1>5, <2>4
  <2>5. CASE SaveUpdate(a) \/ Advance(a) \/ Send(a) \/ MarkPrivate(a)
    BY <1>7, <1>8, <2>5
  <2>6. CASE \E k \in Keys : AddNote(a, k)
    BY <1>9, <2>6
  <2>7. CASE \E k \in Keys, u \in People, c \in {"DM", "PUBLIC_REPLY"} : Reply(a, k, u, c)
    BY <1>6, <2>7
  <2>8. CASE \E k \in Keys, s \in StatusEdits : Update(a, k, [status |-> s, assignee |-> "same"])
    BY <2>3, <2>8
  <2>9. CASE \E k \in Keys, m \in team \cup {Nobody} :
               Update(a, k, [status |-> "same", assignee |-> m])
    BY <2>4, <2>9
  <2>. QED BY <2>1, <2>5, <2>6, <2>7, <2>8, <2>9, Zenon
<1>. QED BY <1>2, <1>10, StepByStep, WorkerWrites, OthersWrite

(* A participant stays on a ticket.                                        *)
PeopleStay == \A k \in Keys, u \in People : people[k][u].on => people'[k][u].on

LEMMA PeopleKeep ==
  ASSUME TicketsAssumption, TInv, [Next]_vars
  PROVE  people' \in [Keys -> [People -> Participant]] /\ PeopleStay
<1>0. people \in [Keys -> [People -> Participant]]
  BY DEF TInv
<1>1. CASE people' = people
  BY <1>0, <1>1 DEF PeopleStay
<1>2. ASSUME NEW k, NEW u, NEW p, people' = [people EXCEPT ![k] = [people[k] EXCEPT ![u] = p]],
             k \in Keys /\ u \in People => p \in Participant /\ (people[k][u].on => p.on)
      PROVE  people' \in [Keys -> [People -> Participant]] /\ PeopleStay
  <2>1. CASE k \notin Keys
    BY <1>0, <1>1, <1>2, <2>1
  <2>2. CASE k \in Keys
    <3>1. PICK f : f = [people[k] EXCEPT ![u] = p]
      OBVIOUS
    <3>2. f \in [People -> Participant] /\ \A v \in People : people[k][v].on => f[v].on
      <4>1. people[k] \in [People -> Participant]
        BY <1>0, <2>2
      <4>2. CASE u \in People
        BY <1>2, <2>2, <3>1, <4>1, <4>2
      <4>3. CASE u \notin People
        BY <3>1, <4>1, <4>3
      <4>. QED BY <4>2, <4>3
    <3>3. people' = [people EXCEPT ![k] = f]
      BY <1>2, <3>1
    <3>. QED BY <1>0, <3>2, <3>3 DEF PeopleStay
  <2>. QED BY <2>1, <2>2
<1>3. ASSUME NEW w \in Workers, SaveParticipant(w), people' # people
      PROVE  people' \in [Keys -> [People -> Participant]] /\ PeopleStay
  <2>1. PICK t, k, e, u : t = task[w] /\ k = t.key /\ e = t.event /\ u = From[e]
    OBVIOUS
  <2>2. k \in Keys /\ e \in Events /\ u \in People
    BY <1>3, <2>1 DEF TInv, Tasks, Under, SaveParticipant, At, TicketsAssumption
  <2>3. PICK p \in Participant : p = people[k][u]
    BY <1>0, <2>2
  <2>4. PICK q : q = Noted(p, e)
    OBVIOUS
  <2>5. q \in Participant /\ q.on
    <3>1. \/ q = [p EXCEPT !.on = TRUE]
          \/ q = [[p EXCEPT !.on = TRUE] EXCEPT !.comment = e, !.fresh = TRUE]
          \/ q = [[p EXCEPT !.on = TRUE] EXCEPT !.window = "day"]
      BY <2>4, Zenon DEF Noted
    <3>. QED BY <2>2, <2>3, <3>1 DEF Participant
  <2>6. people' = [people EXCEPT ![k] = [people[k] EXCEPT ![u] = q]]
    BY <1>3, <2>1, <2>3, <2>4 DEF SaveParticipant
  <2>. QED BY <1>2, <2>5, <2>6
<1>4. ASSUME NEW a \in Agents, MarkPrivate(a)
      PROVE  people' \in [Keys -> [People -> Participant]] /\ PeopleStay
  <2>1. PICK k, u, p : k = desk[a].key /\ u = desk[a].person /\ p = people[k][u]
    OBVIOUS
  <2>2. people' = [people EXCEPT ![k] = [people[k] EXCEPT ![u] = [p EXCEPT !.private = TRUE]]]
    BY <1>4, <2>1 DEF MarkPrivate
  <2>3. ASSUME k \in Keys, u \in People
        PROVE  [p EXCEPT !.private = TRUE] \in Participant /\ [p EXCEPT !.private = TRUE].on = p.on
    <3>1. p \in Participant
      BY <1>0, <2>1, <2>3
    <3>. QED BY <3>1 DEF Participant
  <2>. QED BY <1>2, <2>1, <2>2, <2>3
<1>5. ASSUME NEW k \in Keys, NEW u \in People, WindowPasses(k, u) \/ CommentAges(k, u)
      PROVE  people' \in [Keys -> [People -> Participant]] /\ PeopleStay
  <2>1. PICK p \in Participant : p = people[k][u]
    BY <1>0
  <2>2. PICK q : /\ people' = [people EXCEPT ![k] = [people[k] EXCEPT ![u] = q]]
                 /\ \/ \E age \in {"week", "over"} : q = [p EXCEPT !.window = age]
                    \/ q = [p EXCEPT !.fresh = FALSE]
    <3>1. CASE WindowPasses(k, u)
      <4>1. PICK age \in {"week", "over"} : age = IF p.window = "day" THEN "week" ELSE "over"
        OBVIOUS
      <4>2. people' = [people EXCEPT ![k] = [people[k] EXCEPT ![u] = [p EXCEPT !.window = age]]]
        BY <2>1, <3>1, <4>1 DEF WindowPasses
      <4>. QED BY <4>2
    <3>2. CASE CommentAges(k, u)
      BY <2>1, <3>2 DEF CommentAges
    <3>. QED BY <1>5, <3>1, <3>2
  <2>3. q \in Participant /\ q.on = p.on
    BY <2>1, <2>2 DEF Participant
  <2>. QED BY <1>2, <2>1, <2>2, <2>3
<1>. QED BY <1>1, <1>3, <1>4, <1>5, StepByStep, WorkerWrites, AgentWrites, OthersWrite DEF Clock

LEMMA SpentKeeps ==
  ASSUME TInv, [Next]_vars
  PROVE  spent' \in [Budget -> Nat]
<1>1. spent \in [Budget -> Nat]
  BY DEF TInv
<1>2. ASSUME NEW b, Spend(b) PROVE spent' \in [Budget -> Nat]
  <2>1. spent' = [spent EXCEPT ![b] = spent[b] + 1]
    BY <1>2 DEF Spend
  <2>2. CASE b \in Budget
    <3>1. PICK n \in Nat : n = spent[b]
      BY <1>1, <2>2
    <3>2. n + 1 \in Nat
      OBVIOUS
    <3>. QED BY <1>1, <2>1, <3>1, <3>2
  <2>3. CASE b \notin Budget
    BY <1>1, <2>1, <2>3
  <2>. QED BY <2>2, <2>3
<1>3. ASSUME spent' = spent PROVE spent' \in [Budget -> Nat]
  BY <1>1, <1>3
<1>. QED BY <1>2, <1>3, StepByStep, WorkerWrites, AgentWrites, OthersWrite

(* What befalls an event is remembered until it is taken again.            *)
LEMMA CauseTyped == ASSUME TicketsAssumption, TInv, [Next]_vars PROVE cause' \in [Events -> SUBSET Causes]
<1>0. cause \in [Events -> SUBSET Causes]
  BY DEF TInv
<1>1. ASSUME NEW what \in Causes, NEW es, Befalls(what, es)
      PROVE  cause' \in [Events -> SUBSET Causes]
  BY <1>0, <1>1 DEF Befalls
<1>2. ASSUME NEW w \in Workers, Worker(w) PROVE cause' \in [Events -> SUBSET Causes]
  <2>1. Remembers \/ \E e \in Events : cause' = [cause EXCEPT ![e] = {}]
    BY <1>2, WorkerMoves DEF Moves, Takes
  <2>. QED BY <1>0, <1>1, <2>1 DEF Remembers
<1>3. ASSUME NEW m \in team, RemoveMember(m) PROVE cause' \in [Events -> SUBSET Causes]
  BY <1>1, <1>3, Zenon DEF RemoveMember, Causes
<1>. QED BY <1>0, <1>2, <1>3, StepByStep, AgentWrites, OthersWrite

LEMMA TypesStep == TicketsAssumption /\ TInv /\ [Next]_vars => TInv'
<1> SUFFICES ASSUME TicketsAssumption, TInv, [Next]_vars PROVE TInv'
  OBVIOUS
<1>1. Tasks' /\ fate' \in [Events -> Fates]
  <2>1. ASSUME UNCHANGED <<fate, task>> PROVE Tasks' /\ fate' \in [Events -> Fates]
    BY <2>1 DEF TInv, Tasks
  <2>. QED BY <2>1, TaskKeeps, StepByStep, AgentWrites, OthersWrite
<1>2. inbox' \in [Keys -> SUBSET Events]
  <2>1. ASSUME NEW w \in Workers, SaveMessage(w) PROVE inbox' \in [Keys -> SUBSET Events]
    <3>1. PICK k, e : k = task[w].key /\ e = task[w].event
      OBVIOUS
    <3>2. e \in Events
      BY <2>1, <3>1 DEF TInv, Tasks, Under, SaveMessage, At
    <3>3. inbox' = [inbox EXCEPT ![k] = inbox[k] \cup {e}]
      BY <2>1, <3>1 DEF SaveMessage
    <3>. QED BY <3>2, <3>3 DEF TInv
  <2>2. inbox \in [Keys -> SUBSET Events]
    BY DEF TInv
  <2>. QED BY <2>1, <2>2, StepByStep, WorkerWrites, AgentWrites, OthersWrite
<1>3. team' \subseteq Range(Members)
  <2>1. team' \subseteq team
    BY StepByStep, WorkerWrites, AgentWrites, OthersWrite DEF RemoveMember
  <2>. QED BY <2>1 DEF TInv
<1>4. cause' \in [Events -> SUBSET Causes]
  BY CauseTyped
<1>. QED BY <1>1, <1>2, <1>3, <1>4, RowsKeep, OrderKeeps, DesksKeep, PeopleKeep, SpentKeeps DEF TInv

LEMMA TypesInit == Init => TInv
<1> SUFFICES ASSUME Init PROVE TInv
  OBVIOUS
<1>1. Rows /\ \A k \in Keys : ~Exists(k)
  BY Typed DEF Init, Rows, Exists, NoTicket
<1>2. Order
  BY <1>1 DEF Init, Order
<1>3. Tasks /\ Desks
  BY Typed DEF Init, Tasks, Under, NoTask, Desks, Asked, NoDesk
<1>4. people \in [Keys -> [People -> Participant]]
  BY Typed DEF Init
<1>. QED BY <1>1, <1>2, <1>3, <1>4 DEF Init, TInv, Fates

THEOREM TypesInvariant == Spec => []TInv
<1>. QED BY TypesInit, TypesStep, TicketsAssumption, PTL DEF Spec

(* Tickets, participants, messages and the requests and tasks under way    *)
(* keep their types; any two tickets are in order of activity; a worker    *)
(* under way has an event and a key (ingest, update, reply).               *)
THEOREM TicketTypes == Spec => []TypeOK
<1>. QED BY TypesInvariant, TypesFollow, PTL

-----------------------------------------------------------------------------
(* What an event may be lost to.  Every attempt at a number fails because  *)
(* another worker took it, so the next number is higher: the attempts made *)
(* never exceed the highest number there is.                               *)

Allotted(t, tickets) ==
  /\ t.at \in {"find", "assign"} => t.tries = 0
  /\ t.at = "number" => \E k \in Keys : tickets[k].number >= t.tries
  /\ t.at = "create" => t.tries < t.number

\* Numbers have come so far that all tries could fail.
Crowded == \E k \in Keys : ticket[k].number >= MaxNumberTries

(* A lost event had a call fail or its assignee removed, or met another    *)
(* worker's create of its sender's row, or belongs to a workspace whose    *)
(* numbers have reached the number of tries (createTicket, ingest).        *)
LostForACause ==
  \A e \in Events :
    fate[e] = "lost" =>
      \/ cause[e] \cap {"throw", "removal"} # {}
      \/ "race" \in cause[e] /\ From[e] \in Reachable
      \/ Crowded

\* A worker under way has an event of its own.
OneEach ==
  /\ \A w \in Workers : task[w].at # "idle" => fate[task[w].event] = "taken"
  /\ \A v, w \in Workers :
       v # w /\ task[v].at # "idle" /\ task[w].at # "idle" => task[v].event # task[w].event

\* Whose create of a participant's row must fail was overtaken by another.
Passed(t) ==
  /\ t.at = "participant" /\ ~t.found /\ From[t.event] \in Reachable
  /\ people[t.key][From[t.event]].on

RaceSeen == \A w \in Workers : Passed(task[w]) => "race" \in cause[task[w].event]

\* Whoever a worker is to assign is of the team or was removed meanwhile.
Assigning(t) == t.at \in {"number", "create"} /\ t.assignee \notin team \cup {Nobody}

RemovalSeen ==
  \A w \in Workers : /\ task[w].at = "find" => task[w].assignee = Nobody
                     /\ Assigning(task[w]) => "removal" \in cause[task[w].event]

LInv ==
  /\ TInv
  /\ \A w \in Workers : Allotted(task[w], ticket)
  /\ OneEach /\ RaceSeen /\ RemovalSeen
  /\ LostForACause

LEMMA NumbersStay ==
  ASSUME TicketsAssumption, TInv, [Next]_vars
  PROVE  \A k \in Keys : /\ ticket[k].number \in Nat /\ ticket'[k].number \in Nat
                         /\ ticket[k].number <= ticket'[k].number
<1>1. \A k \in Keys : /\ ticket[k].number \in Nat /\ ticket'[k].number \in Nat
                      /\ ticket[k].number = 0 \/ ticket'[k].number = ticket[k].number
  BY RowsKeep DEF TInv, Rows, TicketsStay, Row
<1>. QED BY <1>1

LEMMA AllottedSteps ==
  ASSUME TicketsAssumption, LInv, [Next]_vars, NEW w \in Workers, Worker(w)
  PROVE  \A v \in Workers : Allotted(task'[v], ticket')
<1> USE DEF rows
<1>1. PICK t : t = task[w]
  OBVIOUS
<1>2. t \in Task /\ (t.at # "idle" => t.event \in Events /\ t.key \in Keys) /\ Allotted(t, ticket)
  BY <1>1 DEF LInv, TInv, Tasks, Under
<1>3. \A k \in Keys : /\ ticket[k].number \in Nat /\ ticket'[k].number \in Nat
                      /\ ticket[k].number <= ticket'[k].number
  BY NumbersStay DEF LInv
<1>4. ASSUME NEW u, u \in Task, Allotted(u, ticket) PROVE Allotted(u, ticket')
  <2>1. PICK n \in Nat : n = u.tries
    BY <1>4 DEF Task
  <2>2. (\E k \in Keys : ticket[k].number >= n) => \E k \in Keys : ticket'[k].number >= n
    BY <1>3
  <2>. QED BY <1>4, <2>1, <2>2 DEF Allotted
<1>5. task \in [Workers -> Task] /\ \A v \in Workers : Allotted(task[v], ticket')
  BY <1>4 DEF LInv, TInv, Tasks
<1>6. ASSUME NEW u, u \in Task, Allotted(u, ticket), task' = [task EXCEPT ![w] = u]
      PROVE  \A v \in Workers : Allotted(task'[v], ticket')
  <2>1. Allotted(u, ticket')
    BY <1>4, <1>6
  <2>. QED BY <1>5, <1>6, <2>1 DEF Allotted
<1>7. ASSUME NEW u, u.at \notin {"find", "assign", "number", "create"}, task' = [task EXCEPT ![w] = u]
      PROVE  \A v \in Workers : Allotted(task'[v], ticket')
  BY <1>5, <1>7 DEF Allotted
<1>8. ASSUME UNCHANGED task PROVE \A v \in Workers : Allotted(task'[v], ticket')
  BY <1>5, <1>8 DEF Allotted
<1>9. ASSUME NEW x, Done(w, x) PROVE \A v \in Workers : Allotted(task'[v], ticket')
  BY <1>7, <1>9 DEF Done, NoTask
<1>10. ASSUME NEW e \in Events, IngestEvent(w, e) PROVE \A v \in Workers : Allotted(task'[v], ticket')
  <2>1. CASE task' = task
    BY <1>8, <2>1
  <2>2. CASE task' # task
    <3>1. Qualifies(e) /\ task' = [task EXCEPT ![w] =
                                [NoTask EXCEPT !.at = "find", !.event = e, !.key = TargetOf(e)]]
      BY <1>10, <2>2 DEF IngestEvent
    <3>2. PICK k \in Keys : k = TargetOf(e)
      BY <3>1, TargetIsKey
    <3>3. PICK u : u = [NoTask EXCEPT !.at = "find", !.event = e, !.key = k]
      OBVIOUS
    <3>4. u \in Task /\ u.at = "find" /\ u.tries = 0
      BY <3>3 DEF Task, NoTask, Statuses
    <3>. QED BY <1>6, <3>1, <3>2, <3>3, <3>4 DEF Allotted
  <2>. QED BY <2>1, <2>2
<1>11. CASE Swallow(w)
  BY <1>9, <1>11 DEF Swallow
<1>12. CASE Ingest(w)
  <2>1. CASE Done(w, "closed")
    BY <1>9, <2>1
  <2>2. CASE ~Done(w, "closed")
    <3>1. t.at = "find" /\ t.key \in Keys /\ t.tries = 0
      BY <1>1, <1>2, <1>12 DEF Ingest, At, Allotted
    <3>2. PICK seen \in Statuses \cup {"none"} : seen = ticket[t.key].status
      BY <3>1 DEF LInv, TInv, Rows, Row
    <3>3. PICK step \in {"duplicate", "assign", "number"} :
            task' = [task EXCEPT ![w].at = step, ![w].seen = seen]
      BY <1>1, <1>12, <2>2, <3>2 DEF Ingest
    <3>4. PICK u : u = [t EXCEPT !.at = step, !.seen = seen]
      OBVIOUS
    <3>5. u \in Task /\ u.at = step /\ u.tries = 0
      BY <1>2, <3>1, <3>4 DEF Task
    <3>6. task' = [task EXCEPT ![w] = u]
      BY <1>1, <1>5, <3>3, <3>4
    <3>7. \E k \in Keys : ticket[k].number >= 0
      BY <1>3, <3>1
    <3>. QED BY <1>6, <3>5, <3>6, <3>7 DEF Allotted
  <2>. QED BY <2>1, <2>2
<1>13. CASE PickVacantMember(w)
  <2>1. PICK m : m = VacantMember
    OBVIOUS
  <2>2. m \in Range(Members) \cup {Nobody}
    BY <2>1, VacantIsMember DEF LInv, TInv
  <2>3. PICK u : u = [t EXCEPT !.at = "number", !.assignee = m]
    OBVIOUS
  <2>4. task' = [task EXCEPT ![w] = u] /\ t.at = "assign"
    BY <1>1, <1>13, <2>1, <2>3 DEF PickVacantMember, At
  <2>5. t.tries = 0 /\ t.key \in Keys
    BY <1>2, <2>4 DEF Allotted
  <2>6. u \in Task /\ u.at = "number" /\ u.tries = 0
    BY <1>2, <2>2, <2>3, <2>5 DEF Task
  <2>7. \E k \in Keys : ticket[k].number >= 0
    BY <1>3, <2>5
  <2>. QED BY <1>6, <2>4, <2>6, <2>7 DEF Allotted
<1>14. CASE NextNumber(w)
  <2>1. PICK k \in Keys :
          /\ \A o \in Keys : ticket[o].number <= ticket[k].number
          /\ task' = [task EXCEPT ![w].at = "create", ![w].number = ticket[k].number + 1]
    <3>1. PICK last \in {ticket[k].number : k \in Keys} :
            /\ \A o \in Keys : ticket[o].number <= last
            /\ task' = [task EXCEPT ![w].at = "create", ![w].number = last + 1]
      BY <1>14, Zenon DEF NextNumber
    <3>2. PICK k \in Keys : last = ticket[k].number
      OBVIOUS
    <3>. QED BY <3>1, <3>2, Zenon
  <2>2. t.at = "number"
    BY <1>1, <1>14 DEF NextNumber, At
  <2>3. PICK n \in Nat, tries \in Nat : n = ticket[k].number + 1 /\ tries = t.tries /\ tries < n
    <3>1. t.tries \in Nat
      BY <1>2 DEF Task
    <3>2. \E o \in Keys : ticket[o].number >= t.tries
      BY <1>2, <2>2 DEF Allotted
    <3>. QED BY <1>3, <2>1, <3>1, <3>2
  <2>4. PICK u : u = [t EXCEPT !.at = "create", !.number = n]
    OBVIOUS
  <2>5. u \in Task /\ u.at = "create" /\ u.number = n /\ u.tries = tries
    BY <1>2, <2>3, <2>4 DEF Task
  <2>6. task' = [task EXCEPT ![w] = u]
    BY <1>1, <2>1, <2>3, <2>4
  <2>. QED BY <1>6, <2>3, <2>5, <2>6 DEF Allotted
<1>15. CASE CreateTicket(w)
  <2>1. t.at = "create" /\ t.tries < t.number
    BY <1>1, <1>2, <1>15 DEF CreateTicket, At, Allotted
  <2>2. t.tries \in Nat /\ t.number \in Nat
    BY <1>2 DEF Task
  <2>3. PICK tries \in Nat : tries = t.tries + 1
    BY <2>2
  <2>4. \/ Done(w, "lost")
        \/ \E seen : task' = [task EXCEPT ![w].at = "duplicate", ![w].seen = seen]
        \/ /\ task' = [task EXCEPT ![w].at = "number", ![w].tries = tries]
           /\ \E k \in Keys : ticket[k].number = t.number
        \/ task' = [task EXCEPT ![w].at = "duplicate", ![w].seen = "OPEN", ![w].created = TRUE]
    BY <1>1, <1>15, <2>3, Zenon DEF CreateTicket
  <2>5. CASE \E seen : task' = [task EXCEPT ![w].at = "duplicate", ![w].seen = seen]
    <3>1. PICK seen : task' = [task EXCEPT ![w].at = "duplicate", ![w].seen = seen]
      BY <2>5
    <3>2. PICK u : u = [t EXCEPT !.at = "duplicate", !.seen = seen]
      OBVIOUS
    <3>3. u.at = "duplicate"
      BY <1>2, <3>2 DEF Task
    <3>4. task' = [task EXCEPT ![w] = u]
      BY <1>1, <3>1, <3>2
    <3>. QED BY <1>7, <3>3, <3>4
  <2>6. CASE task' = [task EXCEPT ![w].at = "duplicate", ![w].seen = "OPEN", ![w].created = TRUE]
    <3>1. PICK u : u = [t EXCEPT !.at = "duplicate", !.seen = "OPEN", !.created = TRUE]
      OBVIOUS
    <3>2. u.at = "duplicate"
      BY <1>2, <3>1 DEF Task
    <3>3. task' = [task EXCEPT ![w] = u]
      BY <1>1, <2>6, <3>1
    <3>. QED BY <1>7, <3>2, <3>3
  <2>7. CASE /\ task' = [task EXCEPT ![w].at = "number", ![w].tries = tries]
             /\ \E k \in Keys : ticket[k].number = t.number
    <3>1. PICK u : u = [t EXCEPT !.at = "number", !.tries = tries]
      OBVIOUS
    <3>2. u \in Task /\ u.at = "number" /\ u.tries = tries
      BY <1>2, <3>1 DEF Task
    <3>3. task' = [task EXCEPT ![w] = u]
      BY <1>1, <2>7, <3>1
    <3>4. \E k \in Keys : ticket[k].number >= tries
      BY <1>3, <2>1, <2>2, <2>3, <2>7
    <3>. QED BY <1>6, <3>2, <3>3, <3>4 DEF Allotted
  <2>. QED BY <1>9, <2>4, <2>5, <2>6, <2>7
<1>16. CASE CheckDuplicate(w)
  <2>1. CASE Done(w, "duplicate")
    BY <1>9, <2>1
  <2>2. CASE ~Done(w, "duplicate")
    <3>1. PICK found : task' = [task EXCEPT ![w].at = "participant", ![w].found = found]
      BY <1>16, <2>2 DEF CheckDuplicate
    <3>2. PICK u : u = [t EXCEPT !.at = "participant", !.found = found]
      OBVIOUS
    <3>3. u.at = "participant"
      BY <1>2, <3>2 DEF Task
    <3>4. task' = [task EXCEPT ![w] = u]
      BY <1>1, <3>1, <3>2
    <3>. QED BY <1>7, <3>3, <3>4
  <2>. QED BY <2>1, <2>2
<1>17. CASE SaveParticipant(w) \/ SaveMessage(w)
  <2>1. ASSUME NEW step \in {"message", "touch"}, Go(w, step)
        PROVE  \A v \in Workers : Allotted(task'[v], ticket')
    <3>1. PICK u : u = [t EXCEPT !.at = step]
      OBVIOUS
    <3>2. u.at = step /\ task' = [task EXCEPT ![w] = u]
      BY <1>1, <1>2, <2>1, <3>1 DEF Task, Go
    <3>. QED BY <1>7, <3>2
  <2>2. Done(w, "lost") \/ Go(w, "message") \/ Go(w, "touch")
    BY <1>17 DEF SaveParticipant, SaveMessage
  <2>. QED BY <1>9, <2>1, <2>2
<1>18. CASE TouchTicket(w)
  BY <1>9, <1>18 DEF TouchTicket
<1>. QED BY <1>10, <1>11, <1>12, <1>13, <1>14, <1>15, <1>16, <1>17, <1>18 DEF Worker, Work

(* The steps that lose an event.                                           *)
LEMMA LosingSteps ==
  ASSUME TicketsAssumption, TInv, [Next]_vars, NEW e \in Events, fate[e] # "lost", fate'[e] = "lost"
  PROVE  \E w \in Workers :
           /\ task[w].event = e
           /\ \/ Swallow(w)
              \/ CreateTicket(w) /\ Done(w, "lost")
              \/ SaveParticipant(w) /\ Done(w, "lost")
<1> USE DEF rows
<1>1. fate \in [Events -> Fates]
  BY DEF TInv
<1>2. PICK w \in Workers : Worker(w)
  BY StepByStep, AgentWrites, OthersWrite
<1>3. ASSUME NEW x, x # "lost" PROVE ~Done(w, x)
  BY <1>1, <1>3 DEF Done
<1>4. ~(\E f \in Events : IngestEvent(w, f))
  <2>1. ASSUME NEW f \in Events, IngestEvent(w, f) PROVE FALSE
    <3>1. \E x \in {"closed", "ignored", "taken"} : fate' = [fate EXCEPT ![f] = x]
      BY <2>1, Zenon DEF IngestEvent
    <3>. QED BY <1>1, <3>1
  <2>. QED BY <2>1
<1>5. fate' # fate
  OBVIOUS
<1>6. ~Ingest(w) /\ ~PickVacantMember(w) /\ ~NextNumber(w) /\ ~CheckDuplicate(w)
      /\ ~SaveMessage(w) /\ ~TouchTicket(w)
  BY <1>3, <1>5 DEF Ingest, PickVacantMember, NextNumber, CheckDuplicate, SaveMessage, TouchTicket
<1>7. Swallow(w) \/ CreateTicket(w) \/ SaveParticipant(w)
  BY <1>2, <1>4, <1>6 DEF Worker, Work
<1>8. CreateTicket(w) \/ SaveParticipant(w) => Done(w, "lost")
  BY <1>5, Zenon DEF CreateTicket, SaveParticipant
<1>9. Done(w, "lost") \/ Done(w, "kept")
  BY <1>7, <1>8 DEF Swallow
<1>10. task[w].event = e
  BY <1>1, <1>9 DEF Done
<1>. QED BY <1>7, <1>8, <1>10

(* Every step is one worker's, or leaves the tasks alone.                  *)
LEMMA StepMoves ==
  ASSUME TicketsAssumption, TInv, [Next]_vars
  PROVE  \/ UNCHANGED <<task, fate>> /\ (cause' = cause \/ \E es : Befalls("removal", es))
         \/ /\ team' = team
            /\ \E w \in Workers : \E u : task' = [task EXCEPT ![w] = u] /\ Moves(task[w], u)
<1>1. ASSUME NEW w \in Workers, Worker(w)
      PROVE  team' = team /\ \E u : task' = [task EXCEPT ![w] = u] /\ Moves(task[w], u)
  BY <1>1, WorkerMoves, WorkerWrites
<1>2. ASSUME NEW m \in team, RemoveMember(m) PROVE \E es : Befalls("removal", es)
  BY <1>2, Zenon DEF RemoveMember
<1>. QED BY <1>1, <1>2, StepByStep, AgentWrites, OthersWrite

(* What befell an event stays until the event is taken again.              *)
LEMMA CauseGrows ==
  ASSUME TicketsAssumption, TInv, [Next]_vars, NEW e \in Events
  PROVE  cause[e] \subseteq cause'[e] \/ (fate[e] # "taken" /\ fate'[e] = "taken")
<1>0. cause \in [Events -> SUBSET Causes] /\ fate \in [Events -> Fates]
  BY DEF TInv
<1>1. ASSUME NEW what, NEW es, Befalls(what, es) PROVE cause[e] \subseteq cause'[e]
  BY <1>1 DEF Befalls
<1>2. ASSUME NEW u, Takes(u) PROVE cause[e] \subseteq cause'[e] \/ (fate[e] # "taken" /\ fate'[e] = "taken")
  BY <1>0, <1>2 DEF Takes
<1>3. Remembers => cause[e] \subseteq cause'[e]
  BY <1>1 DEF Remembers
<1>. QED BY <1>1, <1>2, <1>3, StepMoves DEF Moves

LEMMA OneEachStep ==
  ASSUME TicketsAssumption, TInv, OneEach, [Next]_vars
  PROVE  OneEach'
<1>0. task \in [Workers -> Task] /\ fate \in [Events -> Fates]
      /\ \A w \in Workers : task[w].at # "idle" => task[w].event \in Events
  BY DEF TInv, Tasks, Under
<1>1. CASE UNCHANGED <<task, fate>>
  BY <1>1 DEF OneEach
<1>2. ASSUME NEW w \in Workers, NEW u, task' = [task EXCEPT ![w] = u], Moves(task[w], u)
      PROVE  OneEach'
  <2>1. PICK t : t = task[w]
    OBVIOUS
  <2>2. task'[w] = u /\ \A v \in Workers \ {w} : task'[v] = task[v]
    BY <1>0, <1>2
  <2>3. CASE Takes(u)
    <3>1. PICK e \in Events : /\ fate[e] # "taken" /\ fate' = [fate EXCEPT ![e] = "taken"]
                              /\ u.at = "find" /\ u.event = e
      BY <2>3 DEF Takes
    <3>2. \A v \in Workers \ {w} : task[v].at # "idle" => task[v].event # e
      BY <3>1 DEF OneEach
    <3>3. fate'[e] = "taken" /\ \A f \in Events : fate[f] = "taken" => fate'[f] = "taken"
      BY <1>0, <3>1
    <3>. QED BY <1>0, <2>2, <3>1, <3>2, <3>3 DEF OneEach
  <2>4. CASE Ignores(t, u)
    <3>1. u = t /\ \A f \in Events : fate[f] = "taken" => fate'[f] = "taken"
      BY <1>0, <2>4 DEF Ignores
    <3>. QED BY <1>0, <2>1, <2>2, <3>1 DEF OneEach
  <2>5. CASE Ends(t, u)
    <3>1. u.at = "idle" /\ t.at # "idle" /\ \E x : fate' = [fate EXCEPT ![t.event] = x]
      BY <2>5 DEF Ends, NoTask
    <3>2. \A f \in Events : fate[f] = "taken" /\ f # t.event => fate'[f] = "taken"
      BY <1>0, <3>1
    <3>. QED BY <1>0, <2>1, <2>2, <3>1, <3>2 DEF OneEach
  <2>6. CASE GoesOn(t, u)
    <3>1. u.event = t.event /\ t.at # "idle" /\ fate' = fate
      BY <2>6 DEF GoesOn
    <3>. QED BY <1>0, <2>1, <2>2, <3>1 DEF OneEach
  <2>. QED BY <1>2, <2>1, <2>3, <2>4, <2>5, <2>6 DEF Moves
<1>. QED BY <1>1, <1>2, StepMoves

(* Only saveParticipant creates a row, and it overtakes those that looked  *)
(* for the same one.                                                       *)
LEMMA NewRow ==
  ASSUME TicketsAssumption, TInv, [Next]_vars, NEW k \in Keys, NEW u \in People,
         ~people[k][u].on, people'[k][u].on
  PROVE  \E w \in Workers :
           /\ At(w, "participant") /\ task'[w].at # "participant"
           /\ task[w].key = k /\ From[task[w].event] = u
           /\ Befalls("race", Overtaken(w))
<1>0. people \in [Keys -> [People -> Participant]]
  BY DEF TInv
<1>1. ASSUME NEW a \in Agents, MarkPrivate(a) PROVE FALSE
  <2>1. PICK l, v, p : l = desk[a].key /\ v = desk[a].person /\ p = people[l][v]
    OBVIOUS
  <2>2. people' = [people EXCEPT ![l] = [people[l] EXCEPT ![v] = [p EXCEPT !.private = TRUE]]]
    BY <1>1, <2>1 DEF MarkPrivate
  <2>3. k # l \/ u # v
    <3>1. [p EXCEPT !.private = TRUE].on = p.on \/ p \notin Participant
      BY DEF Participant
    <3>2. SUFFICES ASSUME k = l, u = v PROVE FALSE
      OBVIOUS
    <3>3. p = people[k][u] /\ p \in Participant
      BY <1>0, <2>1, <3>2
    <3>4. people'[k][u] = [p EXCEPT !.private = TRUE]
      BY <1>0, <2>2, <3>2
    <3>. QED BY <3>1, <3>3, <3>4
  <2>4. people'[k][u] = people[k][u]
    BY <1>0, <2>2, <2>3
  <2>. QED BY <2>4
<1>2. ASSUME NEW l \in Keys, NEW v \in People, WindowPasses(l, v) \/ CommentAges(l, v) PROVE FALSE
  <2>1. PICK p \in Participant : p = people[l][v]
    BY <1>0
  <2>2. PICK q : /\ people' = [people EXCEPT ![l] = [people[l] EXCEPT ![v] = q]]
                 /\ \/ \E age : q = [p EXCEPT !.window = age]
                    \/ q = [p EXCEPT !.fresh = FALSE]
    <3>1. CASE WindowPasses(l, v)
      <4>1. PICK age : age = IF p.window = "day" THEN "week" ELSE "over"
        OBVIOUS
      <4>2. people' = [people EXCEPT ![l] = [people[l] EXCEPT ![v] = [p EXCEPT !.window = age]]]
        BY <2>1, <3>1, <4>1 DEF WindowPasses
      <4>. QED BY <4>2
    <3>2. CASE CommentAges(l, v)
      BY <2>1, <3>2 DEF CommentAges
    <3>. QED BY <1>2, <3>1, <3>2
  <2>3. q.on = p.on
    BY <2>1, <2>2 DEF Participant
  <2>4. people'[k][u] = people[k][u] \/ (people[k][u] = p /\ people'[k][u] = q)
    BY <1>0, <2>1, <2>2
  <2>. QED BY <2>3, <2>4
<1>3. PICK w \in Workers : SaveParticipant(w) /\ people' # people
  BY <1>1, <1>2, StepByStep, WorkerWrites, AgentWrites, OthersWrite DEF Clock
<1>4. PICK t, l, e, v : t = task[w] /\ l = t.key /\ e = t.event /\ v = From[e]
  OBVIOUS
<1>5. PICK q : q = Noted(people[l][v], e)
  OBVIOUS
<1>6. /\ people' = [people EXCEPT ![l] = [people[l] EXCEPT ![v] = q]]
      /\ Befalls("race", Overtaken(w)) /\ Go(w, "message") /\ At(w, "participant")
  BY <1>3, <1>4, <1>5 DEF SaveParticipant
<1>7. l = k /\ v = u
  BY <1>0, <1>6
<1>8. task'[w].at = "message"
  BY <1>6 DEF Go, TInv, Tasks, Task
<1>. QED BY <1>4, <1>6, <1>7, <1>8

LEMMA RaceSeenStep ==
  ASSUME TicketsAssumption, TInv, TInv', OneEach, RaceSeen, [Next]_vars
  PROVE  RaceSeen'
<1>0. task \in [Workers -> Task] /\ task' \in [Workers -> Task] /\ fate \in [Events -> Fates]
  BY DEF TInv, Tasks
<1>1. SUFFICES ASSUME NEW v \in Workers, Passed(task[v])' PROVE "race" \in cause'[task'[v].event]
  BY DEF RaceSeen
<1>2. PICK t, u : t = task[v] /\ u = task'[v]
  OBVIOUS
<1>3. /\ u.at = "participant" /\ ~u.found /\ From[u.event] \in Reachable
      /\ people'[u.key][From[u.event]].on
  BY <1>1, <1>2 DEF Passed
<1>4. u.event \in Events /\ u.key \in Keys /\ From[u.event] \in People
  BY <1>2, <1>3 DEF TInv, Tasks, Under, TicketsAssumption
<1>5. u = t
  <2>1. SUFFICES ASSUME u # t PROVE FALSE
    OBVIOUS
  <2>2. Moves(t, u)
    BY <1>0, <1>2, <2>1, StepMoves
  <2>3. GoesOn(t, u)
    BY <1>3, <2>1, <2>2 DEF Moves, Takes, Ignores, Ends, NoTask
  <2>. QED BY <1>3, <2>3 DEF GoesOn
<1>6. CASE people[t.key][From[t.event]].on
  <2>1. "race" \in cause[t.event] /\ fate[t.event] = "taken"
    BY <1>2, <1>3, <1>5, <1>6 DEF RaceSeen, Passed, OneEach
  <2>. QED BY <1>2, <1>4, <1>5, <2>1, CauseGrows
<1>7. CASE ~people[t.key][From[t.event]].on
  <2>1. PICK w \in Workers :
          /\ At(w, "participant") /\ task'[w].at # "participant"
          /\ task[w].key = t.key /\ From[task[w].event] = From[t.event]
          /\ Befalls("race", Overtaken(w))
    BY <1>3, <1>4, <1>5, <1>7, NewRow
  <2>2. v \in Workers \ {w}
    BY <1>2, <1>3, <2>1
  <2>3. t.event \in Overtaken(w)
    <3>1. v \in {o \in Workers \ {w} : At(o, "participant") /\ ~task[o].found}
      BY <1>2, <1>3, <1>5, <2>2 DEF At
    <3>2. ~people[task[w].key][From[task[w].event]].on
      BY <1>7, <2>1
    <3>. QED BY <1>2, <2>1, <3>1, <3>2 DEF Overtaken
  <2>. QED BY <1>2, <1>4, <1>5, <2>1, <2>3 DEF Befalls
<1>. QED BY <1>6, <1>7

LEMMA RemovalSeenStep ==
  ASSUME TicketsAssumption, TInv, TInv', OneEach, RemovalSeen, [Next]_vars
  PROVE  RemovalSeen'
<1>0. task \in [Workers -> Task] /\ task' \in [Workers -> Task] /\ fate \in [Events -> Fates]
  BY DEF TInv, Tasks
<1>1. SUFFICES ASSUME NEW v \in Workers
               PROVE  /\ task'[v].at = "find" => task'[v].assignee = Nobody
                      /\ Assigning(task[v])' => "removal" \in cause'[task'[v].event]
  BY DEF RemovalSeen
<1>2. PICK t, u : t = task[v] /\ u = task'[v]
  OBVIOUS
<1>3. ASSUME Assigning(t), u.event = t.event PROVE "removal" \in cause'[u.event]
  <2>1. "removal" \in cause[t.event] /\ fate[t.event] = "taken" /\ t.event \in Events
    BY <1>2, <1>3 DEF RemovalSeen, Assigning, OneEach, TInv, Tasks, Under
  <2>. QED BY <1>3, <2>1, CauseGrows
<1>4. CASE u = t
  <2>1. t.at = "find" => t.assignee = Nobody
    BY <1>2 DEF RemovalSeen
  <2>2. ASSUME u.at \in {"number", "create"}, u.assignee \notin team' \cup {Nobody}, ~Assigning(t)
        PROVE  "removal" \in cause'[u.event]
    <3>1. t.assignee \in team /\ t.assignee \notin team' /\ t.event \in Events
      BY <1>2, <1>4, <2>2 DEF Assigning, TInv, Tasks, Under
    <3>2. PICK m \in team : RemoveMember(m)
      BY <3>1, StepByStep, WorkerWrites, AgentWrites, OthersWrite
    <3>3. t.assignee = m
      BY <3>1, <3>2 DEF RemoveMember
    <3>4. v \in Chosen(m)
      BY <1>2, <1>4, <2>2, <3>3 DEF Chosen
    <3>5. t.event \in {task[o].event : o \in Chosen(m)}
      BY <1>2, <3>4
    <3>6. Befalls("removal", {task[o].event : o \in Chosen(m)})
      BY <3>2 DEF RemoveMember
    <3>. QED BY <1>4, <3>1, <3>5, <3>6 DEF Befalls
  <2>. QED BY <1>2, <1>3, <1>4, <2>1, <2>2 DEF Assigning
<1>5. CASE u # t
  <2>1. Moves(t, u) /\ team' = team
    BY <1>0, <1>2, <1>5, StepMoves
  <2>2. CASE Takes(u)
    BY <1>2, <2>2 DEF Takes, Assigning
  <2>3. CASE Ends(t, u)
    BY <1>2, <2>3 DEF Ends, NoTask, Assigning
  <2>4. CASE GoesOn(t, u)
    <3>1. u.at # "find" /\ u.event = t.event
      BY <2>4 DEF GoesOn
    <3>2. ASSUME u.at \in {"number", "create"}, u.assignee \notin team \cup {Nobody}
          PROVE  Assigning(t)
      BY <1>2, <2>4, <3>2 DEF GoesOn, RemovalSeen, Assigning
    <3>. QED BY <1>2, <1>3, <2>1, <3>1, <3>2 DEF Assigning
  <2>. QED BY <1>5, <2>1, <2>2, <2>3, <2>4 DEF Moves, Ignores
<1>. QED BY <1>4, <1>5

(* An event is lost at the create of a ticket when all tries failed or the *)
(* assignee is gone, and at the create of a participant when it was passed.*)
LEMMA LostAtCreate ==
  ASSUME TicketsAssumption, LInv, NEW w \in Workers, CreateTicket(w), Done(w, "lost")
  PROVE  Crowded \/ Assigning(task[w])
<1>1. PICK t : t = task[w]
  OBVIOUS
<1>2. t \in Task /\ Allotted(t, ticket) /\ task \in [Workers -> Task] /\ DOMAIN t = TaskFields
  BY <1>1 DEF LInv, TInv, Tasks, Task, TaskFields
<1>3. t.at = "create" /\ task'[w].at = "idle"
  BY <1>1, <1>2 DEF CreateTicket, At, Done, NoTask
<1>4. \/ /\ t.tries + 1 = MaxNumberTries
         /\ \E k \in Keys : ticket[k].number = t.number
      \/ t.assignee # Nobody /\ t.assignee \notin team
  <2>2. ASSUME NEW seen, task' = [task EXCEPT ![w].at = "duplicate", ![w].seen = seen] PROVE FALSE
    <3>1. PICK u : u = [t EXCEPT !.at = "duplicate", !.seen = seen]
      OBVIOUS
    <3>2. u.at = "duplicate"
      BY <1>2, <3>1 DEF TaskFields
    <3>3. task' = [task EXCEPT ![w] = u]
      BY <1>1, <2>2, <3>1
    <3>. QED BY <1>2, <1>3, <3>2, <3>3
  <2>3. ASSUME NEW n, task' = [task EXCEPT ![w].at = "number", ![w].tries = n] PROVE FALSE
    <3>1. PICK u : u = [t EXCEPT !.at = "number", !.tries = n]
      OBVIOUS
    <3>2. u.at = "number"
      BY <1>2, <3>1 DEF TaskFields
    <3>3. task' = [task EXCEPT ![w] = u]
      BY <1>1, <2>3, <3>1
    <3>. QED BY <1>2, <1>3, <3>2, <3>3
  <2>4. ASSUME task' = [task EXCEPT ![w].at = "duplicate", ![w].seen = "OPEN", ![w].created = TRUE]
        PROVE  FALSE
    <3>1. PICK u : u = [t EXCEPT !.at = "duplicate", !.seen = "OPEN", !.created = TRUE]
      OBVIOUS
    <3>2. u.at = "duplicate"
      BY <1>2, <3>1 DEF TaskFields
    <3>3. task' = [task EXCEPT ![w] = u]
      BY <1>1, <2>4, <3>1
    <3>. QED BY <1>2, <1>3, <3>2, <3>3
  <2>. QED BY <1>1, <2>2, <2>3, <2>4, Zenon DEF CreateTicket
<1>5. CASE t.assignee # Nobody /\ t.assignee \notin team
  BY <1>1, <1>3, <1>5 DEF Assigning
<1>6. CASE t.tries + 1 = MaxNumberTries /\ \E k \in Keys : ticket[k].number = t.number
  <2>1. t.tries \in Nat /\ t.number \in Nat /\ t.tries < t.number
    BY <1>2, <1>3 DEF Task, Allotted
  <2>2. PICK k \in Keys : ticket[k].number = t.number
    BY <1>6
  <2>3. ticket[k].number >= MaxNumberTries
    BY <1>6, <2>1, <2>2 DEF TicketsAssumption
  <2>. QED BY <2>3 DEF Crowded
<1>. QED BY <1>4, <1>5, <1>6

LEMMA LostAtParticipant ==
  ASSUME TInv, NEW w \in Workers, SaveParticipant(w), Done(w, "lost")
  PROVE  Passed(task[w])
<1>1. PICK t : t = task[w]
  OBVIOUS
<1>2. t \in Task /\ task \in [Workers -> Task]
  BY <1>1 DEF TInv, Tasks
<1>3. task'[w].at = "idle"
  BY <1>2 DEF Done, NoTask
<1>4. ~Go(w, "message")
  <2>1. SUFFICES ASSUME Go(w, "message") PROVE FALSE
    OBVIOUS
  <2>2. PICK u : u = [t EXCEPT !.at = "message"]
    OBVIOUS
  <2>3. u.at = "message"
    BY <1>2, <2>2 DEF Task
  <2>4. task' = [task EXCEPT ![w] = u]
    BY <1>1, <2>1, <2>2 DEF Go
  <2>. QED BY <1>2, <1>3, <2>3, <2>4
<1>. QED BY <1>4, Zenon DEF SaveParticipant, Passed, At

LEMMA LossesStep == TicketsAssumption /\ LInv /\ [Next]_vars => LInv'
<1> SUFFICES ASSUME TicketsAssumption, LInv, [Next]_vars PROVE LInv'
  OBVIOUS
<1>1. TInv /\ TInv'
  BY TypesStep DEF LInv
<1>2. \A k \in Keys : /\ ticket[k].number \in Nat /\ ticket'[k].number \in Nat
                      /\ ticket[k].number <= ticket'[k].number
  BY <1>1, NumbersStay
<1>3. \A w \in Workers : Allotted(task'[w], ticket')
  <2>1. CASE \E w \in Workers : Worker(w)
    BY <2>1, AllottedSteps
  <2>2. CASE task' = task
    <3>1. ASSUME NEW w \in Workers PROVE Allotted(task[w], ticket')
      <4>1. PICK t \in Task : t = task[w] /\ Allotted(t, ticket)
        BY <1>1 DEF LInv, TInv, Tasks
      <4>2. PICK n \in Nat : n = t.tries
        BY DEF Task
      <4>3. (\E k \in Keys : ticket[k].number >= n) => \E k \in Keys : ticket'[k].number >= n
        BY <1>2
      <4>. QED BY <4>1, <4>2, <4>3 DEF Allotted
    <3>. QED BY <2>2, <3>1
  <2>3. \/ \E w \in Workers : Worker(w)
        \/ task' = task
    BY StepByStep, AgentWrites, OthersWrite
  <2>. QED BY <2>1, <2>2, <2>3
<1>4. OneEach' /\ RaceSeen' /\ RemovalSeen'
  BY <1>1, OneEachStep, RaceSeenStep, RemovalSeenStep DEF LInv
<1>5. Crowded => Crowded'
  BY <1>2 DEF Crowded, TicketsAssumption
<1>6. ASSUME NEW e \in Events, fate'[e] = "lost"
      PROVE  \/ cause'[e] \cap {"throw", "removal"} # {}
             \/ "race" \in cause'[e] /\ From[e] \in Reachable
             \/ Crowded'
  <2>1. cause[e] \subseteq cause'[e]
    BY <1>1, <1>6, CauseGrows
  <2>2. CASE fate[e] = "lost"
    BY <1>5, <2>1, <2>2 DEF LInv, LostForACause
  <2>3. CASE fate[e] # "lost"
    <3>1. PICK w \in Workers :
            /\ task[w].event = e
            /\ \/ Swallow(w)
               \/ CreateTicket(w) /\ Done(w, "lost")
               \/ SaveParticipant(w) /\ Done(w, "lost")
      BY <1>1, <1>6, <2>3, LosingSteps
    <3>2. CASE Swallow(w)
      BY <3>1, <3>2 DEF Swallow, Befalls
    <3>3. CASE CreateTicket(w) /\ Done(w, "lost")
      <4>1. Crowded \/ "removal" \in cause[e]
        BY <3>1, <3>3, LostAtCreate DEF LInv, RemovalSeen
      <4>. QED BY <1>5, <2>1, <4>1
    <3>4. CASE SaveParticipant(w) /\ Done(w, "lost")
      <4>1. Passed(task[w])
        BY <1>1, <3>4, LostAtParticipant
      <4>2. "race" \in cause[e] /\ From[e] \in Reachable
        BY <3>1, <4>1 DEF LInv, RaceSeen, Passed
      <4>. QED BY <2>1, <4>2
    <3>. QED BY <3>1, <3>2, <3>3, <3>4
  <2>. QED BY <2>2, <2>3
<1>7. LostForACause'
  BY <1>6 DEF LostForACause
<1>. QED BY <1>1, <1>3, <1>4, <1>7 DEF LInv

LEMMA LossesInit == Init => LInv
<1> SUFFICES ASSUME Init PROVE LInv
  OBVIOUS
<1>1. \A w \in Workers : task[w].at = "idle"
  BY DEF Init, NoTask
<1>2. \A e \in Events : fate[e] = "waiting"
  BY DEF Init
<1>. QED BY <1>1, <1>2, TypesInit
     DEF LInv, Allotted, LostForACause, OneEach, RaceSeen, Passed, RemovalSeen, Assigning

THEOREM LossesInvariant == Spec => []LInv
<1>. QED BY LossesInit, LossesStep, TicketsAssumption, PTL DEF Spec

(* Whatever the workers do to each other's keys and numbers: see           *)
(* LostForACause.                                                          *)
THEOREM LossesExplained == Spec => []LostForACause
<1>1. LInv => LostForACause
  BY DEF LInv
<1>. QED BY <1>1, LossesInvariant, PTL

-----------------------------------------------------------------------------
(* Numbers are dense: none is higher than the tickets there are.           *)

Living == {k \in Keys : Exists(k)}

Dense ==
  /\ \A k \in Keys : ticket[k].number <= Cardinality(Living)
  /\ \A w \in Workers : task[w].at = "create" => task[w].number <= Cardinality(Living) + 1

DInv == LInv /\ Dense

LEMMA NumberedAtBirth ==
  ASSUME TicketsAssumption, TInv, [Next]_vars, NEW k \in Keys, ~Exists(k)
  PROVE  \/ ticket'[k].number = 0
         \/ \E w \in Workers : /\ task[w].at = "create"
                               /\ ticket'[k].number = task[w].number
                               /\ ticket'[k].status = "OPEN"
<1>0. ticket[k].number = 0 /\ ticket \in [Keys -> Row]
  BY DEF TInv, Rows
<1>1. ASSUME NEW o, NEW r, ticket' = [ticket EXCEPT ![o] = r], o = k => r.number = 0
      PROVE  ticket'[k].number = 0
  BY <1>0, <1>1
<1>2. ASSUME NEW w \in Workers, CreateTicket(w), ticket' # ticket
      PROVE  \/ ticket'[k].number = 0
             \/ /\ task[w].at = "create"
                /\ ticket'[k].number = task[w].number
                /\ ticket'[k].status = "OPEN"
  <2>1. PICK t : t = task[w]
    OBVIOUS
  <2>2. PICK r : r = [NoTicket EXCEPT !.status = "OPEN", !.number = t.number, !.assignee = t.assignee]
    OBVIOUS
  <2>3. t.at = "create" /\ ticket' = [ticket EXCEPT ![t.key] = r]
    BY <1>2, <2>1, <2>2 DEF CreateTicket, At
  <2>4. r.number = t.number /\ r.status = "OPEN"
    BY <2>2 DEF NoTicket
  <2>. QED BY <1>0, <2>1, <2>3, <2>4
<1>3. ASSUME NEW w \in Workers, TouchTicket(w) PROVE ticket'[k].number = 0
  <2>1. PICK o, old : o = task[w].key /\ old = ticket[o]
    OBVIOUS
  <2>2. \/ ticket' = ticket
        \/ ticket' = [ticket EXCEPT ![o] = [old EXCEPT !.status = "OPEN", !.resolved = FALSE]]
    BY <1>3, <2>1 DEF TouchTicket
  <2>3. o = k => [old EXCEPT !.status = "OPEN", !.resolved = FALSE].number = 0
    BY <1>0, <2>1 DEF Row
  <2>. QED BY <1>0, <1>1, <2>2, <2>3
<1>4. ASSUME NEW a \in Agents, SaveUpdate(a) \/ Advance(a) PROVE ticket'[k].number = 0
  <2>1. PICK o : o = desk[a].key
    OBVIOUS
  <2>2. o # k
    BY <1>4, <2>1 DEF TInv, Desks, Asked, SaveUpdate, Advance
  <2>3. \E r : ticket' = [ticket EXCEPT ![o] = r]
    BY <1>4, <2>1, Zenon DEF SaveUpdate, Advance
  <2>. QED BY <1>1, <2>2, <2>3
<1>5. ASSUME NEW m \in team, RemoveMember(m) PROVE ticket'[k].number = 0
  <2>1. PICK old \in Row : old = ticket[k]
    BY <1>0
  <2>2. ticket'[k] = IF old.assignee = m THEN [old EXCEPT !.assignee = Nobody] ELSE old
    BY <1>5, <2>1 DEF RemoveMember
  <2>3. [old EXCEPT !.assignee = Nobody].number = old.number
    BY DEF Row
  <2>. QED BY <1>0, <2>1, <2>2, <2>3
<1>. QED BY <1>0, <1>2, <1>3, <1>4, <1>5, StepByStep, WorkerWrites, AgentWrites, OthersWrite

LEMMA NumberAsked ==
  ASSUME TicketsAssumption, TInv, [Next]_vars, NEW w \in Workers, task'[w].at = "create",
         task'[w] # task[w]
  PROVE  \E k \in Keys : task'[w].number = ticket[k].number + 1
<1>0. task \in [Workers -> Task] /\ DOMAIN task[w] = TaskFields
  BY DEF TInv, Tasks, Task, TaskFields
<1>1. ASSUME NEW v \in Workers, NEW u, task' = [task EXCEPT ![v] = u] PROVE v = w /\ u.at = "create"
  BY <1>0, <1>1
<1>2. ASSUME NEW v \in Workers, NEW x, Done(v, x) PROVE FALSE
  BY <1>1, <1>2 DEF Done, NoTask
<1>3. ASSUME NEW v \in Workers, NEW step, step # "create", Go(v, step) PROVE FALSE
  <2>1. v = w
    BY <1>0, <1>3 DEF Go
  <2>2. PICK u : u = [task[w] EXCEPT !.at = step]
    OBVIOUS
  <2>3. u.at = step /\ task' = [task EXCEPT ![w] = u]
    BY <1>0, <1>3, <2>1, <2>2 DEF Go, TaskFields
  <2>. QED BY <1>1, <1>3, <2>3
<1>4. PICK v \in Workers : Worker(v)
  BY StepByStep, AgentWrites, OthersWrite
<1>5. PICK t : t = task[v]
  OBVIOUS
<1>6. DOMAIN t = TaskFields
  BY <1>0, <1>5 DEF Task, TaskFields
<1>7. ASSUME NEW e \in Events, IngestEvent(v, e) PROVE FALSE
  <2>1. task' = [task EXCEPT ![v] = [NoTask EXCEPT !.at = "find", !.event = e, !.key = TargetOf(e)]]
    BY <1>7 DEF IngestEvent
  <2>2. PICK k : k = TargetOf(e)
    OBVIOUS
  <2>3. [NoTask EXCEPT !.at = "find", !.event = e, !.key = k].at = "find"
    BY DEF NoTask
  <2>. QED BY <1>1, <2>1, <2>2, <2>3
<1>8. ~Swallow(v)
  BY <1>2 DEF Swallow
<1>9. ASSUME Ingest(v) PROVE FALSE
  <2>0. PICK seen : seen = ticket[t.key].status
    OBVIOUS
  <2>1. PICK step \in {"duplicate", "assign", "number"} :
          task' = [task EXCEPT ![v].at = step, ![v].seen = seen]
    BY <1>2, <1>5, <1>9, <2>0 DEF Ingest
  <2>2. PICK u : u = [t EXCEPT !.at = step, !.seen = seen]
    OBVIOUS
  <2>3. u.at = step
    BY <1>6, <2>2 DEF TaskFields
  <2>4. task' = [task EXCEPT ![v] = u]
    BY <1>5, <2>1, <2>2
  <2>. QED BY <1>1, <2>3, <2>4
<1>10. ASSUME PickVacantMember(v) PROVE FALSE
  <2>1. PICK m : task' = [task EXCEPT ![v].at = "number", ![v].assignee = m]
    BY <1>10 DEF PickVacantMember
  <2>2. PICK u : u = [t EXCEPT !.at = "number", !.assignee = m]
    OBVIOUS
  <2>3. u.at = "number"
    BY <1>6, <2>2 DEF TaskFields
  <2>4. task' = [task EXCEPT ![v] = u]
    BY <1>5, <2>1, <2>2
  <2>. QED BY <1>1, <2>3, <2>4
<1>11. ASSUME CreateTicket(v) PROVE FALSE
  <2>1. \/ \E seen : task' = [task EXCEPT ![v].at = "duplicate", ![v].seen = seen]
        \/ \E n : task' = [task EXCEPT ![v].at = "number", ![v].tries = n]
        \/ task' = [task EXCEPT ![v].at = "duplicate", ![v].seen = "OPEN", ![v].created = TRUE]
    BY <1>2, <1>11, Zenon DEF CreateTicket
  <2>2. ASSUME NEW seen, task' = [task EXCEPT ![v].at = "duplicate", ![v].seen = seen] PROVE FALSE
    <3>1. task' = [task EXCEPT ![v] = [t EXCEPT !.at = "duplicate", !.seen = seen]]
      BY <1>5, <2>2
    <3>2. [t EXCEPT !.at = "duplicate", !.seen = seen].at = "duplicate"
      BY <1>6 DEF TaskFields
    <3>. QED BY <1>1, <3>1, <3>2
  <2>3. ASSUME NEW n, task' = [task EXCEPT ![v].at = "number", ![v].tries = n] PROVE FALSE
    <3>1. task' = [task EXCEPT ![v] = [t EXCEPT !.at = "number", !.tries = n]]
      BY <1>5, <2>3
    <3>2. [t EXCEPT !.at = "number", !.tries = n].at = "number"
      BY <1>6 DEF TaskFields
    <3>. QED BY <1>1, <3>1, <3>2
  <2>4. CASE task' = [task EXCEPT ![v].at = "duplicate", ![v].seen = "OPEN", ![v].created = TRUE]
    <3>1. task' = [task EXCEPT ![v] = [t EXCEPT !.at = "duplicate", !.seen = "OPEN", !.created = TRUE]]
      BY <1>5, <2>4
    <3>2. [t EXCEPT !.at = "duplicate", !.seen = "OPEN", !.created = TRUE].at = "duplicate"
      BY <1>6 DEF TaskFields
    <3>. QED BY <1>1, <3>1, <3>2
  <2>. QED BY <2>1, <2>2, <2>3, <2>4
<1>12. ASSUME CheckDuplicate(v) PROVE FALSE
  <2>1. PICK found : task' = [task EXCEPT ![v].at = "participant", ![v].found = found]
    BY <1>2, <1>12 DEF CheckDuplicate
  <2>2. PICK u : u = [t EXCEPT !.at = "participant", !.found = found]
    OBVIOUS
  <2>3. u.at = "participant"
    BY <1>6, <2>2 DEF TaskFields
  <2>4. task' = [task EXCEPT ![v] = u]
    BY <1>5, <2>1, <2>2
  <2>. QED BY <1>1, <2>3, <2>4
<1>13. ~SaveParticipant(v) /\ ~SaveMessage(v) /\ ~TouchTicket(v)
  BY <1>2, <1>3 DEF SaveParticipant, SaveMessage, TouchTicket
<1>14. NextNumber(v)
  BY <1>4, <1>7, <1>8, <1>9, <1>10, <1>11, <1>12, <1>13 DEF Worker, Work
<1>15. PICK k \in Keys : task' = [task EXCEPT ![v].at = "create", ![v].number = ticket[k].number + 1]
  BY <1>14 DEF NextNumber
<1>16. PICK n : n = ticket[k].number + 1
  OBVIOUS
<1>17. PICK u : u = [t EXCEPT !.at = "create", !.number = n]
  OBVIOUS
<1>18. u.number = n
  BY <1>6, <1>17 DEF TaskFields
<1>19. task' = [task EXCEPT ![v] = u]
  BY <1>5, <1>15, <1>16, <1>17
<1>20. v = w /\ task'[w] = u
  BY <1>0, <1>1, <1>19
<1>. QED BY <1>16, <1>18, <1>20

LEMMA DenseStep == TicketsAssumption /\ IsFiniteSet(Keys) /\ DInv /\ [Next]_vars => DInv'
<1> SUFFICES ASSUME TicketsAssumption, IsFiniteSet(Keys), DInv, [Next]_vars PROVE DInv'
  OBVIOUS
<1>1. TInv /\ TInv' /\ LInv'
  BY TypesStep, LossesStep DEF DInv, LInv
<1>2. PICK L, M : L = Living /\ M = {k \in Keys : ticket'[k].status # "none"}
  OBVIOUS
<1>3. L \subseteq M /\ M \subseteq Keys
  BY <1>1, <1>2, RowsKeep DEF TicketsStay, Living, Exists
<1>4. IsFiniteSet(M) /\ IsFiniteSet(L)
  BY <1>3, FS_Subset
<1>5. Cardinality(L) \in Nat /\ Cardinality(M) \in Nat /\ Cardinality(L) <= Cardinality(M)
  BY <1>3, <1>4, FS_Subset, FS_CardinalityType
<1>6. \A k \in Keys : ticket[k].number \in Nat /\ ticket[k].number <= Cardinality(L)
  BY <1>1, <1>2 DEF DInv, Dense, TInv, Rows, Row
<1>7. \A w \in Workers : task[w].number \in Nat /\ task'[w].number \in Nat
  BY <1>1 DEF TInv, Tasks, Task
<1>8. ASSUME NEW k \in Keys PROVE ticket'[k].number <= Cardinality(M)
  <2>1. CASE Exists(k)
    <3>1. ticket'[k].number = ticket[k].number
      BY <1>1, <2>1, RowsKeep DEF TicketsStay
    <3>. QED BY <1>5, <1>6, <3>1
  <2>2. CASE ~Exists(k) /\ ticket'[k].number # 0
    <3>1. PICK w \in Workers : /\ task[w].at = "create"
                               /\ ticket'[k].number = task[w].number
                               /\ ticket'[k].status = "OPEN"
      BY <1>1, <2>2, NumberedAtBirth
    <3>2. task[w].number <= Cardinality(L) + 1
      BY <1>2, <3>1 DEF DInv, Dense
    <3>3. k \notin L /\ L \cup {k} \subseteq M
      BY <1>2, <1>3, <2>2, <3>1 DEF Living
    <3>4. Cardinality(L \cup {k}) = Cardinality(L) + 1 /\ IsFiniteSet(L \cup {k})
      BY <1>4, <3>3, FS_AddElement
    <3>5. Cardinality(L \cup {k}) <= Cardinality(M)
      BY <1>4, <3>3, FS_Subset
    <3>. QED BY <1>5, <1>7, <3>1, <3>2, <3>4, <3>5
  <2>3. CASE ticket'[k].number = 0
    BY <1>5, <2>3
  <2>. QED BY <2>1, <2>2, <2>3
<1>9. ASSUME NEW w \in Workers, task'[w].at = "create" PROVE task'[w].number <= Cardinality(M) + 1
  <2>1. CASE task'[w] = task[w]
    <3>1. task[w].number <= Cardinality(L) + 1
      BY <1>2, <1>9, <2>1 DEF DInv, Dense
    <3>. QED BY <1>5, <1>7, <2>1, <3>1
  <2>2. CASE task'[w] # task[w]
    <3>1. PICK k \in Keys : task'[w].number = ticket[k].number + 1
      BY <1>1, <1>9, <2>2, NumberAsked
    <3>. QED BY <1>5, <1>6, <3>1
  <2>. QED BY <2>1, <2>2
<1>. QED BY <1>1, <1>2, <1>8, <1>9 DEF DInv, Dense, Living, Exists

LEMMA DenseInit == IsFiniteSet(Keys) /\ Init => DInv
<1> SUFFICES ASSUME IsFiniteSet(Keys), Init PROVE DInv
  OBVIOUS
<1>1. /\ \A k \in Keys : ticket[k].number = 0
      /\ \A w \in Workers : task[w].at = "idle"
  BY DEF Init, NoTask, NoTicket
<1>2. Living \subseteq Keys
  BY DEF Living
<1>3. Cardinality(Living) \in Nat
  BY <1>2, FS_Subset, FS_CardinalityType
<1>. QED BY <1>1, <1>3, LossesInit DEF DInv, Dense

(* An event no call of whose ingest failed and whose assignee was not      *)
(* removed is lost only to another worker's create of the very row it had  *)
(* looked for, where there can be fewer tickets than attempts at a number  *)
(* (createTicket, ingest).                                                 *)
THEOREM LostOnlyInTheRace ==
  ASSUME IsFiniteSet(Keys), Cardinality(Keys) < MaxNumberTries
  PROVE  Spec => []LostOnlyToARace
<1>1. DInv => LostOnlyToARace
  <2> SUFFICES ASSUME DInv PROVE ~Crowded
    BY DEF DInv, LInv, LostForACause, LostOnlyToARace
  <2> SUFFICES ASSUME NEW k \in Keys PROVE ~(ticket[k].number >= MaxNumberTries)
    BY DEF Crowded
  <2>1. Living \subseteq Keys
    BY DEF Living
  <2>2. Cardinality(Living) <= Cardinality(Keys) /\ Cardinality(Living) \in Nat /\ Cardinality(Keys) \in Nat
    BY <2>1, FS_Subset, FS_CardinalityType
  <2>3. ticket[k].number \in Nat /\ ticket[k].number <= Cardinality(Living)
    BY DEF DInv, Dense, LInv, TInv, Rows, Row
  <2>. QED BY <2>2, <2>3, TicketsAssumption DEF TicketsAssumption
<1>2. Init => DInv
  BY DenseInit
<1>3. DInv /\ [Next]_vars => DInv'
  BY DenseStep, TicketsAssumption
<1>. QED BY <1>1, <1>2, <1>3, PTL DEF Spec

-----------------------------------------------------------------------------
(* The tabs of the tickets page.                                           *)

With(s) == {k \in Keys : ticket[k].status = s}

LEMMA SumOfTwo ==
  ASSUME IsFiniteSet(Keys), NEW s, NEW t, s # t
  PROVE  /\ Having(s) \in Nat /\ IsFiniteSet(With(s) \cup With(t))
         /\ Cardinality(With(s) \cup With(t)) = Having(s) + Having(t)
<1>1. IsFiniteSet(With(s)) /\ IsFiniteSet(With(t))
  BY FS_Subset DEF With
<1>2. Cardinality(With(s)) \in Nat /\ Cardinality(With(t)) \in Nat
  BY <1>1, FS_CardinalityType
<1>3. With(s) \cap With(t) = {}
  BY DEF With
<1>4. Cardinality(With(s) \cap With(t)) = 0
  BY <1>3, FS_EmptySet
<1>5. /\ IsFiniteSet(With(s) \cup With(t))
      /\ Cardinality(With(s) \cup With(t)) =
           Cardinality(With(s)) + Cardinality(With(t)) - Cardinality(With(s) \cap With(t))
  BY <1>1, FS_Union
<1>. QED BY <1>2, <1>4, <1>5 DEF Having, With

LEMMA SumOfThree ==
  ASSUME IsFiniteSet(Keys)
  PROVE  Cardinality(With("OPEN") \cup With("IN_PROGRESS") \cup With("WAITING")) =
           Having("OPEN") + Having("IN_PROGRESS") + Having("WAITING")
<1>1. PICK A, B : A = With("OPEN") \cup With("IN_PROGRESS") /\ B = With("WAITING")
  OBVIOUS
<1>2. /\ IsFiniteSet(A) /\ Cardinality(A) = Having("OPEN") + Having("IN_PROGRESS")
      /\ Having("OPEN") \in Nat /\ Having("IN_PROGRESS") \in Nat
  BY <1>1, SumOfTwo
<1>3. IsFiniteSet(B) /\ Cardinality(B) = Having("WAITING") /\ Having("WAITING") \in Nat
  BY <1>1, FS_Subset, FS_CardinalityType DEF With, Having
<1>4. A \cap B = {}
  BY <1>1 DEF With
<1>5. Cardinality(A \cap B) = 0
  BY <1>4, FS_EmptySet
<1>6. Cardinality(A \cup B) = Cardinality(A) + Cardinality(B) - Cardinality(A \cap B)
  BY <1>2, <1>3, FS_Union
<1>. QED BY <1>1, <1>2, <1>3, <1>5, <1>6

(* The number on each tab is that of the tickets the tab lists, for every  *)
(* number of tickets and whatever is done to them (counts, list, countFor).*)
THEOREM TabsAgree == ASSUME IsFiniteSet(Keys) PROVE Spec => []TabsCountWhatTheyList
<1>1. TInv => TabsCountWhatTheyList
  <2> SUFFICES ASSUME TInv, NEW me \in Range(Members), NEW tab \in Tabs
               PROVE  CountFor(tab, me) = Cardinality(Listed(ParamsFor(tab, me)))
    BY DEF TabsCountWhatTheyList
  <2>0. me # "any" /\ Nobody # "any"
    BY TicketsAssumption DEF TicketsAssumption
  <2>1. \A k \in Keys : ticket[k].status \in Statuses \cup {"none"}
    BY DEF TInv, Rows, Row
  <2>2. CASE tab = "mine"
    <3>1. Listed(ParamsFor(tab, me)) = {k \in Keys : Active(k) /\ ticket[k].assignee = me}
      BY <2>0, <2>2 DEF Listed, ParamsFor, Active
    <3>2. CountFor(tab, me) = Load(me)
      BY <2>2 DEF CountFor, CountsOf
    <3>. QED BY <3>1, <3>2 DEF Load
  <2>3. CASE tab = "unassigned"
    <3>1. Listed(ParamsFor(tab, me)) = {k \in Keys : Active(k) /\ ticket[k].assignee = Nobody}
      BY <2>0, <2>3 DEF Listed, ParamsFor, Active
    <3>2. CountFor(tab, me) = Load(Nobody)
      BY <2>3 DEF CountFor, CountsOf
    <3>. QED BY <3>1, <3>2 DEF Load
  <2>4. CASE tab = "active"
    <3>1. Listed(ParamsFor(tab, me)) = {k \in Keys : Active(k)}
      BY <2>4 DEF Listed, ParamsFor, Active
    <3>2. {k \in Keys : Active(k)} = With("OPEN") \cup With("IN_PROGRESS") \cup With("WAITING")
      BY <2>1 DEF With, Active, Exists, Statuses, Closing
    <3>3. CountFor(tab, me) = Having("OPEN") + Having("IN_PROGRESS") + Having("WAITING")
      BY <2>4 DEF CountFor, CountsOf
    <3>. QED BY <3>1, <3>2, <3>3, SumOfThree
  <2>5. CASE tab = "closed"
    <3>1. Listed(ParamsFor(tab, me)) = {k \in Keys : ticket[k].status \in Closing}
      BY <2>5 DEF Listed, ParamsFor, Exists, Closing
    <3>2. {k \in Keys : ticket[k].status \in Closing} = With("RESOLVED") \cup With("CLOSED")
      BY DEF With, Closing
    <3>3. CountFor(tab, me) = Having("RESOLVED") + Having("CLOSED")
      BY <2>5 DEF CountFor, CountsOf, Statuses, Closing
    <3>. QED BY <3>1, <3>2, <3>3, SumOfTwo
  <2>. QED BY <2>2, <2>3, <2>4, <2>5 DEF Tabs
<1>. QED BY <1>1, TypesInvariant, PTL

=============================================================================
