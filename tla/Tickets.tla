------------------------------- MODULE Tickets -------------------------------
(***************************************************************************)
(* The complaint tickets of one Instagram account: the webhook workers and *)
(* the tagged-posts sync turn inbound events into ticket messages while    *)
(* agents update, annotate and answer the same tickets.                    *)
(*                                                                         *)
(* Nothing is in a transaction: every await of ingest and reply is a step, *)
(* and what a step writes may rest on a row read several steps earlier     *)
(* (`seen`).  Texts, subjects, priorities and names are left out; whether  *)
(* an event hits a keyword or mentions the account is `Complaint`.         *)
(***************************************************************************)
EXTENDS Naturals, Sequences, FiniteSets, SequencesExt

CONSTANTS
  Workers,       \* processes that ingest events
  Agents,        \* team members' browsers acting on tickets
  Events,        \* inbound events, and the tagged posts a sync finds
  People,        \* who sends them
  Posts,
  Kind,          \* Events -> "comment", "dm", "story", "storyReply", "referral", "tagged"
  From,          \* Events -> People
  Post,          \* Events -> the post it is about, or NoPost
  Complaint,     \* the events matchesKeyword or the mention check accepts
  Reachable,     \* the people whose IG-scoped id Instagram discloses
  Members,       \* the team, in the order they joined
  Settings,      \* the account's TicketSettings
  MaxNumberTries,\* attempts at a ticket number (5 in the source)
  Outcomes,      \* what a manual send may end in
  StatusEdits,   \* the statuses the agents ask for
  FaultSites,    \* the steps of ingest whose call may throw
  MaxFaults, MaxEdits, MaxReplies, MaxSyncs, MaxRemovals, MaxHours, MaxSpent,
  NoPost, NoEvent, NoKey, Nobody

Sources == {"comment", "dm", "story", "storyReply", "referral", "tagged"}
SettingNames == {"enabled", "allDms", "stories", "referrals", "tagged", "autoAssign"}

Closing == {"RESOLVED", "CLOSED"}
Statuses == {"OPEN", "IN_PROGRESS", "WAITING"} \cup Closing

ASSUME TicketsAssumption ==
  /\ Kind \in [Events -> Sources] /\ From \in [Events -> People]
  /\ Post \in [Events -> Posts \cup {NoPost}] /\ NoPost \notin Posts
  /\ \A e \in Events : Kind[e] = "tagged" => Post[e] \in Posts
  /\ Complaint \subseteq Events /\ Reachable \subseteq People
  /\ Members \in Seq(Range(Members)) /\ Nobody \notin Range(Members)
  /\ {"any", "same"} \cap (Range(Members) \cup {Nobody}) = {}   \* not ids
  /\ StatusEdits \subseteq Statuses /\ Settings \in [SettingNames -> BOOLEAN]
  /\ MaxNumberTries \in Nat \ {0} /\ NoEvent \notin Events /\ "idle" \notin FaultSites
  /\ {MaxFaults, MaxEdits, MaxReplies, MaxSyncs, MaxRemovals, MaxHours, MaxSpent}
       \subseteq Nat

Sending(kind) == {From[e] : e \in {x \in Events : Kind[x] = kind}}

(* Ticket.dedupKey, unique per account: the keys these events can bear.    *)
Keys == ({"media"} \X Posts)
          \cup ({"comment"} \X {e \in Events : Kind[e] = "comment" /\ Post[e] = NoPost})
          \cup ({"dm"} \X Sending("dm")) \cup ({"story"} \X Sending("story"))
          \cup ({"ref"} \X Sending("referral"))

PostKey(k) == k[1] = "media"

NoTicket == [status |-> "none", number |-> 0, assignee |-> Nobody,
             resolved |-> FALSE, answered |-> FALSE]

(* A TicketParticipant: `window` is the age of lastInboundAt, `fresh` that *)
(* latestCommentAt is less than seven days old.                            *)
Stranger == [on |-> FALSE, window |-> "none", comment |-> NoEvent,
             fresh |-> FALSE, private |-> FALSE]

VARIABLES
  ticket,   \* Keys -> Ticket row, or NoTicket
  people,   \* Keys -> People -> TicketParticipant row, or Stranger
  inbox,    \* Keys -> the events stored as TicketMessage rows
  newer,    \* <<k, l>>: the lastActivityAt of k is later than that of l
  team,     \* the members who still exist
  fate,     \* Events -> what became of it (history, except "waiting")
  cause,    \* Events -> what befell the event while it was ingested (history)
  task,     \* Workers -> what the worker is doing
  desk,     \* Agents -> what the agent's request is doing
  spent

rows == <<ticket, people, inbox, newer>>
vars == <<rows, team, fate, cause, task, desk, spent>>

NoTask == [at |-> "idle", event |-> NoEvent, key |-> NoKey, seen |-> "none", created |-> FALSE,
           found |-> FALSE, number |-> 0, tries |-> 0, assignee |-> Nobody]

NoDesk == [at |-> "idle", key |-> NoKey, person |-> Nobody, seen |-> "none",
           mode |-> "none", status |-> "none", assignee |-> Nobody]

Budget == {"fault", "edit", "reply", "sync", "removal", "hour"}

Bound == [fault |-> MaxFaults, edit |-> MaxEdits, reply |-> MaxReplies,
          sync |-> MaxSyncs, removal |-> MaxRemovals, hour |-> MaxHours]

SumOf(f) == FoldFunction(LAMBDA n, m : n + m, 0, f)

(* Each kind of step nothing obliges is bounded, and all of them together. *)
Spend(b) ==
  /\ spent[b] < Bound[b] /\ SumOf(spent) < MaxSpent
  /\ spent' = [spent EXCEPT ![b] = @ + 1]

Exists(k) == ticket[k].status # "none"
Active(k) == Exists(k) /\ ticket[k].status \notin Closing
Participants(k) == {u \in People : people[k][u].on}
Others(k) == {l \in Keys \ {k} : Exists(l)}

Top_KeepsOrder(k) == newer' = newer \cup {k} \X Others(k)

(* lastActivityAt is set to now.                                           *)
Top(k) == newer' = (newer \cup {k} \X Others(k)) \ (Others(k) \X {k})

Row == [status : Statuses \cup {"none"}, number : Nat, assignee : Range(Members) \cup {Nobody},
        resolved : BOOLEAN, answered : BOOLEAN]

Participant == [on : BOOLEAN, window : {"none", "day", "week", "over"},
                comment : Events \cup {NoEvent}, fresh : BOOLEAN, private : BOOLEAN]

Task == [at : {"idle", "find", "assign", "number", "create", "duplicate", "participant",
               "message", "touch"},
         event : Events \cup {NoEvent}, key : Keys \cup {NoKey}, seen : Statuses \cup {"none"},
         created : BOOLEAN, found : BOOLEAN, number : Nat, tries : Nat,
         assignee : Range(Members) \cup {Nobody}]

Request == [at : {"idle", "update", "send", "private", "advance"}, key : Keys \cup {NoKey},
            person : People \cup {Nobody}, seen : Statuses \cup {"none"},
            mode : {"none", "PUBLIC_REPLY", "DM", "HUMAN_AGENT", "PRIVATE_REPLY"},
            status : Statuses \cup {"none", "same"},
            assignee : Range(Members) \cup {Nobody, "same"}]

(* Of two tickets that exist one is the newer; a worker under way has an   *)
(* event and the key of the ticket it belongs on.                          *)
TypeOK ==
  /\ ticket \in [Keys -> Row] /\ people \in [Keys -> [People -> Participant]]
  /\ inbox \in [Keys -> SUBSET Events]
  /\ newer \subseteq Keys \X Keys
  /\ \A k, l \in Keys : Exists(k) /\ Exists(l) /\ k # l => (<<k, l>> \in newer) # (<<l, k>> \in newer)
  /\ team \subseteq Range(Members)
  /\ fate \in [Events -> {"waiting", "taken", "ignored", "closed", "duplicate", "kept", "lost"}]
  /\ cause \in [Events -> SUBSET {"race", "throw", "removal"}]
  /\ task \in [Workers -> Task] /\ desk \in [Agents -> Request]
  /\ \A w \in Workers : task[w].at # "idle" => task[w].event \in Events /\ task[w].key \in Keys
  /\ spent \in [Budget -> Nat]

Init ==
  /\ ticket = [k \in Keys |-> NoTicket]
  /\ people = [k \in Keys |-> [u \in People |-> Stranger]]
  /\ inbox = [k \in Keys |-> {}]
  /\ newer = {} /\ team = Range(Members)
  /\ fate = [e \in Events |-> "waiting"] /\ cause = [e \in Events |-> {}]
  /\ task = [w \in Workers |-> NoTask]
  /\ desk = [a \in Agents |-> NoDesk]
  /\ spent = [b \in Budget |-> 0]

(* ---- ingestEvent, ingestTaggedPost ------------------------------------- *)

(* Whether the person has a row on the ticket: by IG-scoped id, where all  *)
(* people without one look alike.                                          *)
AlreadyOn(k, u) ==
  IF u \in Reachable THEN u \in Participants(k) ELSE Participants(k) \ Reachable # {}

(* The open ticket a direct message continues: the latest active one.      *)
Latest(u) ==
  LET mine == {k \in Keys : Active(k) /\ u \in Participants(k) \cap Reachable}
  IN  {k \in mine : \A l \in mine : <<l, k>> \notin newer}

Ongoing(u) == IF Latest(u) = {} THEN NoKey ELSE CHOOSE k \in Latest(u) : TRUE

CommentKey(e) ==
  IF Post[e] # NoPost THEN <<"media", Post[e]>> ELSE <<"comment", e>>

(* The dedup key of the ticket an event belongs on, NoKey when none.       *)
TargetOf(e) ==
  LET u == From[e]
      dm == IF Ongoing(u) # NoKey THEN Ongoing(u) ELSE <<"dm", u>>
  IN  CASE Kind[e] = "comment" -> CommentKey(e)
        [] Kind[e] = "dm" -> dm
        [] Kind[e] = "story" -> <<"story", u>>
        [] Kind[e] = "referral" -> <<"ref", u>>
        [] Kind[e] = "tagged" -> <<"media", Post[e]>>
        [] OTHER -> NoKey

Qualifies(e) ==
  LET u == From[e]
  IN  CASE Kind[e] = "comment" -> e \in Complaint \/ AlreadyOn(CommentKey(e), u)
        [] Kind[e] = "dm" ->
             u \in Reachable /\ (Ongoing(u) # NoKey \/ Settings["allDms"] \/ e \in Complaint)
        [] Kind[e] = "story" -> u \in Reachable /\ Settings["stories"]
        [] Kind[e] = "referral" -> u \in Reachable /\ Settings["referrals"]
        [] Kind[e] = "tagged" -> Settings["tagged"]
        [] OTHER -> FALSE

Done(w, outcome) ==
  /\ fate' = [fate EXCEPT ![task[w].event] = outcome]
  /\ task' = [task EXCEPT ![w] = NoTask]

(* A comment or message is ingested once, its row being unique; a tagged   *)
(* post again by every sync, one sync at a time.                           *)
Available(e) ==
  \/ fate[e] = "waiting" /\ Kind[e] # "tagged" /\ UNCHANGED spent
  \/ /\ Kind[e] = "tagged" /\ fate[e] # "taken" /\ Spend("sync")
     /\ \A w \in Workers : task[w].at # "idle" => Kind[task[w].event] # "tagged"

(* The reads up to the call of ingest are one step: they decide only       *)
(* whether and under which key ingest runs, and ingest reads again.        *)
IngestEvent(w, e) ==
  /\ task[w].at = "idle" /\ Available(e)
  /\ LET closed == /\ Kind[e] = "comment"
                   /\ ticket[CommentKey(e)].status \in Closing
         outcome == IF closed THEN "closed" ELSE "ignored"
     IN  IF Settings["enabled"] /\ ~closed /\ Qualifies(e)
           THEN /\ task' = [task EXCEPT ![w] =
                              [NoTask EXCEPT !.at = "find", !.event = e, !.key = TargetOf(e)]]
                /\ fate' = [fate EXCEPT ![e] = "taken"] /\ cause' = [cause EXCEPT ![e] = {}]
           ELSE fate' = [fate EXCEPT ![e] = outcome] /\ UNCHANGED <<cause, task>>
  /\ UNCHANGED <<rows, team, desk>>

(* ---- ingest ------------------------------------------------------------- *)

At(w, step) == task[w].at = step

Go(w, step) == task' = [task EXCEPT ![w].at = step]

Ingest_Reopens(w) ==
  LET k == task[w].key
  IN  /\ At(w, "find")
      /\ task' = [task EXCEPT
                    ![w].at = IF Exists(k) THEN "duplicate"
                              ELSE IF Settings["autoAssign"] THEN "assign" ELSE "number",
                    ![w].seen = ticket[k].status]
      /\ UNCHANGED <<rows, team, fate, cause, desk, spent>>

Ingest(w) ==
  LET k == task[w].key
  IN  /\ At(w, "find")
      /\ IF PostKey(k) /\ ticket[k].status \in Closing
           THEN Done(w, "closed")
           ELSE /\ task' = [task EXCEPT
                              ![w].at = IF Exists(k) THEN "duplicate"
                                        ELSE IF Settings["autoAssign"] THEN "assign" ELSE "number",
                              ![w].seen = ticket[k].status]
                /\ UNCHANGED fate
      /\ UNCHANGED <<rows, team, cause, desk, spent>>

Load(m) == Cardinality({k \in Keys : Active(k) /\ ticket[k].assignee = m})

(* The place of the least loaded member, the first to join among equals.   *)
Vacant ==
  LET here == {i \in DOMAIN Members : Members[i] \in team}
      before(i, j) == \/ Load(Members[i]) < Load(Members[j])
                      \/ Load(Members[i]) = Load(Members[j]) /\ i <= j
  IN  {i \in here : \A j \in here : before(i, j)}

VacantMember == IF Vacant = {} THEN Nobody ELSE Members[CHOOSE i \in Vacant : TRUE]

PickVacantMember(w) ==
  /\ At(w, "assign")
  /\ task' = [task EXCEPT ![w].at = "number", ![w].assignee = VacantMember]
  /\ UNCHANGED <<rows, team, fate, cause, desk, spent>>

(* The highest number there is, and one more.                              *)
NextNumber(w) ==
  /\ At(w, "number")
  /\ \E last \in {ticket[k].number : k \in Keys} :
       /\ \A k \in Keys : ticket[k].number <= last
       /\ task' = [task EXCEPT ![w].at = "create", ![w].number = last + 1]
  /\ UNCHANGED <<rows, team, fate, cause, desk, spent>>

(* ticket.create against its two unique constraints and the assignee's     *)
(* foreign key; a clash on the key adopts the ticket that is there.        *)
CreateTicket_Again(w) ==
  LET t == task[w]
      taken == \E k \in Keys : ticket[k].number = t.number
  IN  /\ At(w, "create")
      /\ IF Exists(t.key) \/ taken
           THEN Go(w, "number") /\ UNCHANGED <<ticket, newer>>
           ELSE /\ ticket' = [ticket EXCEPT ![t.key] =
                     [NoTicket EXCEPT !.status = "OPEN", !.number = t.number,
                                      !.assignee = t.assignee]]
                /\ Top(t.key)
                /\ task' = [task EXCEPT ![w].at = "duplicate", ![w].seen = "OPEN",
                                        ![w].created = TRUE]
      /\ UNCHANGED <<people, inbox, team, fate, cause, desk, spent>>

CreateTicket_Rethrows(w) ==
  LET t == task[w]
  IN  /\ At(w, "create")
      /\ IF Exists(t.key)
           THEN Done(w, "lost") /\ UNCHANGED <<ticket, newer>>
           ELSE /\ \A k \in Keys : ticket[k].number # t.number
                /\ ticket' = [ticket EXCEPT ![t.key] =
                     [NoTicket EXCEPT !.status = "OPEN", !.number = t.number,
                                      !.assignee = t.assignee]]
                /\ Top(t.key)
                /\ task' = [task EXCEPT ![w].at = "duplicate", ![w].seen = "OPEN",
                                        ![w].created = TRUE]
                /\ UNCHANGED fate
      /\ UNCHANGED <<people, inbox, team, cause, desk, spent>>

CreateTicket(w) ==
  LET t == task[w]
      adopts == Exists(t.key)
      clash == ~adopts /\ \E k \in Keys : ticket[k].number = t.number
      orphan == t.assignee # Nobody /\ t.assignee \notin team
  IN  /\ At(w, "create")
      /\ \/ /\ adopts
            /\ task' = [task EXCEPT ![w].at = "duplicate", ![w].seen = ticket[t.key].status]
            /\ UNCHANGED <<ticket, newer, fate>>
         \/ /\ clash /\ t.tries + 1 < MaxNumberTries
            /\ task' = [task EXCEPT ![w].at = "number", ![w].tries = @ + 1]
            /\ UNCHANGED <<ticket, newer, fate>>
         \/ /\ \/ clash /\ t.tries + 1 = MaxNumberTries
               \/ ~adopts /\ ~clash /\ orphan
            /\ Done(w, "lost")
            /\ UNCHANGED <<ticket, newer>>
         \/ /\ ~adopts /\ ~clash /\ ~orphan
            /\ ticket' = [ticket EXCEPT ![t.key] =
                 [NoTicket EXCEPT !.status = "OPEN", !.number = t.number,
                                  !.assignee = t.assignee]]
            /\ Top(t.key)
            /\ task' = [task EXCEPT ![w].at = "duplicate", ![w].seen = "OPEN",
                                    ![w].created = TRUE]
            /\ UNCHANGED fate
      /\ UNCHANGED <<people, inbox, team, cause, desk, spent>>

CheckDuplicate(w) ==
  LET t == task[w]
  IN  /\ At(w, "duplicate")
      /\ IF t.event \in inbox[t.key]
           THEN Done(w, "duplicate")
           ELSE /\ task' = [task EXCEPT ![w].at = "participant",
                                        ![w].found = people[t.key][From[t.event]].on]
                /\ UNCHANGED fate
      /\ UNCHANGED <<rows, team, cause, desk, spent>>

(* What an event leaves on its sender's row: a direct message (a story     *)
(* mention and a referral too) opens the messaging window.                 *)
Noted(p, e) ==
  LET seen == [p EXCEPT !.on = TRUE]
  IN  CASE Kind[e] = "comment" -> [seen EXCEPT !.comment = e, !.fresh = TRUE]
        [] Kind[e] = "tagged" -> seen
        [] OTHER -> [seen EXCEPT !.window = "day"]

Befalls(what, es) ==
  cause' = [e \in Events |-> IF e \in es THEN cause[e] \cup {what} ELSE cause[e]]

(* The events of other workers that looked for this very row of the same   *)
(* ticket before w creates it, and found none.                             *)
Overtaken(w) ==
  LET k == task[w].key
      u == From[task[w].event]
      late == {o \in Workers \ {w} : At(o, "participant") /\ ~task[o].found}
  IN  IF people[k][u].on THEN {}
      ELSE {task[o].event : o \in {v \in late : task[v].key = k /\ From[task[v].event] = u}}

(* The create of a row that another worker created meanwhile breaks        *)
(* @@unique([ticketId, igScopedId]) and the error is swallowed.            *)
SaveParticipant(w) ==
  LET t == task[w]
      u == From[t.event]
      race == ~t.found /\ people[t.key][u].on /\ u \in Reachable
  IN  /\ At(w, "participant")
      /\ IF race
           THEN Done(w, "lost") /\ UNCHANGED <<people, cause>>
           ELSE /\ Befalls("race", Overtaken(w))
                /\ people' = [people EXCEPT ![t.key][u] = Noted(@, t.event)]
                /\ Go(w, "message") /\ UNCHANGED fate
      /\ UNCHANGED <<ticket, inbox, newer, team, desk, spent>>

SaveMessage(w) ==
  LET t == task[w]
  IN  /\ At(w, "message")
      /\ inbox' = [inbox EXCEPT ![t.key] = @ \cup {t.event}]
      /\ Go(w, "touch")
      /\ UNCHANGED <<ticket, people, newer, team, fate, cause, desk, spent>>

(* The status is written by what the ticket was when ingest read it.       *)
TouchTicket(w) ==
  LET t == task[w]
      reopen == ~t.created /\ t.seen \in Closing
  IN  /\ At(w, "touch")
      /\ ticket' = IF reopen \/ t.seen = "WAITING"
                     THEN [ticket EXCEPT ![t.key].status = "OPEN", ![t.key].resolved = FALSE]
                     ELSE ticket
      /\ Top(t.key) /\ Done(w, "kept")
      /\ UNCHANGED <<people, inbox, team, cause, desk, spent>>

(* Any call may throw; WebhookEventsProcessor logs the error and goes on.  *)
Swallow(w) ==
  /\ task[w].at \in FaultSites /\ Spend("fault")
  /\ Done(w, IF At(w, "touch") THEN "kept" ELSE "lost")
  /\ Befalls("throw", {task[w].event})
  /\ UNCHANGED <<rows, team, desk>>

Work(w) ==
  \/ Ingest(w) \/ PickVacantMember(w) \/ NextNumber(w) \/ CreateTicket(w)
  \/ CheckDuplicate(w) \/ SaveParticipant(w) \/ SaveMessage(w) \/ TouchTicket(w)

(* ---- update, addNote ---------------------------------------------------- *)

(* getOwned and getMember; the page sends one change per request.          *)
Update(a, k, change) ==
  /\ desk[a].at = "idle" /\ Exists(k) /\ Spend("edit")
  /\ change.status \in Statuses \cup {"same"} /\ change.assignee \in team \cup {Nobody, "same"}
  /\ desk' = [desk EXCEPT ![a] = [NoDesk EXCEPT
                !.at = "update", !.key = k, !.seen = ticket[k].status,
                !.status = change.status, !.assignee = change.assignee]]
  /\ UNCHANGED <<rows, team, fate, cause, task>>

SaveUpdate_KeepsDate(a) ==
  LET d == desk[a]
      changes == d.status \notin {"same", d.seen}
  IN  /\ d.at = "update"
      /\ ticket' = [ticket EXCEPT ![d.key] =
           [@ EXCEPT !.status = IF changes THEN d.status ELSE @,
                     !.resolved = @ \/ (changes /\ d.status \in Closing),
                     !.assignee = IF d.assignee = "same" THEN @ ELSE d.assignee]]
      /\ desk' = [desk EXCEPT ![a] = NoDesk]
      /\ UNCHANGED <<people, inbox, newer, team, fate, cause, task, spent>>

(* A status is written, with its date, when it differs from the one read;  *)
(* an assignee deleted meanwhile breaks the foreign key: nothing is saved. *)
SaveUpdate(a) ==
  LET d == desk[a]
      changes == d.status \notin {"same", d.seen}
      saved == [ticket[d.key] EXCEPT
                  !.status = IF changes THEN d.status ELSE @,
                  !.resolved = IF changes THEN d.status \in Closing ELSE @,
                  !.assignee = IF d.assignee = "same" THEN @ ELSE d.assignee]
  IN  /\ d.at = "update"
      /\ ticket' = [ticket EXCEPT
           ![d.key] = IF d.assignee \in team \cup {Nobody, "same"} THEN saved ELSE @]
      /\ desk' = [desk EXCEPT ![a] = NoDesk]
      /\ UNCHANGED <<people, inbox, newer, team, fate, cause, task, spent>>

(* The note's row and the activity date.                                   *)
AddNote(a, k) ==
  /\ desk[a].at = "idle" /\ Exists(k) /\ (\E l \in Keys : <<l, k>> \in newer) /\ Spend("edit")
  /\ Top(k)
  /\ UNCHANGED <<ticket, people, inbox, team, fate, cause, task, desk>>

(* ---- reply -------------------------------------------------------------- *)

CanPublicReply(p, u) == u \in Reachable /\ p.comment # NoEvent

DmMode(p, u) ==
  IF u \notin Reachable THEN "none"
  ELSE CASE p.window = "day" -> "DM"
         [] p.window = "week" -> "HUMAN_AGENT"
         [] p.comment # NoEvent /\ ~p.private /\ p.fresh /\ p.window \in {"none", "over"}
              -> "PRIVATE_REPLY"
         [] OTHER -> "none"

(* Checks on rows read now; the message goes out in the next step.         *)
Reply(a, k, u, channel) ==
  LET p == people[k][u]
      mode == IF channel = "PUBLIC_REPLY" THEN channel ELSE DmMode(p, u)
  IN  /\ desk[a].at = "idle" /\ Exists(k) /\ p.on /\ Spend("reply")
      /\ IF channel = "PUBLIC_REPLY"
           THEN CanPublicReply(p, u)
           ELSE ticket[k].assignee # Nobody /\ mode # "none"
      /\ desk' = [desk EXCEPT ![a] = [NoDesk EXCEPT
                    !.at = "send", !.key = k, !.person = u, !.seen = ticket[k].status,
                    !.mode = mode]]
      /\ UNCHANGED <<rows, team, fate, cause, task>>

(* sendManual makes one attempt: a closed breaker, a free slot, an active  *)
(* account and a call Instagram accepts end in "sent"; every other end is  *)
(* recorded as a FAILED message and shown to the agent.                    *)
Send(a) ==
  /\ desk[a].at = "send"
  /\ \/ /\ "failed" \in Outcomes
        /\ desk' = [desk EXCEPT ![a] = NoDesk]
     \/ /\ "sent" \in Outcomes
        /\ desk' = [desk EXCEPT
                      ![a].at = IF desk[a].mode = "PRIVATE_REPLY" THEN "private" ELSE "advance"]
  /\ UNCHANGED <<rows, team, fate, cause, task, spent>>

MarkPrivate(a) ==
  /\ desk[a].at = "private"
  /\ people' = [people EXCEPT ![desk[a].key][desk[a].person].private = TRUE]
  /\ desk' = [desk EXCEPT ![a].at = "advance"]
  /\ UNCHANGED <<ticket, inbox, newer, team, fate, cause, task, spent>>

(* A ticket that was OPEN when the agent began is now in progress.         *)
Advance(a) ==
  LET d == desk[a]
  IN  /\ d.at = "advance"
      /\ ticket' = [ticket EXCEPT
           ![d.key].status = IF d.seen = "OPEN" THEN "IN_PROGRESS" ELSE @,
           ![d.key].answered = TRUE]
      /\ Top(d.key)
      /\ desk' = [desk EXCEPT ![a] = NoDesk]
      /\ UNCHANGED <<people, inbox, team, fate, cause, task, spent>>

(* ---- time, team --------------------------------------------------------- *)

WindowPasses(k, u) ==
  /\ people[k][u].window \in {"day", "week"} /\ Spend("hour")
  /\ people' = [people EXCEPT ![k][u].window = IF @ = "day" THEN "week" ELSE "over"]
  /\ UNCHANGED <<ticket, inbox, newer, team, fate, cause, task, desk>>

CommentAges(k, u) ==
  /\ people[k][u].fresh /\ Spend("hour")
  /\ people' = [people EXCEPT ![k][u].fresh = FALSE]
  /\ UNCHANGED <<ticket, inbox, newer, team, fate, cause, task, desk>>

(* The workers about to assign a ticket to the member.                     *)
Chosen(m) == {w \in Workers : task[w].at \in {"number", "create"} /\ task[w].assignee = m}

(* TeamService.removeMember: the user's tickets become unassigned.         *)
RemoveMember(m) ==
  /\ m \in team /\ Spend("removal")
  /\ team' = team \ {m}
  /\ ticket' = [k \in Keys |-> IF ticket[k].assignee = m
                                 THEN [ticket[k] EXCEPT !.assignee = Nobody] ELSE ticket[k]]
  /\ Befalls("removal", {task[w].event : w \in Chosen(m)})
  /\ UNCHANGED <<people, inbox, newer, fate, task, desk>>

Act(a) ==
  \/ \E k \in Keys, s \in StatusEdits : Update(a, k, [status |-> s, assignee |-> "same"])
  \/ \E k \in Keys, m \in team \cup {Nobody} :
       Update(a, k, [status |-> "same", assignee |-> m])
  \/ SaveUpdate(a)
  \/ \E k \in Keys : AddNote(a, k)
  \/ \E k \in Keys, u \in People, c \in {"DM", "PUBLIC_REPLY"} : Reply(a, k, u, c)
  \/ Send(a) \/ MarkPrivate(a) \/ Advance(a)

Next ==
  \/ \E w \in Workers, e \in Events : IngestEvent(w, e)
  \/ \E w \in Workers : Work(w) \/ Swallow(w)
  \/ \E a \in Agents : Act(a)
  \/ \E k \in Keys, u \in People : WindowPasses(k, u) \/ CommentAges(k, u)
  \/ \E m \in team : RemoveMember(m)

Spec == Init /\ [][Next]_vars

(* A worker that is idle takes an event that waits, and goes on with it;   *)
(* nothing obliges an agent, a sync, the clock or a failure.               *)
FairSpec ==
  /\ Spec
  /\ \A w \in Workers :
       WF_vars(Work(w) \/ \E e \in Events : Kind[e] # "tagged" /\ IngestEvent(w, e))

(* ---- list and counts ---------------------------------------------------- *)

(* TicketsService.list: an explicit status overrides the view.             *)
Listed(query) ==
  {k \in Keys :
     /\ Exists(k)
     /\ CASE query.status # "any" -> ticket[k].status = query.status
          [] query.view = "active" -> ticket[k].status \notin Closing
          [] query.view = "closed" -> ticket[k].status \in Closing
          [] OTHER -> TRUE
     /\ query.assignee # "any" => ticket[k].assignee = query.assignee}

Having(s) == Cardinality({k \in Keys : ticket[k].status = s})

CountsOf_AllUnassigned(me) ==
  [status |-> [s \in Statuses |-> Having(s)],
   active |-> Having("OPEN") + Having("IN_PROGRESS") + Having("WAITING"),
   unassigned |-> Cardinality({k \in Keys : Exists(k) /\ ticket[k].assignee = Nobody}),
   mine |-> Load(me)]

(* TicketsService.counts.                                                  *)
CountsOf(me) ==
  [status |-> [s \in Statuses |-> Having(s)],
   active |-> Having("OPEN") + Having("IN_PROGRESS") + Having("WAITING"),
   unassigned |-> Load(Nobody),
   mine |-> Load(me)]

Tabs == {"mine", "unassigned", "active", "closed"}

(* The tickets page: what a tab asks the list for, and the number it bears.*)
ParamsFor(tab, me) ==
  [status |-> "any",
   view |-> IF tab = "closed" THEN "closed" ELSE "active",
   assignee |-> CASE tab = "mine" -> me [] tab = "unassigned" -> Nobody [] OTHER -> "any"]

CountFor(tab, me) ==
  LET c == CountsOf(me)
  IN  CASE tab = "mine" -> c.mine
        [] tab = "unassigned" -> c.unassigned
        [] tab = "active" -> c.active
        [] OTHER -> c.status["RESOLVED"] + c.status["CLOSED"]

(* ---- properties --------------------------------------------------------- *)

(* A qualifying event is lost, no call of its ingest failing and nobody it *)
(* was to be assigned to removed meanwhile, only where another worker      *)
(* created the row of this sender on this ticket between the event's look  *)
(* for that row and its own create: neither a ticket another worker        *)
(* created nor a clash on its number loses one (createTicket, ingest).     *)
LostOnlyToARace ==
  \A e \in Events :
    fate[e] = "lost" /\ cause[e] \cap {"throw", "removal"} = {} =>
      "race" \in cause[e] /\ From[e] \in Reachable

(* "A resolved post ticket stays resolved": a worker reopens one only if   *)
(* it was not resolved when the worker looked it up, being waiting then or *)
(* not yet created (a ticket adopted at creation is not looked at again).  *)
ClosedPostsStayClosed ==
  [][\A k \in Keys, w \in Workers :
       /\ PostKey(k) /\ ticket[k].status \in Closing /\ ticket'[k].status \notin Closing
       /\ task[w].at # "idle" /\ task'[w].at = "idle"
       => task[w].seen = "WAITING" \/ task[w].number > 0]_vars

(* A closed ticket bears its resolution date, and an open one does not,    *)
(* save one a reply put in progress over a resolution it had not seen.     *)
DatedWhenResolved ==
  \A k \in Keys :
    /\ ticket[k].status \in Closing => ticket[k].resolved
    /\ ticket[k].resolved => ticket[k].status \in Closing \cup {"IN_PROGRESS"}

(* The number on a tab of the tickets page is that of the tickets the tab  *)
(* lists, although the service counts and lists by separate queries.       *)
TabsCountWhatTheyList ==
  \A me \in Range(Members), tab \in Tabs :
    CountFor(tab, me) = Cardinality(Listed(ParamsFor(tab, me)))

(* Every comment and message delivered is ingested in the end, whatever    *)
(* the workers do to each other's numbers and keys.                        *)
EveryMessageSettles ==
  <>[](\A e \in Events : Kind[e] # "tagged" => fate[e] \notin {"waiting", "taken"})
=============================================================================
