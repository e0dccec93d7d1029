------------------------------ MODULE Matching ------------------------------
(***************************************************************************)
(* The matching engine: AutomationMatchProcessor takes a match job and     *)
(* AutomationsService.matchCommentEvent decides which automation answers   *)
(* the event, queues its actions and records the outcome, one await per    *)
(* step, while other workers match other events (or, after a lost lock,    *)
(* the same one) and the user edits, pauses and deletes automations.       *)
(***************************************************************************)
EXTENDS Naturals, Sequences, FiniteSets, Functions, BullMQ

CONSTANTS
  Events,       \* CommentEvent rows, each with a match job
  Dms,          \* those whose source is DM and whose sender is known
  Sender,       \* Events -> the customer who wrote it
  Automations,  \* automations of the account
  Ranked,       \* the same, in the order priority desc, createdAt asc
  Triggered,    \* the pairs <<event, automation>> that automationMatches
  ActionIds,    \* Action rows
  Trees,        \* action trees the builder can save
  TreeOf,       \* Automations -> the tree it starts with
  Variants,     \* Automations -> the trees its user may save
  Plan,         \* Trees -> Events -> the actions dispatchActionTree reaches
  Skipped,      \* <<event, action>>: comment-only actions of a conversation
  NoEvent,      \* a worker that matches nothing
  NoAutomation, \* matchedAutomationId = null
  FaultSites,   \* calls that may fail, workers that may stop, in this instance
  MaxFaults, MaxEdits, MaxAgeings, MaxForgets

Keys == Events \X ActionIds     \* jobId `${commentEvent.id}-${action.id}`

ASSUME MatchingAssumption ==
  /\ MaxAttempts \in Nat \ {0}
  /\ NoWorker \notin Workers
  /\ Dms \subseteq Events /\ NoEvent \notin Events
  /\ NoAutomation \notin Automations
  /\ Ranked \in Seq(Automations)
  /\ Triggered \subseteq Events \X Automations
  /\ Variants \in [Automations -> SUBSET Trees]
  /\ TreeOf \in [Automations -> Trees] /\ \A a \in Automations : TreeOf[a] \in Variants[a]
  /\ Plan \in [Trees -> [Events -> Seq(ActionIds)]]
  /\ Skipped \subseteq Keys
  /\ {MaxFaults, MaxEdits, MaxAgeings, MaxForgets} \subseteq Nat

VARIABLES
  exists,    \* automations not deleted
  active,    \* automations whose status is ACTIVE
  tree,      \* Automations -> saved action tree
  status,    \* Events -> CommentEvent.status
  answerer,  \* Events -> CommentEvent.matchedAutomationId
  recent,    \* events processed within the last DM_REPLY_COOLDOWN_MS
  job,       \* automation-match queue
  pc,        \* Workers -> the await the worker is at
  event,     \* Workers -> the event it matches
  matched,   \* Workers -> the automation it found
  todo,      \* Workers -> the actions it has still to dispatch
  queued,    \* send and AI jobs BullMQ knows
  adds,      \* Keys -> how often that job was created (history)
  answers,   \* pairs <<event, automation>> of which an action was queued (history)
  shifted,   \* events whose first automation was edited into another one
             \*   when their matching had begun (history)
  overlapped,\* pairs {d, e} of DMs of which one passed the cooldown while
             \*   the same automation was answering the other (history)
  brokenOff, \* events of which an answer broke off, or a worker lost the
             \*   lock (history)
  aged,      \* events that left the cooldown window (history)
  spent      \* how much of each bound is used

userVars == <<exists, active, tree>>
rowVars == <<status, answerer, recent>>
workVars == <<pc, event, matched, todo>>
histories == <<answers, shifted, overlapped, brokenOff, aged>>
vars == <<exists, active, tree, status, answerer, recent, job, pc, event, matched, todo,
          queued, adds, answers, shifted, overlapped, brokenOff, aged, spent>>

Budget == {"fault", "edit", "age", "forget"}

Bound == [fault |-> MaxFaults, edit |-> MaxEdits, age |-> MaxAgeings, forget |-> MaxForgets]

Spend(b) ==
  /\ spent[b] < Bound[b]
  /\ spent' = [spent EXCEPT ![b] = @ + 1]

Fault(site) == site \in FaultSites /\ Spend("fault")

HistoryOK ==
  /\ answers \subseteq Events \X Automations
  /\ shifted \subseteq Events /\ brokenOff \subseteq Events /\ aged \subseteq Events
  /\ overlapped \subseteq SUBSET Events

StateOK ==
  /\ exists \subseteq Automations
  /\ active \subseteq exists
  /\ tree \in [Automations -> Trees]
  /\ status \in [Events -> {"PENDING", "MATCHED", "NO_MATCH"}]
  /\ answerer \in [Events -> Automations \cup {NoAutomation}]
  /\ recent \subseteq Events
  /\ job \in [Events -> Job]
  /\ pc \in [Workers -> {"idle", "load", "find", "cooldown", "dispatch", "noMatch", "done"}]
  /\ event \in [Workers -> Events \cup {NoEvent}]
  /\ matched \in [Workers -> Automations \cup {NoAutomation}]
  /\ todo \in [Workers -> Seq(ActionIds)]
  /\ queued \subseteq Keys
  /\ adds \in [Keys -> Nat]
  /\ spent \in [Budget -> Nat]

TypeOK == StateOK /\ HistoryOK

Init ==
  /\ exists = Automations
  /\ active = Automations
  /\ tree = TreeOf
  /\ status = [e \in Events |-> "PENDING"]
  /\ answerer = [e \in Events |-> NoAutomation]
  /\ recent = {}
  /\ job = [e \in Events |-> NewJob]
  /\ pc = [w \in Workers |-> "idle"]
  /\ event = [w \in Workers |-> NoEvent]
  /\ matched = [w \in Workers |-> NoAutomation]
  /\ todo = [w \in Workers |-> <<>>]
  /\ queued = {}
  /\ adds = [k \in Keys |-> 0]
  /\ answers = {} /\ shifted = {} /\ overlapped = {} /\ brokenOff = {} /\ aged = {}
  /\ spent = [b \in Budget |-> 0]

(* ---- The worker -------------------------------------------------------- *)

Claim_AnyState(w, e) ==
  /\ pc[w] = "idle" /\ job[e].status \notin {"active", "completed"}
  /\ job' = [job EXCEPT ![e] = Claimed(@, w)]
  /\ event' = [event EXCEPT ![w] = e]
  /\ pc' = [pc EXCEPT ![w] = "load"]
  /\ UNCHANGED <<userVars, rowVars, matched, todo, queued, adds, histories, spent>>

Claim(w, e) ==
  /\ pc[w] = "idle" /\ job[e].status = "waiting"
  /\ job' = [job EXCEPT ![e] = Claimed(@, w)]
  /\ event' = [event EXCEPT ![w] = e]
  /\ pc' = [pc EXCEPT ![w] = "load"]
  /\ UNCHANGED <<userVars, rowVars, matched, todo, queued, adds, histories, spent>>

Rest(w) ==
  /\ pc' = [pc EXCEPT ![w] = "idle"]
  /\ event' = [event EXCEPT ![w] = NoEvent]
  /\ matched' = [matched EXCEPT ![w] = NoAutomation]
  /\ todo' = [todo EXCEPT ![w] = <<>>]

Finish(w) == Rest(w) /\ job' = [job EXCEPT ![event[w]] = Returned(@, w)]
Retry(w) == Rest(w) /\ job' = [job EXCEPT ![event[w]] = Threw(@, w)]

Goto(w, step) == pc' = [pc EXCEPT ![w] = step]

(* commentEvent.findUnique and the PENDING guard.                          *)
LoadEvent(w) ==
  /\ pc[w] = "load"
  /\ \/ /\ status[event[w]] = "PENDING"
        /\ Goto(w, "find")
        /\ UNCHANGED <<event, matched, todo, job>>
     \/ /\ status[event[w]] # "PENDING"
        /\ Finish(w)
  /\ UNCHANGED <<userVars, rowVars, queued, adds, histories, spent>>

(* automationMatches of an automation that findMany returned.              *)
Answers(a, e) == a \in active /\ <<e, a>> \in Triggered

\* The one that find() returns.
Leads(a, e) ==
  \E i \in DOMAIN Ranked :
    /\ Ranked[i] = a /\ Answers(a, e)
    /\ \A j \in 1..(i - 1) : ~Answers(Ranked[j], e)

Select(w, a) ==
  /\ matched' = [matched EXCEPT ![w] = a]
  /\ todo' = [todo EXCEPT ![w] = Plan[tree[a]][event[w]]]
  /\ Goto(w, IF event[w] \in Dms THEN "cooldown" ELSE "dispatch")

NoneAnswers(w) ==
  /\ \A i \in DOMAIN Ranked : ~Answers(Ranked[i], event[w])
  /\ Goto(w, "noMatch")
  /\ UNCHANGED <<matched, todo>>

FindAutomation_Unordered(w) ==
  /\ pc[w] = "find"
  /\ \/ NoneAnswers(w)
     \/ \E a \in Range(Ranked) : Answers(a, event[w]) /\ Select(w, a)
  /\ UNCHANGED <<userVars, rowVars, event, job, queued, adds, histories, spent>>

(* automation.findMany, and the first of them that matches; its tree is    *)
(* the one read here.                                                      *)
FindAutomation(w) ==
  /\ pc[w] = "find"
  /\ \/ NoneAnswers(w)
     \/ \E a \in Automations : Leads(a, event[w]) /\ Select(w, a)
  /\ UNCHANGED <<userVars, rowVars, event, job, queued, adds, histories, spent>>

(* Another DM of this sender that this automation answered in the window.  *)
AnsweredRecently(e, a) ==
  \E d \in Dms \ {e} :
    /\ Sender[d] = Sender[e] /\ answerer[d] = a
    /\ status[d] = "MATCHED" /\ d \in recent

\* DMs of this sender that this automation is just answering.
BeingAnswered(e, a) ==
  {d \in Dms \ {e} : /\ Sender[d] = Sender[e]
                    /\ \E w \in Workers : event[w] = d /\ pc[w] = "dispatch" /\ matched[w] = a}

GoAhead(w) ==
  /\ Goto(w, "dispatch")
  /\ overlapped' = overlapped \cup {{d, event[w]} : d \in BeingAnswered(event[w], matched[w])}

CheckCooldown_Skipped(w) ==
  /\ pc[w] = "cooldown"
  /\ GoAhead(w)
  /\ UNCHANGED <<userVars, rowVars, event, matched, todo, job, queued, adds,
                 answers, shifted, brokenOff, aged, spent>>

CheckCooldown(w) ==
  /\ pc[w] = "cooldown"
  /\ \/ ~AnsweredRecently(event[w], matched[w]) /\ GoAhead(w)
     \/ AnsweredRecently(event[w], matched[w]) /\ Goto(w, "noMatch") /\ UNCHANGED overlapped
  /\ UNCHANGED <<userVars, rowVars, event, matched, todo, job, queued, adds,
                 answers, shifted, brokenOff, aged, spent>>

AddSend_FreshId(k) ==
  /\ queued' = queued \cup {k}
  /\ adds' = [adds EXCEPT ![k] = @ + 1]

(* add with the stable id of the pair: a no-op while the job is known.     *)
AddSend(k) ==
  /\ queued' = queued \cup {k}
  /\ adds' = [adds EXCEPT ![k] = IF k \in queued THEN @ ELSE @ + 1]

Current(w) == <<event[w], Head(todo[w])>>

Queue(w) ==
  /\ AddSend(Current(w))
  /\ answers' = IF Current(w) \in queued THEN answers
                ELSE answers \cup {<<event[w], matched[w]>>}

(* dispatchAction: queue the action, or skip one a conversation cannot do. *)
Dispatch(w) ==
  /\ pc[w] = "dispatch" /\ todo[w] # <<>>
  /\ IF Current(w) \in Skipped THEN UNCHANGED <<queued, adds, answers>> ELSE Queue(w)
  /\ todo' = [todo EXCEPT ![w] = Tail(@)]
  /\ UNCHANGED <<userVars, rowVars, pc, event, matched, job,
                 shifted, overlapped, brokenOff, aged, spent>>

BreakOff(w) ==
  /\ brokenOff' = brokenOff \cup {event[w]}
  /\ UNCHANGED <<shifted, overlapped, aged>>

(* The add, or a read dispatchAction makes first, throws; the add may have *)
(* had its effect.                                                         *)
DispatchFails(w) ==
  /\ pc[w] = "dispatch" /\ todo[w] # <<>> /\ Current(w) \notin Skipped
  /\ Fault("add")
  /\ Queue(w) \/ UNCHANGED <<queued, adds, answers>>
  /\ Retry(w)
  /\ BreakOff(w)
  /\ UNCHANGED <<userVars, rowVars>>

Record(e, s, a) ==
  /\ status' = [status EXCEPT ![e] = s]
  /\ answerer' = [answerer EXCEPT ![e] = IF s = "MATCHED" THEN a ELSE @]
  /\ recent' = recent \cup {e}

(* All actions are queued: commentEvent.update to MATCHED, whatever the    *)
(* status is by now.  The automation it points to must still be there.     *)
MarkMatched_Early(w) ==
  /\ pc[w] = "dispatch" /\ matched[w] \in exists
  /\ Record(event[w], "MATCHED", matched[w])
  /\ Goto(w, IF todo[w] = <<>> THEN "done" ELSE "dispatch")
  /\ UNCHANGED <<userVars, event, matched, todo, job, queued, adds, histories, spent>>

MarkMatched(w) ==
  /\ pc[w] = "dispatch" /\ todo[w] = <<>> /\ matched[w] \in exists
  /\ Record(event[w], "MATCHED", matched[w])
  /\ Goto(w, "done")
  /\ UNCHANGED <<userVars, event, matched, todo, job, queued, adds, histories, spent>>

MarkMatchedFails_Swallowed(w) ==
  /\ pc[w] = "dispatch" /\ todo[w] = <<>> /\ matched[w] \notin exists
  /\ Finish(w)
  /\ UNCHANGED <<userVars, rowVars, queued, adds, histories, spent>>

(* The update throws: the automation was deleted (foreign key), or the     *)
(* database failed, before or after it committed.                          *)
MarkMatchedFails(w) ==
  /\ pc[w] = "dispatch" /\ todo[w] = <<>>
  /\ \/ matched[w] \notin exists /\ UNCHANGED <<rowVars, spent>>
     \/ /\ matched[w] \in exists /\ Fault("mark")
        /\ Record(event[w], "MATCHED", matched[w]) \/ UNCHANGED rowVars
  /\ Retry(w)
  /\ BreakOff(w)
  /\ UNCHANGED <<userVars, queued, adds, answers>>

MarkNoMatch(w) ==
  /\ pc[w] = "noMatch"
  /\ Record(event[w], "NO_MATCH", NoAutomation)
  /\ Goto(w, "done")
  /\ UNCHANGED <<userVars, event, matched, todo, job, queued, adds, histories, spent>>

MarkNoMatchFails(w) ==
  /\ pc[w] = "noMatch"
  /\ Fault("mark")
  /\ Record(event[w], "NO_MATCH", NoAutomation) \/ UNCHANGED rowVars
  /\ Retry(w)
  /\ UNCHANGED <<userVars, queued, adds, histories>>

Complete(w) ==
  /\ pc[w] = "done"
  /\ Finish(w)
  /\ UNCHANGED <<userVars, rowVars, queued, adds, histories, spent>>

Unlocked(e, w) == [job EXCEPT ![e] = IF @.lock = w THEN Stalled(@) ELSE @]

Crash(w) ==
  /\ pc[w] # "idle"
  /\ Fault("crash")
  /\ job' = Unlocked(event[w], w)
  /\ Rest(w)
  /\ IF pc[w] = "dispatch" THEN BreakOff(w) ELSE UNCHANGED <<shifted, overlapped, brokenOff, aged>>
  /\ UNCHANGED <<userVars, rowVars, queued, adds, answers>>

(* The worker lives on, but its job is taken from it.                      *)
LockLost(w) ==
  /\ pc[w] # "idle" /\ job[event[w]].lock = w
  /\ Fault("stall")
  /\ job' = Unlocked(event[w], w)
  /\ BreakOff(w)
  /\ UNCHANGED <<userVars, rowVars, workVars, queued, adds, answers>>

(* ---- The user, time and the send queue --------------------------------- *)

Begun(e) ==
  \/ \E a \in Automations : <<e, a>> \in answers
  \/ \E w \in Workers : event[w] = e /\ matched[w] # NoAutomation

\* Another automation comes first for an event whose matching has begun.
Shift ==
  /\ shifted' = shifted \cup
       {e \in Events : Begun(e) /\ \E a \in Automations : Leads(a, e) # Leads(a, e)'}
  /\ UNCHANGED <<answers, overlapped, brokenOff, aged>>

Toggle(a) ==
  /\ a \in exists
  /\ Spend("edit")
  /\ active' = IF a \in active THEN active \ {a} ELSE active \cup {a}
  /\ Shift
  /\ UNCHANGED <<exists, tree, rowVars, job, workVars, queued, adds>>

EditTree(a, t) ==
  /\ a \in exists /\ t \in Variants[a] /\ tree[a] # t
  /\ Spend("edit")
  /\ tree' = [tree EXCEPT ![a] = t]
  /\ UNCHANGED <<exists, active, rowVars, job, workVars, queued, adds, histories>>

(* automations.remove: matchedAutomationId is set null (onDelete SetNull). *)
Delete(a) ==
  /\ a \in exists
  /\ Spend("edit")
  /\ exists' = exists \ {a}
  /\ active' = active \ {a}
  /\ answerer' = [e \in Events |-> IF answerer[e] = a THEN NoAutomation ELSE answerer[e]]
  /\ Shift
  /\ UNCHANGED <<tree, status, recent, job, workVars, queued, adds>>

(* 24 hours pass after an event was processed.                             *)
AgeOut(e) ==
  /\ e \in recent
  /\ Spend("age")
  /\ recent' = recent \ {e}
  /\ aged' = aged \cup {e}
  /\ UNCHANGED <<userVars, status, answerer, job, workVars, queued, adds,
                 answers, shifted, overlapped, brokenOff>>

(* The send job's id is free again: completed and removed, or taken out of *)
(* the failed set by the requeue scan.                                     *)
Forget(k) ==
  /\ k \in queued
  /\ Spend("forget")
  /\ queued' = queued \ {k}
  /\ UNCHANGED <<userVars, rowVars, job, workVars, adds, histories>>

WorkerStep(w) ==
  \/ LoadEvent(w) \/ FindAutomation(w) \/ CheckCooldown(w) \/ Dispatch(w)
  \/ MarkMatched(w) \/ MarkNoMatch(w) \/ Complete(w)
  \/ matched[w] \notin exists /\ MarkMatchedFails(w)

Next ==
  \/ \E w \in Workers :
       \/ WorkerStep(w) \/ DispatchFails(w) \/ MarkMatchedFails(w) \/ MarkNoMatchFails(w)
       \/ Crash(w) \/ LockLost(w)
       \/ \E e \in Events : Claim(w, e)
  \/ \E a \in Automations : Toggle(a) \/ Delete(a) \/ \E t \in Trees : EditTree(a, t)
  \/ \E e \in Events : AgeOut(e)
  \/ \E k \in Keys : Forget(k)

Spec == Init /\ [][Next]_vars

(* Workers run and BullMQ hands them jobs; nothing else is obliged.        *)
Fairness ==
  /\ \A w \in Workers : WF_vars(WorkerStep(w))
  /\ \A e \in Events : WF_vars(\E w \in Workers : Claim(w, e))

FairSpec == Spec /\ Fairness

(* ---- Properties --------------------------------------------------------- *)

(* However often a match job runs, an action is queued once for an event,  *)
(* unless BullMQ was made to forget the first job (dispatchAction's stable *)
(* jobId).                                                                 *)
EachActionOnce == \A k \in Keys : adds[k] <= 1 + spent["forget"]

(* MATCHED is the last thing written: every action of a tree the named     *)
(* automation had has been queued by then, so a failure part way through   *)
(* never drops the rest (matchCommentEvent dispatches before it marks).    *)
MatchedMeansAnswered ==
  \A e \in Events : status[e] = "MATCHED" /\ answerer[e] # NoAutomation =>
    \E t \in Variants[answerer[e]] : \A x \in Range(Plan[t][e]) :
      <<e, x>> \in Skipped \/ adds[<<e, x>>] > 0

(* Whichever attempts of whichever workers answer an event, the answers    *)
(* come from one automation; from two only if an edit put another one      *)
(* first for this event when its matching had begun: nothing remembers     *)
(* which one the first attempt chose (matchCommentEvent's find).           *)
OneAutomationAnswers ==
  \A e \in Events : \A a, b \in Automations :
    <<e, a>> \in answers /\ <<e, b>> \in answers => a = b \/ e \in shifted

(* The same automation answers a customer's DMs at most once per cooldown  *)
(* window, whatever becomes of their rows.  Two DMs are both answered only *)
(* if one of them passed the check while the other was just being          *)
(* answered, or an answer to one broke off before it was recorded          *)
(* (DM_REPLY_COOLDOWN_MS and the check in matchCommentEvent).              *)
OneAnswerPerWindow ==
  \A a \in exists : \A d, e \in Dms \ aged :
    /\ d # e /\ Sender[d] = Sender[e]
    /\ <<d, a>> \in answers /\ <<e, a>> \in answers
    => {d, e} \in overlapped \/ {d, e} \cap brokenOff # {}

(* Every event is decided, or its job is in the failed set to be seen.     *)
EveryEventSettles ==
  \A e \in Events : <>(status[e] # "PENDING" \/ job[e].status = "failed")

Promise == INSTANCE Answering WITH
  Wanted <- [a \in Automations |-> [e \in Events |->
               {x \in Range(Plan[TreeOf[a]][e]) : <<e, x>> \notin Skipped}]],
  copies <- adds,
  verdict <- status

(* While nobody edits the automations and BullMQ keeps its jobs, matching   *)
(* with its retries, crashes and second workers is what Answering says: one *)
(* automation, each of its actions once, the verdict last and final.        *)
KeepsPromise == Promise!Spec
=============================================================================
