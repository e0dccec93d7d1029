--------------------------- MODULE MatchingProofs ---------------------------
(***************************************************************************)
(* What holds of matching for every set of events, automations, action     *)
(* trees and workers and every bound on failures and edits; and that, when *)
(* nobody edits and BullMQ forgets nothing, it does what Answering says.   *)
(***************************************************************************)
EXTENDS Matching, TLAPS, SequenceTheorems

-----------------------------------------------------------------------------
(* The inductive invariants.                                               *)

\* A worker that is not idle has an event, and one that answers it an
\* automation.
Busy ==
  \A w \in Workers :
    /\ pc[w] # "idle" => event[w] \in Events
    /\ pc[w] \in {"cooldown", "dispatch"} => matched[w] \in Automations

Typed == StateOK /\ Busy

\* A job is created when BullMQ does not know it, so once more than it was
\* forgotten; what BullMQ knows was created.
Counted ==
  \A k \in Keys :
    /\ adds[k] <= (IF k \in queued THEN 1 ELSE 0) + spent["forget"]
    /\ k \in queued => adds[k] > 0

\* Of a tree the automation had, each action is still to be dispatched, or
\* was, or cannot be.
Covers(a, e, rest) ==
  \E t \in Variants[a] : \A x \in Range(Plan[t][e]) :
    x \in rest \/ <<e, x>> \in Skipped \/ adds[<<e, x>>] > 0

Covered ==
  /\ \A a \in Automations : tree[a] \in Variants[a]
  /\ \A w \in Workers : pc[w] \in {"cooldown", "dispatch"} =>
       Covers(matched[w], event[w], Range(todo[w]))
  /\ \A e \in Events : status[e] = "MATCHED" /\ answerer[e] # NoAutomation =>
       Covers(answerer[e], e, {})

IInv == Typed /\ Counted /\ Covered

-----------------------------------------------------------------------------

(* What a worker does to a job record keeps exactly the active jobs locked *)
(* and an attempt in hand for each job that may still run.                 *)
LEMMA JobTyping ==
  ASSUME NEW j \in Job, NEW w \in Workers
  PROVE  /\ j.status = "waiting" => Claimed(j, w) \in Job
         /\ Returned(j, w) \in Job
         /\ Threw(j, w) \in Job
         /\ j.lock = w => Stalled(j) \in Job
<1> USE MatchingAssumption DEF Job, JobStatus
<1>1. j.status = "waiting" => Claimed(j, w) \in Job
  BY DEF Claimed
<1>2. Returned(j, w) \in Job
  BY DEF Returned
<1>3. Threw(j, w) \in Job
  BY DEF Threw
<1>4. j.lock = w => Stalled(j) \in Job
  BY DEF Stalled
<1>. QED BY <1>1, <1>2, <1>3, <1>4

(* Each unit of a bound that is spent leaves the counters natural numbers; *)
(* only BullMQ's forgetting counts as forgetting.                          *)
LEMMA SpendTyping ==
  ASSUME StateOK, NEW b \in Budget, Spend(b)
  PROVE  /\ spent' \in [Budget -> Nat]
         /\ spent'["forget"] = spent["forget"] + (IF b = "forget" THEN 1 ELSE 0)
BY DEF StateOK, Spend, Budget

(* Letting go of a job, however it ended, leaves the worker idle.          *)
LEMMA RestTyping ==
  ASSUME Typed, NEW w \in Workers, Rest(w)
  PROVE  /\ pc' \in [Workers -> {"idle", "load", "find", "cooldown", "dispatch", "noMatch", "done"}]
         /\ event' \in [Workers -> Events \cup {NoEvent}]
         /\ matched' \in [Workers -> Automations \cup {NoAutomation}]
         /\ todo' \in [Workers -> Seq(ActionIds)]
         /\ Busy'
         /\ pc'[w] = "idle"
         /\ \A o \in Workers \ {w} :
              /\ pc'[o] = pc[o] /\ event'[o] = event[o]
              /\ matched'[o] = matched[o] /\ todo'[o] = todo[o]
BY DEF Typed, StateOK, Busy, Rest

(* So do the job records when their worker returns, throws or loses them.  *)
LEMMA ReleaseTyping ==
  ASSUME Typed, NEW w \in Workers, pc[w] # "idle"
  PROVE  /\ Finish(w) => job' \in [Events -> Job] /\ Rest(w)
         /\ Retry(w) => job' \in [Events -> Job] /\ Rest(w)
         /\ Unlocked(event[w], w) \in [Events -> Job]
<1>1. event[w] \in Events /\ job[event[w]] \in Job /\ job \in [Events -> Job]
  BY DEF Typed, StateOK, Busy
<1>. QED BY <1>1, JobTyping DEF Finish, Retry, Unlocked

(* Recording a verdict keeps the types of the rows.                        *)
LEMMA RecordTyping ==
  ASSUME StateOK, NEW e \in Events, NEW s \in {"MATCHED", "NO_MATCH"},
         NEW a \in Automations \cup {NoAutomation}, Record(e, s, a)
  PROVE  /\ status' \in [Events -> {"PENDING", "MATCHED", "NO_MATCH"}]
         /\ answerer' \in [Events -> Automations \cup {NoAutomation}]
         /\ recent' \subseteq Events
BY DEF StateOK, Record

(* The action at the head of a worker's list, and the rest of the list.    *)
LEMMA TodoTyping ==
  ASSUME Typed, NEW w \in Workers, pc[w] = "dispatch", todo[w] # <<>>
  PROVE  /\ Current(w) \in Keys /\ Current(w) = <<event[w], Head(todo[w])>>
         /\ Tail(todo[w]) \in Seq(ActionIds)
         /\ Range(todo[w]) = {Head(todo[w])} \cup Range(Tail(todo[w]))
<1>1. PICK s : s = todo[w]
  OBVIOUS
<1>2. s \in Seq(ActionIds) /\ s # <<>> /\ event[w] \in Events
  BY <1>1 DEF Typed, StateOK, Busy
<1>3. Head(s) \in ActionIds /\ Tail(s) \in Seq(ActionIds)
  BY <1>2, HeadTailProperties
<1>4. Range(s) = {Head(s)} \cup Range(Tail(s))
  <2>1. Len(s) \in Nat \ {0} /\ DOMAIN s = 1..Len(s) /\ Head(s) = s[1]
    BY <1>2
  <2>2. DOMAIN Tail(s) = 1..(Len(s) - 1) /\ \A i \in 1..(Len(s) - 1) : Tail(s)[i] = s[i + 1]
    BY <1>2, <2>1, HeadTailProperties
  <2>3. ASSUME NEW i \in 1..Len(s), i # 1
        PROVE  i - 1 \in 1..(Len(s) - 1) /\ Tail(s)[i - 1] = s[i]
    BY <2>1, <2>2, <2>3
  <2>. QED BY <2>1, <2>2, <2>3 DEF Range
<1>. QED BY <1>1, <1>2, <1>3, <1>4 DEF Current, Keys

(* Queueing a send job, or finding it queued.                              *)
LEMMA AddSendTyping ==
  ASSUME Typed, NEW k \in Keys, AddSend(k)
  PROVE  /\ queued' = queued \cup {k} /\ queued' \subseteq Keys
         /\ adds' \in [Keys -> Nat]
         /\ adds'[k] = (IF k \in queued THEN adds[k] ELSE adds[k] + 1)
         /\ \A o \in Keys \ {k} : adds'[o] = adds[o]
BY DEF Typed, StateOK, AddSend

-----------------------------------------------------------------------------
(* Types.                                                                  *)

(* Every step of a worker, failing or not, keeps the types.                *)
LEMMA WorkerTyping ==
  ASSUME Typed, NEW w \in Workers,
         \/ WorkerStep(w) \/ DispatchFails(w) \/ MarkMatchedFails(w) \/ MarkNoMatchFails(w)
         \/ Crash(w) \/ LockLost(w)
         \/ \E e \in Events : Claim(w, e)
  PROVE  Typed'
<1> USE DEF userVars, rowVars, workVars
<1>0. StateOK /\ Busy
  BY DEF Typed
<1>1. CASE LoadEvent(w)
  <2>1. CASE Finish(w) /\ UNCHANGED <<userVars, rowVars, queued, adds, spent>>
    BY <1>0, <1>1, <2>1, ReleaseTyping, RestTyping DEF LoadEvent, Typed, StateOK
  <2>2. CASE Goto(w, "find") /\ UNCHANGED <<event, matched, todo, job>>
             /\ UNCHANGED <<userVars, rowVars, queued, adds, spent>>
    BY <1>0, <1>1, <2>2 DEF LoadEvent, Goto, Typed, StateOK, Busy
  <2>. QED BY <1>1, <2>1, <2>2 DEF LoadEvent
<1>2. CASE FindAutomation(w)
  <2>1. CASE NoneAnswers(w)
    BY <1>0, <1>2, <2>1 DEF FindAutomation, NoneAnswers, Goto, Typed, StateOK, Busy
  <2>2. ASSUME NEW a \in Automations, Select(w, a)
        PROVE  Typed'
    <3>3. event[w] \in Events /\ tree[a] \in Trees
      BY <1>0, <1>2, <2>2 DEF FindAutomation, StateOK, Busy
    <3>4. Plan[tree[a]][event[w]] \in Seq(ActionIds)
      BY <3>3, MatchingAssumption
    <3>5. todo' \in [Workers -> Seq(ActionIds)]
      BY <1>0, <2>2, <3>4 DEF Select, StateOK
    <3>. QED BY <1>0, <1>2, <2>2, <3>5
             DEF FindAutomation, Select, Goto, Typed, StateOK, Busy
  <2>. QED BY <1>2, <2>1, <2>2 DEF FindAutomation
<1>3. CASE CheckCooldown(w)
  BY <1>0, <1>3 DEF CheckCooldown, GoAhead, Goto, Typed, StateOK, Busy
<1>4. CASE Dispatch(w)
  <2>1. queued' \subseteq Keys /\ adds' \in [Keys -> Nat]
    BY <1>0, <1>4, TodoTyping, AddSendTyping DEF Queue, Dispatch, Typed, StateOK
  <2>2. todo' \in [Workers -> Seq(ActionIds)]
    BY <1>0, <1>4, TodoTyping DEF Queue, Dispatch, Typed, StateOK
  <2>. QED BY <1>0, <1>4, <2>1, <2>2 DEF Queue, Dispatch, Typed, StateOK, Busy
<1>5. CASE MarkMatched(w)
  <2>1. event[w] \in Events /\ matched[w] \in Automations
    BY <1>0, <1>5 DEF MarkMatched, Busy
  <2>. QED BY <1>0, <1>5, <2>1, RecordTyping DEF MarkMatched, Goto, Typed, StateOK, Busy
<1>6. CASE MarkNoMatch(w)
  <2>1. event[w] \in Events
    BY <1>0, <1>6 DEF MarkNoMatch, Busy
  <2>. QED BY <1>0, <1>6, <2>1, RecordTyping DEF MarkNoMatch, Goto, Typed, StateOK, Busy
<1>7. CASE Complete(w)
  BY <1>0, <1>7, ReleaseTyping, RestTyping DEF Complete, Typed, StateOK
<1>8. CASE MarkMatchedFails(w)
  <2>1. event[w] \in Events /\ matched[w] \in Automations /\ pc[w] # "idle"
    BY <1>0, <1>8 DEF MarkMatchedFails, Busy
  <2>2. spent' \in [Budget -> Nat]
    BY <1>0, <1>8, SpendTyping DEF MarkMatchedFails, Fault, Budget, StateOK
  <2>. QED BY <1>0, <1>8, <2>1, <2>2, RecordTyping, ReleaseTyping, RestTyping
           DEF MarkMatchedFails, Typed, StateOK
<1>9. CASE DispatchFails(w)
  <2>1. queued' \subseteq Keys /\ adds' \in [Keys -> Nat]
    BY <1>0, <1>9, TodoTyping, AddSendTyping DEF Queue, DispatchFails, Typed, StateOK
  <2>2. spent' \in [Budget -> Nat]
    BY <1>0, <1>9, SpendTyping DEF Queue, DispatchFails, Fault, Budget
  <2>. QED BY <1>0, <1>9, <2>1, <2>2, ReleaseTyping, RestTyping DEF Queue, DispatchFails, Typed, StateOK
<1>10. CASE MarkNoMatchFails(w)
  <2>1. event[w] \in Events /\ pc[w] # "idle"
    BY <1>0, <1>10 DEF MarkNoMatchFails, Busy
  <2>2. spent' \in [Budget -> Nat]
    BY <1>0, <1>10, SpendTyping DEF MarkNoMatchFails, Fault, Budget
  <2>. QED BY <1>0, <1>10, <2>1, <2>2, RecordTyping, ReleaseTyping, RestTyping
           DEF MarkNoMatchFails, Typed, StateOK
<1>11. CASE Crash(w)
  <2>1. spent' \in [Budget -> Nat]
    BY <1>0, <1>11, SpendTyping DEF Crash, Fault, Budget
  <2>. QED BY <1>0, <1>11, <2>1, ReleaseTyping, RestTyping DEF Crash, Typed, StateOK
<1>12. CASE LockLost(w)
  <2>1. spent' \in [Budget -> Nat]
    BY <1>0, <1>12, SpendTyping DEF LockLost, Fault, Budget
  <2>. QED BY <1>0, <1>12, <2>1, ReleaseTyping DEF LockLost, Typed, StateOK, Busy
<1>13. ASSUME NEW e \in Events, Claim(w, e)
       PROVE  Typed'
  <2>1. job' \in [Events -> Job]
    BY <1>0, <1>13, JobTyping DEF Claim, StateOK
  <2>. QED BY <1>0, <1>13, <2>1 DEF Claim, Typed, StateOK, Busy
<1>. QED
  BY <1>1, <1>2, <1>3, <1>4, <1>5, <1>6, <1>7, <1>8, <1>9, <1>10, <1>11, <1>12, <1>13
     DEF WorkerStep

(* So do edits, the passing of a day and BullMQ's forgetting.              *)
LEMMA OtherTyping ==
  ASSUME Typed,
         \/ \E a \in Automations : Toggle(a) \/ Delete(a) \/ \E t \in Trees : EditTree(a, t)
         \/ \E e \in Events : AgeOut(e)
         \/ \E k \in Keys : Forget(k)
  PROVE  Typed'
<1> USE DEF userVars, rowVars, workVars, Budget
<1>0. StateOK /\ Busy
  BY DEF Typed
<1>1. ASSUME NEW a \in Automations, Toggle(a)
      PROVE  Typed'
  BY <1>0, <1>1, SpendTyping DEF Toggle, Typed, StateOK, Busy
<1>2. ASSUME NEW a \in Automations, Delete(a)
      PROVE  Typed'
  BY <1>0, <1>2, SpendTyping DEF Delete, Typed, StateOK, Busy
<1>3. ASSUME NEW a \in Automations, NEW t \in Trees, EditTree(a, t)
      PROVE  Typed'
  BY <1>0, <1>3, SpendTyping DEF EditTree, Typed, StateOK, Busy
<1>4. ASSUME NEW e \in Events, AgeOut(e)
      PROVE  Typed'
  BY <1>0, <1>4, SpendTyping DEF AgeOut, Typed, StateOK, Busy
<1>5. ASSUME NEW k \in Keys, Forget(k)
      PROVE  Typed'
  BY <1>0, <1>5, SpendTyping DEF Forget, Typed, StateOK, Busy
<1>. QED BY <1>1, <1>2, <1>3, <1>4, <1>5

-----------------------------------------------------------------------------
(* Job creations.                                                          *)

(* A step that queues nothing, or what is not queued, keeps the count.     *)
LEMMA CountFrame ==
  ASSUME Typed, Counted,
         \/ UNCHANGED <<queued, adds>>
         \/ \E k \in Keys : AddSend(k),
         spent'["forget"] = spent["forget"]
  PROVE  Counted'
<1>0. /\ adds \in [Keys -> Nat] /\ spent["forget"] \in Nat
      /\ \A k \in Keys : adds[k] <= (IF k \in queued THEN 1 ELSE 0) + spent["forget"]
      /\ \A k \in Keys : k \in queued => adds[k] > 0
  BY DEF Typed, StateOK, Budget, Counted
<1>1. CASE UNCHANGED <<queued, adds>>
  BY <1>0, <1>1 DEF Counted
<1>2. ASSUME NEW k \in Keys, AddSend(k)
      PROVE  Counted'
  <2>1. /\ queued' = queued \cup {k}
        /\ adds'[k] = (IF k \in queued THEN adds[k] ELSE adds[k] + 1)
        /\ \A o \in Keys \ {k} : adds'[o] = adds[o]
    BY <1>2, AddSendTyping
  <2>2. adds'[k] <= 1 + spent["forget"] /\ adds'[k] > 0
    BY <1>0, <2>1
  <2>. QED BY <1>0, <2>1, <2>2 DEF Counted
<1>. QED BY <1>1, <1>2

(* Whatever happens, no job is created that BullMQ knows.                  *)
LEMMA NextCounted ==
  ASSUME Typed, Counted, [Next]_vars
  PROVE  Counted'
<1> USE DEF userVars, rowVars, workVars, Budget
<1>0. StateOK
  BY DEF Typed
<1>1. ASSUME NEW w \in Workers,
             \/ WorkerStep(w) \/ DispatchFails(w) \/ MarkMatchedFails(w) \/ MarkNoMatchFails(w)
             \/ Crash(w) \/ LockLost(w) \/ \E e \in Events : Claim(w, e)
      PROVE  Counted'
  <2>1. spent'["forget"] = spent["forget"]
    <3>1. \/ spent' = spent
          \/ Spend("fault")
      BY <1>1 DEF Queue, WorkerStep, LoadEvent, FindAutomation, CheckCooldown, GoAhead, Dispatch, MarkMatched,
         MarkNoMatch, Complete, DispatchFails, MarkMatchedFails, MarkNoMatchFails, Crash, LockLost,
         Claim, Fault
    <3>2. Spend("fault") => spent'["forget"] = spent["forget"]
      BY <1>0, SpendTyping, "fault" \in Budget, "fault" # "forget" DEF StateOK
    <3>. QED BY <3>1, <3>2
  <2>2. \/ UNCHANGED <<queued, adds>>
        \/ \E k \in Keys : AddSend(k)
    <3>1. CASE Dispatch(w)
      BY <3>1, TodoTyping DEF Queue, Dispatch
    <3>2. CASE DispatchFails(w)
      BY <3>2, TodoTyping DEF Queue, DispatchFails
    <3>3. CASE ~Dispatch(w) /\ ~DispatchFails(w)
      BY <1>1, <3>3 DEF WorkerStep, LoadEvent, FindAutomation, CheckCooldown, MarkMatched,
         MarkNoMatch, Complete, MarkMatchedFails, MarkNoMatchFails, Crash, LockLost, Claim
    <3>. QED BY <3>1, <3>2, <3>3
  <2>. QED BY <2>1, <2>2, CountFrame
<1>2. ASSUME NEW a \in Automations, Toggle(a) \/ Delete(a) \/ \E t \in Trees : EditTree(a, t)
      PROVE  Counted'
  <2>1. Spend("edit") /\ UNCHANGED <<queued, adds>>
    BY <1>2 DEF Toggle, Delete, EditTree
  <2>2. spent'["forget"] = spent["forget"]
    BY <1>0, <2>1, SpendTyping, "edit" \in Budget, "edit" # "forget" DEF StateOK
  <2>. QED BY <2>1, <2>2, CountFrame
<1>3. ASSUME NEW e \in Events, AgeOut(e)
      PROVE  Counted'
  <2>1. Spend("age") /\ UNCHANGED <<queued, adds>>
    BY <1>3 DEF AgeOut
  <2>2. spent'["forget"] = spent["forget"]
    BY <1>0, <2>1, SpendTyping, "age" \in Budget, "age" # "forget" DEF StateOK
  <2>. QED BY <2>1, <2>2, CountFrame
<1>4. ASSUME NEW k \in Keys, Forget(k)
      PROVE  Counted'
  <2>1. spent'["forget"] = spent["forget"] + 1 /\ queued' = queued \ {k} /\ adds' = adds
    BY <1>0, <1>4, SpendTyping DEF Forget
  <2>2. spent["forget"] \in Nat /\ adds \in [Keys -> Nat]
    BY <1>0 DEF StateOK
  <2>. QED BY <2>1, <2>2 DEF Counted
<1>5. CASE UNCHANGED vars
  BY <1>5, CountFrame DEF vars
<1>. QED BY <1>1, <1>2, <1>3, <1>4, <1>5 DEF Next

-----------------------------------------------------------------------------
(* What a verdict stands for.                                              *)

(* Jobs created stay created, so what covered a tree still does.           *)
LEMMA CoversMonotone ==
  ASSUME NEW a, NEW e \in Events, NEW rest, NEW more, Covers(a, e, rest),
         \A x \in rest : x \in more \/ <<e, x>> \in Skipped \/ adds'[<<e, x>>] > 0,
         \A t \in Variants[a] : Range(Plan[t][e]) \subseteq ActionIds,
         \A k \in Keys : adds[k] > 0 => adds'[k] > 0
  PROVE  \E t \in Variants[a] : \A x \in Range(Plan[t][e]) :
           x \in more \/ <<e, x>> \in Skipped \/ adds'[<<e, x>>] > 0
<1>1. PICK t \in Variants[a] : \A x \in Range(Plan[t][e]) :
        x \in rest \/ <<e, x>> \in Skipped \/ adds[<<e, x>>] > 0
  BY DEF Covers
<1>2. \A x \in Range(Plan[t][e]) : <<e, x>> \in Keys
  BY DEF Keys
<1>. QED BY <1>1, <1>2

(* What a tree reaches are actions.                                        *)
LEMMA PlanRange ==
  ASSUME NEW a \in Automations, NEW t \in Variants[a], NEW e \in Events
  PROVE  Range(Plan[t][e]) \subseteq ActionIds
<1>1. Plan[t][e] \in Seq(ActionIds)
  BY MatchingAssumption
<1>2. PICK s : s = Plan[t][e]
  OBVIOUS
<1>3. s \in Seq(ActionIds) => Range(s) \subseteq ActionIds
  BY DEF Range
<1>. QED BY <1>1, <1>2, <1>3

(* No step takes a created job out of the history.                         *)
LEMMA AddsGrow ==
  ASSUME Typed, [Next]_vars
  PROVE  \A k \in Keys : adds[k] > 0 => adds'[k] > 0
<1> USE DEF userVars, rowVars, workVars
<1>1. adds \in [Keys -> Nat]
  BY DEF Typed, StateOK
<1>2. ASSUME NEW c \in Keys, AddSend(c)
      PROVE  \A k \in Keys : adds[k] > 0 => adds'[k] > 0
  BY <1>1, <1>2, AddSendTyping
<1>3. \/ adds' = adds
      \/ \E c \in Keys : AddSend(c)
  <2>1. ASSUME NEW w \in Workers, Dispatch(w)
        PROVE  adds' = adds \/ \E c \in Keys : AddSend(c)
    BY <2>1, TodoTyping DEF Queue, Dispatch
  <2>2. ASSUME NEW w \in Workers, DispatchFails(w)
        PROVE  adds' = adds \/ \E c \in Keys : AddSend(c)
    BY <2>2, TodoTyping DEF Queue, DispatchFails
  <2>3. ASSUME NEW w \in Workers,
               \/ LoadEvent(w) \/ FindAutomation(w) \/ CheckCooldown(w) \/ MarkMatched(w)
               \/ MarkNoMatch(w) \/ Complete(w) \/ MarkMatchedFails(w) \/ MarkNoMatchFails(w)
               \/ Crash(w) \/ LockLost(w) \/ \E e \in Events : Claim(w, e)
        PROVE  adds' = adds
    BY <2>3 DEF LoadEvent, FindAutomation, CheckCooldown, GoAhead, MarkMatched, MarkNoMatch, Complete,
       MarkMatchedFails, MarkNoMatchFails, Crash, LockLost, Claim
  <2>4. (\E a \in Automations : Toggle(a) \/ Delete(a) \/ \E t \in Trees : EditTree(a, t))
        \/ (\E e \in Events : AgeOut(e)) \/ (\E k \in Keys : Forget(k)) \/ UNCHANGED vars
          => adds' = adds
    BY DEF Toggle, Delete, EditTree, AgeOut, Forget, vars
  <2>. QED BY <2>1, <2>2, <2>3, <2>4 DEF Next, WorkerStep
<1>. QED BY <1>1, <1>2, <1>3

(* Steps that leave the verdicts alone and move only one worker, which     *)
(* does not become an answering one, keep the rest.                        *)
LEMMA CoverFrame ==
  ASSUME Typed, Covered, [Next]_vars, NEW w \in Workers,
         tree' = tree,
         \A o \in Workers \ {w} :
           pc'[o] = pc[o] /\ event'[o] = event[o] /\ matched'[o] = matched[o] /\ todo'[o] = todo[o],
         pc'[w] \in {"cooldown", "dispatch"} =>
           Covers(matched[w], event[w], Range(todo[w]))' /\ matched'[w] \in Automations,
         \A e \in Events :
           \/ status'[e] # "MATCHED" \/ answerer'[e] = NoAutomation
           \/ status'[e] = status[e] /\ answerer'[e] = answerer[e]
           \/ answerer'[e] \in Automations /\ Covers(answerer[e], e, {})'
  PROVE  Covered'
<1>1. \A k \in Keys : adds[k] > 0 => adds'[k] > 0
  BY AddsGrow
<1>2. ASSUME NEW o \in Workers, pc'[o] \in {"cooldown", "dispatch"}
      PROVE  Covers(matched[o], event[o], Range(todo[o]))'
  <2>1. CASE o = w
    BY <1>2, <2>1
  <2>2. CASE o # w
    <3>1. PICK a, e, rest : a = matched[o] /\ e = event[o] /\ rest = Range(todo[o])
      OBVIOUS
    <3>2. /\ a \in Automations /\ e \in Events /\ Covers(a, e, rest)
      BY <1>2, <2>2, <3>1 DEF Typed, Busy, Covered
    <3>3. \E t \in Variants[a] : \A x \in Range(Plan[t][e]) :
            x \in rest \/ <<e, x>> \in Skipped \/ adds'[<<e, x>>] > 0
      BY <1>1, <3>2, PlanRange, CoversMonotone
    <3>4. matched'[o] = a /\ event'[o] = e /\ Range(todo'[o]) = rest
      BY <2>2, <3>1
    <3>. QED BY <3>3, <3>4 DEF Covers
  <2>. QED BY <2>1, <2>2
<1>3. ASSUME NEW e \in Events, status'[e] = "MATCHED", answerer'[e] # NoAutomation
      PROVE  Covers(answerer[e], e, {})'
  <2>1. CASE status'[e] = status[e] /\ answerer'[e] = answerer[e]
    <3>1. PICK a, rest : a = answerer[e] /\ rest = {}
      OBVIOUS
    <3>2. a \in Automations /\ Covers(a, e, rest)
      BY <1>3, <2>1, <3>1 DEF Typed, StateOK, Covered
    <3>3. \E t \in Variants[a] : \A x \in Range(Plan[t][e]) :
            x \in rest \/ <<e, x>> \in Skipped \/ adds'[<<e, x>>] > 0
      BY <1>1, <3>2, PlanRange, CoversMonotone
    <3>4. answerer'[e] = a
      BY <2>1, <3>1
    <3>. QED BY <3>1, <3>3, <3>4 DEF Covers
  <2>. QED BY <1>3, <2>1
<1>. QED BY <1>2, <1>3 DEF Covered

(* An answering worker's tree stays covered by what it has dispatched and  *)
(* what it will, and when nothing is left it is MATCHED.                   *)
LEMMA WorkerCovered ==
  ASSUME Typed, Counted, Covered, NEW w \in Workers,
         \/ WorkerStep(w) \/ DispatchFails(w) \/ MarkMatchedFails(w) \/ MarkNoMatchFails(w)
         \/ Crash(w) \/ LockLost(w)
         \/ \E e \in Events : Claim(w, e)
  PROVE  Covered'
<1> USE DEF userVars, rowVars, workVars
<1>0. /\ Next /\ [Next]_vars
      /\ StateOK /\ Busy
  BY DEF Next, Typed
<1>1. /\ pc \in [Workers -> {"idle", "load", "find", "cooldown", "dispatch", "noMatch", "done"}]
      /\ event \in [Workers -> Events \cup {NoEvent}]
      /\ matched \in [Workers -> Automations \cup {NoAutomation}]
      /\ todo \in [Workers -> Seq(ActionIds)]
      /\ status \in [Events -> {"PENDING", "MATCHED", "NO_MATCH"}]
      /\ answerer \in [Events -> Automations \cup {NoAutomation}]
  BY <1>0 DEF StateOK
\* Steps after which the worker answers nothing, and that record nothing.
<1>2. ASSUME tree' = tree, UNCHANGED <<status, answerer>>,
             \A o \in Workers \ {w} :
               pc'[o] = pc[o] /\ event'[o] = event[o] /\ matched'[o] = matched[o] /\ todo'[o] = todo[o],
             pc'[w] \notin {"cooldown", "dispatch"}
      PROVE  Covered'
  BY <1>0, <1>2, CoverFrame
<1>3. ASSUME tree' = tree, UNCHANGED <<status, answerer>>, Rest(w)
      PROVE  Covered'
  BY <1>2, <1>3, RestTyping
\* Steps that only record a verdict, and leave the worker unanswering.
<1>4. ASSUME NEW e \in Events, NEW s \in {"MATCHED", "NO_MATCH"},
             NEW a \in Automations \cup {NoAutomation},
             e = event[w], a = IF s = "MATCHED" THEN matched[w] ELSE NoAutomation,
             Record(e, s, a), tree' = tree, adds' = adds,
             s = "MATCHED" => pc[w] = "dispatch" /\ todo[w] = <<>>,
             \A o \in Workers \ {w} :
               pc'[o] = pc[o] /\ event'[o] = event[o] /\ matched'[o] = matched[o] /\ todo'[o] = todo[o],
             pc'[w] \notin {"cooldown", "dispatch"}
      PROVE  Covered'
  <2>1. ASSUME NEW d \in Events
        PROVE  \/ status'[d] # "MATCHED" \/ answerer'[d] = NoAutomation
               \/ status'[d] = status[d] /\ answerer'[d] = answerer[d]
               \/ answerer'[d] \in Automations /\ Covers(answerer[d], d, {})'
    <3>1. CASE d # e
      BY <1>1, <1>4, <3>1 DEF Record
    <3>2. CASE d = e /\ s = "NO_MATCH"
      BY <1>1, <1>4, <3>2 DEF Record
    <3>3. CASE d = e /\ s = "MATCHED"
      <4>1. status'[d] = "MATCHED" /\ answerer'[d] = a /\ a = matched[w] /\ event[w] = d
        BY <1>1, <1>4, <3>3 DEF Record
      <4>2. a \in Automations /\ Covers(a, d, Range(todo[w]))
        BY <1>0, <1>4, <3>3, <4>1 DEF Busy, Covered
      <4>3. Range(todo[w]) = {}
        BY <1>4, <3>3 DEF Range
      <4>. QED BY <1>4, <4>1, <4>2, <4>3 DEF Covers
    <3>. QED BY <3>1, <3>2, <3>3
  <2>. QED BY <1>0, <1>4, <2>1, CoverFrame
<1>5. CASE LoadEvent(w)
  BY <1>1, <1>2, <1>3, <1>5 DEF LoadEvent, Finish, Goto
<1>6. CASE FindAutomation(w)
  <2>1. CASE NoneAnswers(w)
    BY <1>1, <1>2, <1>6, <2>1 DEF FindAutomation, NoneAnswers, Goto
  <2>2. ASSUME NEW a \in Automations, Select(w, a)
        PROVE  Covered'
    <3>1. PICK e, t : e = event[w] /\ t = tree[a]
      OBVIOUS
    <3>2. a \in Automations /\ t \in Variants[a] /\ e \in Events
      BY <1>0, <1>6, <2>2, <3>1, MatchingAssumption DEF FindAutomation, Busy, Covered
    <3>3. /\ matched'[w] = a /\ todo'[w] = Plan[t][e] /\ event' = event /\ tree' = tree
          /\ UNCHANGED <<status, answerer>>
          /\ \A o \in Workers \ {w} :
               pc'[o] = pc[o] /\ matched'[o] = matched[o] /\ todo'[o] = todo[o]
      BY <1>1, <1>6, <2>2, <3>1 DEF FindAutomation, Select, Goto
    <3>4. Covers(matched[w], event[w], Range(todo[w]))'
      BY <3>1, <3>2, <3>3 DEF Covers
    <3>. QED BY <1>0, <3>2, <3>3, <3>4, CoverFrame
  <2>. QED BY <1>6, <2>1, <2>2 DEF FindAutomation
<1>7. CASE CheckCooldown(w)
  <2>1. /\ \A o \in Workers \ {w} : pc'[o] = pc[o]
        /\ tree' = tree /\ UNCHANGED <<event, matched, todo, status, answerer, adds>>
    BY <1>1, <1>7 DEF CheckCooldown, GoAhead, Goto
  <2>2. matched[w] \in Automations /\ Covers(matched[w], event[w], Range(todo[w]))
    BY <1>0, <1>7 DEF CheckCooldown, Busy, Covered
  <2>3. Covers(matched[w], event[w], Range(todo[w]))'
    BY <2>1, <2>2 DEF Covers
  <2>. QED BY <1>0, <2>1, <2>2, <2>3, CoverFrame
<1>8. CASE Dispatch(w)
  <2>1. PICK a, e, rest, more, x :
          /\ a = matched[w] /\ e = event[w] /\ x = Head(todo[w])
          /\ rest = Range(todo[w]) /\ more = Range(Tail(todo[w]))
    OBVIOUS
  <2>2. a \in Automations /\ e \in Events /\ Covers(a, e, rest)
    BY <1>0, <1>8, <2>1 DEF Queue, Dispatch, Busy, Covered
  <2>3. Current(w) = <<e, x>> /\ Current(w) \in Keys /\ rest = {x} \cup more
    BY <1>8, <2>1, TodoTyping DEF Queue, Dispatch
  <2>4. <<e, x>> \in Skipped \/ adds'[<<e, x>>] > 0
    <3>1. CASE <<e, x>> \in Skipped
      BY <3>1
    <3>2. CASE AddSend(<<e, x>>)
      BY <2>3, <3>2, AddSendTyping DEF Typed, StateOK, Counted
    <3>. QED BY <1>8, <2>3, <3>1, <3>2 DEF Queue, Dispatch
  <2>5. \A k \in Keys : adds[k] > 0 => adds'[k] > 0
    BY <1>0, AddsGrow
  <2>6. \E t \in Variants[a] : \A y \in Range(Plan[t][e]) :
          y \in more \/ <<e, y>> \in Skipped \/ adds'[<<e, y>>] > 0
    <3>1. \A y \in rest : y \in more \/ <<e, y>> \in Skipped \/ adds'[<<e, y>>] > 0
      BY <2>3, <2>4
    <3>. QED BY <2>2, <2>5, <3>1, PlanRange, CoversMonotone
  <2>7. /\ matched' = matched /\ event' = event /\ pc' = pc /\ tree' = tree
        /\ UNCHANGED <<status, answerer>>
        /\ Range(todo'[w]) = more /\ \A o \in Workers \ {w} : todo'[o] = todo[o]
    BY <1>1, <1>8, <2>1 DEF Queue, Dispatch
  <2>8. Covers(matched[w], event[w], Range(todo[w]))'
    BY <2>1, <2>6, <2>7 DEF Covers
  <2>. QED BY <1>0, <2>1, <2>2, <2>7, <2>8, CoverFrame
<1>9. CASE MarkMatched(w) \/ MarkMatchedFails(w)
  <2>1. /\ pc[w] = "dispatch" /\ todo[w] = <<>> /\ tree' = tree /\ adds' = adds
        /\ Record(event[w], "MATCHED", matched[w]) \/ UNCHANGED <<status, answerer>>
        /\ \A o \in Workers \ {w} :
             pc'[o] = pc[o] /\ event'[o] = event[o] /\ matched'[o] = matched[o] /\ todo'[o] = todo[o]
        /\ pc'[w] \notin {"cooldown", "dispatch"}
    BY <1>1, <1>9, RestTyping DEF MarkMatched, MarkMatchedFails, Goto, Retry
  <2>2. event[w] \in Events /\ matched[w] \in Automations
    BY <1>0, <2>1 DEF Busy
  <2>. QED BY <1>2, <1>4, <2>1, <2>2
<1>10. CASE MarkNoMatch(w) \/ MarkNoMatchFails(w)
  <2>1. /\ pc[w] = "noMatch" /\ tree' = tree /\ adds' = adds
        /\ Record(event[w], "NO_MATCH", NoAutomation) \/ UNCHANGED <<status, answerer>>
        /\ \A o \in Workers \ {w} :
             pc'[o] = pc[o] /\ event'[o] = event[o] /\ matched'[o] = matched[o] /\ todo'[o] = todo[o]
        /\ pc'[w] \notin {"cooldown", "dispatch"}
    BY <1>1, <1>10, RestTyping DEF MarkNoMatch, MarkNoMatchFails, Goto, Retry
  <2>2. event[w] \in Events
    BY <1>0, <2>1 DEF Busy
  <2>. QED BY <1>2, <1>4, <2>1, <2>2
<1>11. CASE Complete(w) \/ DispatchFails(w) \/ Crash(w)
  BY <1>3, <1>11 DEF Queue, Complete, Finish, DispatchFails, Retry, Crash
<1>12. CASE LockLost(w)
  <2>1. UNCHANGED <<tree, status, answerer, pc, event, matched, todo, adds>>
    BY <1>12 DEF LockLost
  <2>. QED BY <2>1 DEF Covered, Covers
<1>13. ASSUME NEW e \in Events, Claim(w, e)
       PROVE  Covered'
  BY <1>1, <1>2, <1>13 DEF Claim
<1>. QED
  BY <1>5, <1>6, <1>7, <1>8, <1>9, <1>10, <1>11, <1>12, <1>13 DEF WorkerStep

(* Editing, deleting, waiting and forgetting keep it too: a tree is only   *)
(* ever replaced by one its user may save, and a deleted automation is no  *)
(* longer named.                                                           *)
LEMMA OtherCovered ==
  ASSUME Typed, Covered,
         \/ \E a \in Automations : Toggle(a) \/ Delete(a) \/ \E t \in Trees : EditTree(a, t)
         \/ \E e \in Events : AgeOut(e)
         \/ \E k \in Keys : Forget(k)
  PROVE  Covered'
<1> USE DEF userVars, rowVars, workVars
<1>1. CASE UNCHANGED <<tree, status, answerer, workVars, adds>>
  BY <1>1 DEF Covered, Covers
<1>2. ASSUME NEW a \in Automations, Delete(a)
      PROVE  Covered'
  BY <1>2 DEF Delete, Covered, Covers, Typed, StateOK
<1>3. ASSUME NEW a \in Automations, NEW t \in Trees, EditTree(a, t)
      PROVE  Covered'
  <2>1. \A b \in Automations : tree'[b] \in Variants[b]
    BY <1>3 DEF EditTree, Covered, Typed, StateOK
  <2>. QED BY <1>3, <2>1 DEF EditTree, Covered, Covers
<1>. QED BY <1>1, <1>2, <1>3 DEF Toggle, AgeOut, Forget

-----------------------------------------------------------------------------
(* The theorems.                                                           *)

LEMMA InitIInv == Init => IInv
<1> SUFFICES ASSUME Init PROVE IInv
  OBVIOUS
<1>1. NewJob \in Job
  BY MatchingAssumption DEF NewJob, Job, JobStatus
<1>2. StateOK
  BY <1>1, MatchingAssumption DEF Init, StateOK, Budget, Keys
<1>3. Busy
  BY DEF Init, Busy
<1>4. Counted
  BY DEF Init, Counted, Budget
<1>5. Covered
  BY MatchingAssumption DEF Init, Covered
<1>. QED BY <1>2, <1>3, <1>4, <1>5 DEF IInv, Typed

LEMMA NextIInv == IInv /\ [Next]_vars => IInv'
<1> SUFFICES ASSUME IInv, [Next]_vars PROVE IInv'
  OBVIOUS
<1>1. Typed /\ Counted /\ Covered
  BY DEF IInv
<1>2. Counted'
  BY <1>1, NextCounted
<1>3. ASSUME NEW w \in Workers,
             \/ WorkerStep(w) \/ DispatchFails(w) \/ MarkMatchedFails(w) \/ MarkNoMatchFails(w)
             \/ Crash(w) \/ LockLost(w) \/ \E e \in Events : Claim(w, e)
      PROVE  Typed' /\ Covered'
  BY <1>1, <1>3, WorkerTyping, WorkerCovered
<1>4. ASSUME \/ \E a \in Automations : Toggle(a) \/ Delete(a) \/ \E t \in Trees : EditTree(a, t)
             \/ \E e \in Events : AgeOut(e)
             \/ \E k \in Keys : Forget(k)
      PROVE  Typed' /\ Covered'
  BY <1>1, <1>4, OtherTyping, OtherCovered
<1>5. ASSUME UNCHANGED vars PROVE Typed' /\ Covered'
  <2>1. Typed'
    BY <1>1, <1>5 DEF vars, Typed, StateOK, Busy
  <2>2. Covered'
    BY <1>1, <1>5 DEF vars, Covered, Covers
  <2>. QED BY <2>1, <2>2
<1>6. Next => Typed' /\ Covered'
  BY <1>3, <1>4 DEF Next
<1>. QED BY <1>2, <1>5, <1>6 DEF IInv

LEMMA Inductive == Spec => []IInv
BY InitIInv, NextIInv, PTL DEF Spec

(* The histories record events, automations and pairs of messages.         *)
LEMMA NextHistory ==
  ASSUME Typed, HistoryOK, [Next]_vars
  PROVE  HistoryOK'
<1> USE DEF HistoryOK
<1>1. ASSUME NEW w \in Workers, pc[w] # "idle",
             BreakOff(w) \/ UNCHANGED <<shifted, overlapped, brokenOff, aged>>,
             (Queue(w) /\ pc[w] = "dispatch") \/ answers' = answers
      PROVE  HistoryOK'
  <2>1. event[w] \in Events /\ (pc[w] = "dispatch" => matched[w] \in Automations)
    BY <1>1 DEF Typed, Busy
  <2>. QED BY <1>1, <2>1 DEF Queue, BreakOff
<1>2. ASSUME NEW w \in Workers, CheckCooldown(w)
      PROVE  HistoryOK'
  <2>1. event[w] \in Events /\ Dms \subseteq Events
    BY <1>2, MatchingAssumption DEF Typed, Busy, CheckCooldown
  <2>. QED BY <1>2, <2>1 DEF CheckCooldown, GoAhead, BeingAnswered
<1>3. ASSUME UNCHANGED histories
      PROVE  HistoryOK'
  BY <1>3 DEF histories
<1>4. ASSUME NEW w \in Workers,
             \/ LoadEvent(w) \/ FindAutomation(w) \/ MarkMatched(w) \/ MarkNoMatch(w)
             \/ Complete(w) \/ MarkNoMatchFails(w) \/ \E e \in Events : Claim(w, e)
      PROVE  HistoryOK'
  BY <1>3, <1>4 DEF LoadEvent, FindAutomation, MarkMatched, MarkNoMatch, Complete, MarkNoMatchFails, Claim
<1>5. ASSUME NEW w \in Workers,
             Dispatch(w) \/ DispatchFails(w) \/ MarkMatchedFails(w) \/ Crash(w) \/ LockLost(w)
      PROVE  HistoryOK'
  BY <1>1, <1>5 DEF Dispatch, DispatchFails, MarkMatchedFails, Crash, LockLost
<1>6. ASSUME \/ \E a \in Automations : Toggle(a) \/ Delete(a)
             \/ \E e \in Events : AgeOut(e)
      PROVE  HistoryOK'
  BY <1>6 DEF Toggle, Delete, Shift, AgeOut, Typed, StateOK
<1>7. ASSUME \/ \E a \in Automations : \E t \in Trees : EditTree(a, t)
             \/ \E k \in Keys : Forget(k)
             \/ UNCHANGED vars
      PROVE  HistoryOK'
  BY <1>3, <1>7 DEF EditTree, Forget, vars, histories
<1>. QED BY <1>2, <1>4, <1>5, <1>6, <1>7 DEF Next, WorkerStep

(* Types, job records included, for every instance.                        *)
THEOREM MatchingTypes == Spec => []TypeOK
<1>1. Init => HistoryOK
  BY DEF Init, HistoryOK
<1>2. IInv /\ HistoryOK /\ [Next]_vars => HistoryOK'
  BY NextHistory DEF IInv
<1>3. IInv /\ HistoryOK => TypeOK
  BY DEF IInv, Typed, TypeOK
<1>. QED BY <1>1, <1>2, <1>3, Inductive, PTL DEF Spec

(* However many workers, retries, lost locks and edits: an action is       *)
(* queued for an event once, and once more each time BullMQ forgot the job *)
(* (dispatchAction's stable jobId).                                        *)
THEOREM QueuedOnce == Spec => []EachActionOnce
<1>1. IInv => EachActionOnce
  <2> SUFFICES ASSUME IInv, NEW k \in Keys PROVE adds[k] <= 1 + spent["forget"]
    BY DEF EachActionOnce
  <2>. QED BY DEF IInv, Typed, StateOK, Counted, Budget
<1>. QED BY <1>1, Inductive, PTL

(* An event marked MATCHED has had every action of a tree of the named     *)
(* automation queued, whatever failed or was edited on the way             *)
(* (matchCommentEvent dispatches before it marks).                         *)
THEOREM VerdictComesLast == Spec => []MatchedMeansAnswered
<1>1. IInv => MatchedMeansAnswered
  BY DEF IInv, Covered, Covers, MatchedMeansAnswered
<1>. QED BY <1>1, Inductive, PTL

-----------------------------------------------------------------------------
(* Matching implements Answering, as long as nobody edits, BullMQ forgets  *)
(* nothing, and no message is subject to the cooldown.                     *)

Undisturbed == MaxEdits = 0 /\ MaxForgets = 0 /\ Dms = {}

\* The first automation that matches the event.
First(e, a) ==
  \E i \in DOMAIN Ranked :
    /\ a = Ranked[i] /\ <<e, a>> \in Triggered
    /\ \A j \in 1..(i - 1) : <<e, Ranked[j]>> \notin Triggered

\* The actions it answers with, if they are not skipped.
Reached(a, e) == {x \in Range(Plan[TreeOf[a]][e]) : <<e, x>> \notin Skipped}

\* Nothing was edited or forgotten.
Constant ==
  /\ active = Automations /\ exists = Automations /\ tree = TreeOf
  /\ \A k \in Keys : adds[k] = IF k \in queued THEN 1 ELSE 0

\* A worker answers with the first automation, and what it has not dispatched
\* is queued already.
OnTrack(w) ==
  /\ pc[w] # "cooldown"
  /\ pc[w] = "noMatch" => \A a \in Automations : ~First(event[w], a)
  /\ pc[w] = "dispatch" =>
       /\ First(event[w], matched[w])
       /\ Range(todo[w]) \subseteq Range(Plan[TreeOf[matched[w]]][event[w]])
       /\ \A x \in Reached(matched[w], event[w]) :
            x \in Range(todo[w]) \/ <<event[w], x>> \in queued

\* What is queued for an event is the first automation's, all of it once the
\* event is MATCHED; and there is none when it is NO_MATCH.
Faithful(e) ==
  /\ \A x \in ActionIds : <<e, x>> \in queued =>
       \E a \in Automations : First(e, a) /\ x \in Reached(a, e)
  /\ status[e] = "MATCHED" =>
       \E a \in Automations : First(e, a) /\ \A x \in Reached(a, e) : <<e, x>> \in queued
  /\ status[e] = "NO_MATCH" => \A a \in Automations : ~First(e, a)

Kept ==
  /\ Constant
  /\ \A w \in Workers : OnTrack(w)
  /\ \A e \in Events : Faithful(e)

(* There is one first automation.                                          *)
LEMMA OneFirst ==
  ASSUME NEW e \in Events, NEW a, NEW b, First(e, a), First(e, b)
  PROVE  a = b
<1>1. DOMAIN Ranked = 1..Len(Ranked) /\ Len(Ranked) \in Nat
  BY MatchingAssumption
<1>2. PICK i \in DOMAIN Ranked :
        /\ a = Ranked[i] /\ <<e, a>> \in Triggered
        /\ \A j \in 1..(i - 1) : <<e, Ranked[j]>> \notin Triggered
  BY DEF First
<1>3. PICK k \in DOMAIN Ranked :
        /\ b = Ranked[k] /\ <<e, b>> \in Triggered
        /\ \A j \in 1..(k - 1) : <<e, Ranked[j]>> \notin Triggered
  BY DEF First
<1>4. ~(i < k)
  BY <1>1, <1>2, <1>3
<1>5. ~(k < i)
  BY <1>1, <1>2, <1>3
<1>. QED BY <1>1, <1>2, <1>3, <1>4, <1>5

(* What the first automation that answers is, and that nothing is when     *)
(* none does, follow from the list alone while every automation is active. *)
LEMMA FoundFirst ==
  ASSUME active = Automations, NEW e \in Events
  PROVE  /\ \A i \in DOMAIN Ranked :
              Answers(Ranked[i], e) /\ (\A j \in 1..(i - 1) : ~Answers(Ranked[j], e))
                => Ranked[i] \in Automations /\ First(e, Ranked[i])
         /\ (\A i \in DOMAIN Ranked : ~Answers(Ranked[i], e)) =>
              \A a \in Automations : ~First(e, a)
<1>1. DOMAIN Ranked = 1..Len(Ranked) /\ Len(Ranked) \in Nat
      /\ \A i \in DOMAIN Ranked : Ranked[i] \in Automations
  BY MatchingAssumption
<1>2. ASSUME NEW i \in DOMAIN Ranked, Answers(Ranked[i], e),
             \A j \in 1..(i - 1) : ~Answers(Ranked[j], e)
      PROVE  First(e, Ranked[i])
  <2>1. ASSUME NEW j \in 1..(i - 1)
        PROVE  <<e, Ranked[j]>> \notin Triggered
    BY <1>1, <1>2, <2>1 DEF Answers
  <2>. QED BY <1>2, <2>1 DEF First, Answers
<1>3. ASSUME \A i \in DOMAIN Ranked : ~Answers(Ranked[i], e)
      PROVE  \A a \in Automations : ~First(e, a)
  BY <1>1, <1>3 DEF First, Answers
<1>. QED BY <1>1, <1>2, <1>3

(* No step edits an automation or forgets a job.                           *)
LEMMA NoEdits ==
  ASSUME Undisturbed, Typed
  PROVE  ~Spend("edit") /\ ~Spend("forget")
<1>1. spent["edit"] \in Nat /\ spent["forget"] \in Nat
  BY DEF Typed, StateOK, Budget
<1>2. Bound["edit"] = 0 /\ Bound["forget"] = 0
  BY DEF Undisturbed, Bound
<1>. QED BY <1>1, <1>2 DEF Spend

(* A frame for workers that answer nothing after the step.                 *)
LEMMA KeptFrame ==
  ASSUME Typed, Kept, NEW w \in Workers,
         UNCHANGED <<userVars, status, queued, adds>>,
         \A o \in Workers \ {w} :
           pc'[o] = pc[o] /\ event'[o] = event[o] /\ matched'[o] = matched[o] /\ todo'[o] = todo[o],
         OnTrack(w)'
  PROVE  Kept'
<1>1. Constant'
  BY DEF Kept, Constant, userVars
<1>2. \A e \in Events : Faithful(e)'
  BY DEF Kept, Faithful
<1>3. \A o \in Workers : OnTrack(o)'
  <2>1. ASSUME NEW o \in Workers \ {w} PROVE OnTrack(o)'
    BY <2>1 DEF Kept, OnTrack
  <2>. QED BY <2>1
<1>. QED BY <1>1, <1>2, <1>3 DEF Kept

(* The same when the verdict is recorded.                                  *)
LEMMA RecordKept ==
  ASSUME Typed, Kept, NEW w \in Workers, NEW e \in Events,
         NEW s \in {"MATCHED", "NO_MATCH"}, status' = [status EXCEPT ![e] = s],
         UNCHANGED <<userVars, queued, adds>>,
         \A o \in Workers \ {w} :
           pc'[o] = pc[o] /\ event'[o] = event[o] /\ matched'[o] = matched[o] /\ todo'[o] = todo[o],
         pc'[w] \notin {"cooldown", "dispatch", "noMatch"},
         s = "MATCHED" =>
           \E a \in Automations : First(e, a) /\ \A x \in Reached(a, e) : <<e, x>> \in queued,
         s = "NO_MATCH" => \A a \in Automations : ~First(e, a)
  PROVE  Kept'
<1>1. Constant'
  BY DEF Kept, Constant, userVars
<1>2. \A d \in Events : Faithful(d)'
  <2>1. ASSUME NEW d \in Events PROVE Faithful(d)'
    <3>1. status'[d] = IF d = e THEN s ELSE status[d]
      BY DEF Typed, StateOK
    <3>2. Faithful(d)
      BY DEF Kept
    <3>. QED BY <3>1, <3>2 DEF Faithful
  <2>. QED BY <2>1
<1>3. \A o \in Workers : OnTrack(o)'
  <2>1. ASSUME NEW o \in Workers \ {w} PROVE OnTrack(o)'
    BY <2>1 DEF Kept, OnTrack
  <2>2. OnTrack(w)'
    BY DEF OnTrack
  <2>. QED BY <2>1, <2>2
<1>. QED BY <1>1, <1>2, <1>3 DEF Kept

(* The same when an action of the first automation is queued, or was.      *)
LEMMA QueueKept ==
  ASSUME Typed, Kept, NEW w \in Workers, NEW e \in Events, NEW x \in ActionIds, NEW a \in Automations,
         AddSend(<<e, x>>), First(e, a), x \in Reached(a, e),
         UNCHANGED <<userVars, status>>,
         \A o \in Workers \ {w} :
           pc'[o] = pc[o] /\ event'[o] = event[o] /\ matched'[o] = matched[o] /\ todo'[o] = todo[o],
         OnTrack(w)'
  PROVE  Kept'
<1>1. /\ <<e, x>> \in Keys /\ queued' = queued \cup {<<e, x>>}
      /\ adds'[<<e, x>>] = (IF <<e, x>> \in queued THEN adds[<<e, x>>] ELSE adds[<<e, x>>] + 1)
      /\ \A k \in Keys \ {<<e, x>>} : adds'[k] = adds[k]
  <2>1. <<e, x>> \in Keys
    BY DEF Keys
  <2>. QED BY <2>1, AddSendTyping
<1>2. Constant'
  <2>1. \A k \in Keys : adds'[k] = IF k \in queued' THEN 1 ELSE 0
    BY <1>1 DEF Kept, Constant
  <2>. QED BY <2>1 DEF Kept, Constant, userVars
<1>3. \A d \in Events : Faithful(d)'
  <2>1. ASSUME NEW d \in Events PROVE Faithful(d)'
    <3>1. Faithful(d)
      BY DEF Kept
    <3>2. ASSUME NEW y \in ActionIds, <<d, y>> \in queued'
          PROVE  \E b \in Automations : First(d, b) /\ y \in Reached(b, d)
      BY <1>1, <3>1, <3>2 DEF Faithful
    <3>. QED BY <1>1, <3>1, <3>2 DEF Faithful
  <2>. QED BY <2>1
<1>4. \A o \in Workers : OnTrack(o)'
  <2>1. ASSUME NEW o \in Workers \ {w} PROVE OnTrack(o)'
    BY <1>1, <2>1 DEF Kept, OnTrack
  <2>. QED BY <2>1
<1>. QED BY <1>2, <1>3, <1>4 DEF Kept

(* Every step of a worker keeps to the first automation.                   *)
LEMMA WorkerKept ==
  ASSUME Undisturbed, Typed, Kept, NEW w \in Workers,
         \/ WorkerStep(w) \/ DispatchFails(w) \/ MarkMatchedFails(w) \/ MarkNoMatchFails(w)
         \/ Crash(w) \/ LockLost(w)
         \/ \E e \in Events : Claim(w, e)
  PROVE  Kept'
<1> USE DEF userVars, rowVars, workVars
<1>0. /\ StateOK /\ Busy
      /\ Constant /\ OnTrack(w)
      /\ Dms = {} /\ exists = Automations
  BY DEF Typed, Kept, Constant, Undisturbed
<1>1. /\ pc \in [Workers -> {"idle", "load", "find", "cooldown", "dispatch", "noMatch", "done"}]
      /\ event \in [Workers -> Events \cup {NoEvent}]
      /\ matched \in [Workers -> Automations \cup {NoAutomation}]
      /\ todo \in [Workers -> Seq(ActionIds)]
  BY <1>0 DEF StateOK
<1>2. ASSUME UNCHANGED <<userVars, status, queued, adds>>,
             \A o \in Workers \ {w} :
               pc'[o] = pc[o] /\ event'[o] = event[o] /\ matched'[o] = matched[o] /\ todo'[o] = todo[o],
             pc'[w] \notin {"cooldown", "dispatch", "noMatch"}
      PROVE  Kept'
  <2>1. OnTrack(w)'
    BY <1>2 DEF OnTrack
  <2>. QED BY <1>2, <2>1, KeptFrame
<1>3. ASSUME UNCHANGED <<userVars, status, queued, adds>>, Rest(w)
      PROVE  Kept'
  BY <1>2, <1>3, RestTyping
<1>4. ASSUME NEW e \in Events, NEW s \in {"MATCHED", "NO_MATCH"}, NEW a,
             e = event[w], Record(e, s, a), UNCHANGED <<userVars, queued, adds>>,
             s = "MATCHED" => pc[w] = "dispatch" /\ todo[w] = <<>>,
             s = "NO_MATCH" => pc[w] = "noMatch",
             \A o \in Workers \ {w} :
               pc'[o] = pc[o] /\ event'[o] = event[o] /\ matched'[o] = matched[o] /\ todo'[o] = todo[o],
             pc'[w] \notin {"cooldown", "dispatch", "noMatch"}
      PROVE  Kept'
  <2>1. s = "NO_MATCH" => \A b \in Automations : ~First(e, b)
    BY <1>0, <1>4 DEF OnTrack
  <2>2. s = "MATCHED" =>
          \E b \in Automations : First(e, b) /\ \A x \in Reached(b, e) : <<e, x>> \in queued
    <3>1. SUFFICES ASSUME s = "MATCHED"
                   PROVE  /\ matched[w] \in Automations /\ First(e, matched[w])
                          /\ \A x \in Reached(matched[w], e) : <<e, x>> \in queued
      OBVIOUS
    <3>2. Range(todo[w]) = {}
      BY <1>4, <3>1 DEF Range
    <3>. QED BY <1>0, <1>4, <3>1, <3>2 DEF OnTrack, Busy
  <2>3. status' = [status EXCEPT ![e] = s]
    BY <1>4 DEF Record
  <2>. QED BY <1>4, <2>1, <2>2, <2>3, RecordKept
<1>5. CASE LoadEvent(w)
  BY <1>1, <1>2, <1>3, <1>5 DEF LoadEvent, Finish, Goto
<1>6. CASE FindAutomation(w)
  <2>1. PICK e : e = event[w]
    OBVIOUS
  <2>2. e \in Events /\ active = Automations /\ tree = TreeOf
    BY <1>0, <1>6, <2>1 DEF FindAutomation, Busy, Constant
  <2>3. CASE NoneAnswers(w)
    <3>1. /\ pc'[w] = "noMatch" /\ \A o \in Workers \ {w} : pc'[o] = pc[o]
          /\ UNCHANGED <<event, matched, todo, userVars, status, queued, adds>>
      BY <1>1, <1>6, <2>3 DEF FindAutomation, NoneAnswers, Goto
    <3>2. \A a \in Automations : ~First(e, a)
      BY <2>1, <2>2, <2>3, FoundFirst DEF NoneAnswers
    <3>3. OnTrack(w)'
      BY <2>1, <3>1, <3>2 DEF OnTrack
    <3>. QED BY <3>1, <3>3, KeptFrame
  <2>4. ASSUME NEW a \in Automations, Leads(a, event[w]), Select(w, a)
        PROVE  Kept'
    <3>2. a \in Automations /\ First(e, a)
      BY <2>1, <2>2, <2>4, FoundFirst DEF Leads
    <3>3. /\ pc'[w] = "dispatch" /\ matched'[w] = a /\ todo'[w] = Plan[TreeOf[a]][e]
          /\ \A o \in Workers \ {w} :
               pc'[o] = pc[o] /\ matched'[o] = matched[o] /\ todo'[o] = todo[o]
          /\ UNCHANGED <<event, userVars, status, queued, adds>>
      BY <1>0, <1>1, <1>6, <2>1, <2>2, <2>4 DEF FindAutomation, Select, Goto
    <3>4. \A x \in Reached(a, e) : x \in Range(todo'[w])
      BY <3>3 DEF Reached
    <3>5. OnTrack(w)'
      BY <2>1, <3>2, <3>3, <3>4 DEF OnTrack
    <3>. QED BY <3>3, <3>5, KeptFrame
  <2>. QED BY <1>6, <2>3, <2>4 DEF FindAutomation
<1>7. CASE CheckCooldown(w)
  BY <1>0, <1>7 DEF CheckCooldown, OnTrack
<1>8. ASSUME pc[w] = "dispatch", todo[w] # <<>>
      PROVE  \E a \in Automations, e \in Events, x \in ActionIds :
               /\ a = matched[w] /\ e = event[w] /\ Current(w) = <<e, x>> /\ x = Head(todo[w])
               /\ First(e, a) /\ x \in Range(Plan[TreeOf[a]][e])
  <2>1. matched[w] \in Automations /\ event[w] \in Events
    BY <1>0, <1>8 DEF Busy
  <2>2. Current(w) = <<event[w], Head(todo[w])>> /\ Current(w) \in Keys /\ Head(todo[w]) \in Range(todo[w])
    BY <1>8, TodoTyping
  <2>3. Head(todo[w]) \in ActionIds
    BY <2>2 DEF Keys
  <2>. QED BY <1>0, <1>8, <2>1, <2>2, <2>3 DEF OnTrack
<1>9. CASE Dispatch(w)
  <2>1. PICK a \in Automations, e \in Events, x \in ActionIds :
               /\ a = matched[w] /\ e = event[w] /\ Current(w) = <<e, x>> /\ x = Head(todo[w])
               /\ First(e, a) /\ x \in Range(Plan[TreeOf[a]][e])
    BY <1>8, <1>9 DEF Queue, Dispatch
  <2>2. PICK rest, more : rest = Range(todo[w]) /\ more = Range(Tail(todo[w]))
    OBVIOUS
  <2>3. rest = {x} \cup more
    BY <1>9, <2>1, <2>2, TodoTyping DEF Queue, Dispatch
  <2>4. /\ UNCHANGED <<userVars, status, pc, event, matched>>
        /\ Range(todo'[w]) = more /\ \A o \in Workers \ {w} : todo'[o] = todo[o]
    BY <1>1, <1>9, <2>2 DEF Queue, Dispatch
  <2>5. /\ rest \subseteq Range(Plan[TreeOf[a]][e])
        /\ \A y \in Reached(a, e) : y \in rest \/ <<e, y>> \in queued
    BY <1>0, <1>9, <2>1, <2>2 DEF Queue, OnTrack, Dispatch
  <2>6. CASE <<e, x>> \in Skipped
    <3>1. UNCHANGED <<queued, adds>>
      BY <1>9, <2>1, <2>6 DEF Queue, Dispatch
    <3>2. x \notin Reached(a, e)
      BY <2>6 DEF Reached
    <3>3. pc[w] = "dispatch"
      BY <1>9 DEF Queue, Dispatch
    <3>4. OnTrack(w)'
      BY <2>1, <2>3, <2>4, <2>5, <3>1, <3>2, <3>3 DEF OnTrack
    <3>. QED BY <2>4, <3>1, <3>4, KeptFrame
  <2>7. CASE <<e, x>> \notin Skipped
    <3>1. AddSend(<<e, x>>) /\ pc[w] = "dispatch"
      BY <1>9, <2>1, <2>7 DEF Queue, Dispatch
    <3>2. queued' = queued \cup {<<e, x>>}
      BY <3>1 DEF AddSend
    <3>3. x \in Reached(a, e)
      BY <2>1, <2>7 DEF Reached
    <3>4. OnTrack(w)'
      BY <2>1, <2>3, <2>4, <2>5, <3>1, <3>2 DEF OnTrack
    <3>. QED BY <2>1, <2>4, <3>1, <3>3, <3>4, QueueKept
  <2>. QED BY <2>6, <2>7
<1>10. CASE DispatchFails(w)
  <2>1. PICK a \in Automations, e \in Events, x \in ActionIds :
               /\ a = matched[w] /\ e = event[w] /\ Current(w) = <<e, x>> /\ x = Head(todo[w])
               /\ First(e, a) /\ x \in Range(Plan[TreeOf[a]][e])
    BY <1>8, <1>10 DEF Queue, DispatchFails
  <2>2. x \in Reached(a, e) /\ Rest(w) /\ UNCHANGED <<userVars, status>>
    BY <1>10, <2>1 DEF Queue, DispatchFails, Reached, Retry
  <2>3. CASE AddSend(<<e, x>>)
    <3>1. /\ pc'[w] = "idle"
          /\ \A o \in Workers \ {w} :
               pc'[o] = pc[o] /\ event'[o] = event[o] /\ matched'[o] = matched[o] /\ todo'[o] = todo[o]
      BY <2>2, RestTyping
    <3>2. OnTrack(w)'
      BY <3>1 DEF OnTrack
    <3>. QED BY <2>1, <2>2, <2>3, <3>1, <3>2, QueueKept
  <2>4. CASE UNCHANGED <<queued, adds>>
    BY <1>3, <2>2, <2>4
  <2>. QED BY <1>10, <2>1, <2>3, <2>4 DEF Queue, DispatchFails
<1>11. CASE MarkMatched(w) \/ MarkMatchedFails(w)
  <2>1. /\ pc[w] = "dispatch" /\ todo[w] = <<>>
        /\ Record(event[w], "MATCHED", matched[w]) \/ UNCHANGED status
        /\ UNCHANGED <<userVars, queued, adds>>
        /\ \A o \in Workers \ {w} :
             pc'[o] = pc[o] /\ event'[o] = event[o] /\ matched'[o] = matched[o] /\ todo'[o] = todo[o]
        /\ pc'[w] \notin {"cooldown", "dispatch", "noMatch"}
    BY <1>1, <1>11, RestTyping DEF MarkMatched, MarkMatchedFails, Goto, Retry
  <2>2. event[w] \in Events
    BY <1>0, <2>1 DEF Busy
  <2>. QED BY <1>2, <1>4, <2>1, <2>2
<1>12. CASE MarkNoMatch(w) \/ MarkNoMatchFails(w)
  <2>1. /\ pc[w] = "noMatch"
        /\ Record(event[w], "NO_MATCH", NoAutomation) \/ UNCHANGED status
        /\ UNCHANGED <<userVars, queued, adds>>
        /\ \A o \in Workers \ {w} :
             pc'[o] = pc[o] /\ event'[o] = event[o] /\ matched'[o] = matched[o] /\ todo'[o] = todo[o]
        /\ pc'[w] \notin {"cooldown", "dispatch", "noMatch"}
    BY <1>1, <1>12, RestTyping DEF MarkNoMatch, MarkNoMatchFails, Goto, Retry
  <2>2. event[w] \in Events
    BY <1>0, <2>1 DEF Busy
  <2>. QED BY <1>2, <1>4, <2>1, <2>2
<1>13. CASE Complete(w) \/ Crash(w)
  BY <1>3, <1>13 DEF Complete, Finish, Crash
<1>14. CASE LockLost(w)
  <2>1. UNCHANGED <<userVars, status, pc, event, matched, todo, queued, adds>>
    BY <1>14 DEF LockLost
  <2>2. OnTrack(w)'
    BY <1>0, <2>1 DEF OnTrack
  <2>. QED BY <2>1, <2>2, KeptFrame
<1>15. ASSUME NEW e \in Events, Claim(w, e)
       PROVE  Kept'
  BY <1>1, <1>2, <1>15 DEF Claim
<1>. QED
  BY <1>5, <1>6, <1>7, <1>9, <1>10, <1>11, <1>12, <1>13, <1>14, <1>15 DEF WorkerStep

(* What nobody's edits and BullMQ's memory leave alone stays so.           *)
LEMMA NextKept ==
  ASSUME Undisturbed, Typed, Kept, [Next]_vars
  PROVE  Kept'
<1> USE DEF userVars, rowVars, workVars
<1>1. ASSUME NEW w \in Workers,
             \/ WorkerStep(w) \/ DispatchFails(w) \/ MarkMatchedFails(w) \/ MarkNoMatchFails(w)
             \/ Crash(w) \/ LockLost(w) \/ \E e \in Events : Claim(w, e)
      PROVE  Kept'
  BY <1>1, WorkerKept
<1>2. CASE UNCHANGED <<userVars, status, pc, event, matched, todo, queued, adds>>
  <2>1. Constant'
    BY <1>2 DEF Kept, Constant
  <2>2. \A w \in Workers : OnTrack(w)'
    BY <1>2 DEF Kept, OnTrack
  <2>3. \A e \in Events : Faithful(e)'
    BY <1>2 DEF Kept, Faithful
  <2>. QED BY <2>1, <2>2, <2>3 DEF Kept
<1>3. (\E e \in Events : AgeOut(e)) \/ UNCHANGED vars
        => UNCHANGED <<userVars, status, pc, event, matched, todo, queued, adds>>
  BY DEF AgeOut, vars
<1>4. /\ \A a \in Automations : ~Toggle(a) /\ ~Delete(a) /\ \A t \in Trees : ~EditTree(a, t)
      /\ \A k \in Keys : ~Forget(k)
  BY NoEdits DEF Toggle, Delete, EditTree, Forget
<1>. QED BY <1>1, <1>2, <1>3, <1>4 DEF Next

LEMMA InitKept == Init => Kept
<1> SUFFICES ASSUME Init PROVE Kept
  OBVIOUS
<1>1. Constant
  BY DEF Init, Constant
<1>2. \A w \in Workers : OnTrack(w)
  BY DEF Init, OnTrack
<1>3. \A e \in Events : Faithful(e)
  BY DEF Init, Faithful
<1>. QED BY <1>1, <1>2, <1>3 DEF Kept

(* The answer of the first automation, as Answering calls it.              *)
LEMMA AnswerOf ==
  ASSUME Typed, Kept, NEW e \in Events, NEW a \in Automations, First(e, a)
  PROVE  /\ Promise!Queued(e) \subseteq Reached(a, e)
         /\ status[e] # "NO_MATCH"
         /\ status[e] = "MATCHED" => \A x \in Reached(a, e) : <<e, x>> \in queued
         /\ (\A x \in Reached(a, e) : <<e, x>> \in queued) => Promise!Queued(e) = Reached(a, e)
<1>1. Faithful(e) /\ Constant
  BY DEF Kept
<1>2. \A b \in Automations : First(e, b) => b = a
  BY OneFirst
<1>3. \A x \in ActionIds : adds[<<e, x>>] > 0 <=> <<e, x>> \in queued
  BY <1>1 DEF Constant, Keys
<1>4. Promise!Queued(e) = {x \in ActionIds : <<e, x>> \in queued}
  BY <1>3 DEF Promise!Queued
<1>5. Reached(a, e) \subseteq ActionIds
  <2>1. TreeOf[a] \in Variants[a]
    BY MatchingAssumption
  <2>2. PICK t : t = TreeOf[a]
    OBVIOUS
  <2>3. Range(Plan[t][e]) \subseteq ActionIds
    BY <2>1, <2>2, PlanRange
  <2>. QED BY <2>2, <2>3 DEF Reached
<1>6. Promise!Queued(e) \subseteq Reached(a, e)
  BY <1>1, <1>2, <1>4 DEF Faithful
<1>. QED BY <1>1, <1>2, <1>4, <1>5, <1>6 DEF Faithful

(* Queueing an action of the first automation is a step of the promise.    *)
LEMMA QueuePromised ==
  ASSUME Typed, Kept, NEW e \in Events, NEW x \in ActionIds, NEW a \in Automations,
         AddSend(<<e, x>>), First(e, a), x \in Reached(a, e), status' = status
  PROVE  [Promise!Next]_<<adds, status>>
<1>1. <<e, x>> \in Keys /\ adds \in [Keys -> Nat] /\ Constant
  BY DEF Keys, Typed, StateOK, Kept
<1>2. CASE <<e, x>> \in queued
  BY <1>1, <1>2 DEF AddSend
<1>3. CASE <<e, x>> \notin queued
  <2>1. adds[<<e, x>>] = 0 /\ adds' = [adds EXCEPT ![<<e, x>>] = 1]
    <3>1. adds[<<e, x>>] = 0
      BY <1>1, <1>3 DEF Constant
    <3>2. adds' = [adds EXCEPT ![<<e, x>>] = adds[<<e, x>>] + 1]
      BY <1>3 DEF AddSend
    <3>. QED BY <3>1, <3>2
  <2>2. status[e] = "PENDING"
    BY <1>3, AnswerOf DEF Typed, StateOK
  <2>3. Promise!Queued(e) \cup {x} \subseteq Reached(a, e)
    BY AnswerOf
  <2>4. Promise!Queue(e, x)
    BY <2>1, <2>2, <2>3 DEF Promise!Queue, Reached
  <2>. QED BY <2>4 DEF Promise!Next
<1>. QED BY <1>2, <1>3

(* So is a verdict of a worker that has nothing left to dispatch, or found *)
(* no automation; a second worker's says the same.                         *)
LEMMA VerdictPromised ==
  ASSUME Typed, Kept, NEW w \in Workers, NEW e \in Events, e = event[w], adds' = adds,
         \/ /\ pc[w] = "dispatch" /\ todo[w] = <<>>
            /\ status' = [status EXCEPT ![e] = "MATCHED"]
         \/ /\ pc[w] = "noMatch"
            /\ status' = [status EXCEPT ![e] = "NO_MATCH"]
  PROVE  [Promise!Next]_<<adds, status>>
<1>1. status \in [Events -> {"PENDING", "MATCHED", "NO_MATCH"}] /\ Busy /\ OnTrack(w) /\ Faithful(e)
  BY DEF Typed, StateOK, Kept
<1>2. CASE pc[w] = "dispatch" /\ todo[w] = <<>> /\ status' = [status EXCEPT ![e] = "MATCHED"]
  <2>1. PICK a : a = matched[w]
    OBVIOUS
  <2>2. a \in Automations /\ First(e, a)
    BY <1>1, <1>2, <2>1 DEF Busy, OnTrack
  <2>3. Range(todo[w]) = {}
    BY <1>2 DEF Range
  <2>4. \A x \in Reached(a, e) : <<e, x>> \in queued
    BY <1>1, <1>2, <2>1, <2>3 DEF OnTrack
  <2>5. Promise!Queued(e) = Reached(a, e) /\ status[e] # "NO_MATCH"
    BY <2>2, <2>4, AnswerOf
  <2>6. CASE status[e] = "MATCHED"
    BY <1>1, <1>2, <2>6
  <2>7. CASE status[e] = "PENDING"
    <3>1. Promise!Match(e)
      BY <1>2, <2>2, <2>5, <2>7 DEF Promise!Match, Promise!Decide, Reached
    <3>. QED BY <3>1 DEF Promise!Next
  <2>. QED BY <1>1, <2>5, <2>6, <2>7
<1>3. CASE pc[w] = "noMatch" /\ status' = [status EXCEPT ![e] = "NO_MATCH"]
  <2>1. \A a \in Automations : ~First(e, a)
    BY <1>1, <1>3 DEF OnTrack
  <2>2. \A x \in ActionIds : <<e, x>> \notin queued
    BY <1>1, <2>1 DEF Faithful
  <2>3. Promise!Queued(e) = {}
    BY <2>2 DEF Promise!Queued, Kept, Constant, Keys
  <2>4. CASE status[e] = "NO_MATCH"
    BY <1>1, <1>3, <2>4
  <2>5. CASE status[e] = "PENDING"
    <3>1. Promise!Decline(e)
      BY <1>3, <2>3, <2>5 DEF Promise!Decline, Promise!Decide
    <3>. QED BY <3>1 DEF Promise!Next
  <2>6. status[e] # "MATCHED"
    BY <1>1, <2>1 DEF Faithful
  <2>. QED BY <1>1, <2>4, <2>5, <2>6
<1>. QED BY <1>2, <1>3

(* Every step of Matching is a step of the promise or none.                *)
LEMMA NextPromised ==
  ASSUME Undisturbed, Typed, Kept, [Next]_vars
  PROVE  [Promise!Next]_<<adds, status>>
<1> USE DEF userVars, rowVars, workVars
<1>0. Busy /\ \A w \in Workers : OnTrack(w)
  BY DEF Typed, Kept
<1>1. UNCHANGED <<adds, status>> => [Promise!Next]_<<adds, status>>
  OBVIOUS
<1>2. ASSUME NEW w \in Workers, Dispatch(w) \/ DispatchFails(w)
      PROVE  [Promise!Next]_<<adds, status>>
  <2>1. CASE UNCHANGED adds
    BY <1>1, <1>2, <2>1 DEF Queue, Dispatch, DispatchFails
  <2>2. PICK a, e, x : a = matched[w] /\ e = event[w] /\ x = Head(todo[w])
    OBVIOUS
  <2>3. pc[w] = "dispatch" /\ todo[w] # <<>> /\ status' = status
    BY <1>2 DEF Queue, Dispatch, DispatchFails
  <2>4. /\ Current(w) = <<e, x>> /\ Current(w) \in Keys
        /\ a \in Automations /\ e \in Events /\ x \in Range(todo[w])
    BY <1>0, <2>2, <2>3, TodoTyping DEF Busy
  <2>5. x \in ActionIds
    BY <2>4 DEF Keys
  <2>6. CASE <<e, x>> \notin Skipped /\ AddSend(<<e, x>>)
    <3>1. First(e, a) /\ x \in Range(Plan[TreeOf[a]][e])
      BY <1>0, <2>2, <2>3, <2>4 DEF OnTrack
    <3>2. x \in Reached(a, e)
      BY <2>6, <3>1 DEF Reached
    <3>. QED BY <2>3, <2>4, <2>5, <2>6, <3>1, <3>2, QueuePromised
  <2>. QED BY <1>2, <2>1, <2>4, <2>6 DEF Queue, Dispatch, DispatchFails
<1>3. ASSUME NEW w \in Workers,
             MarkMatched(w) \/ MarkMatchedFails(w) \/ MarkNoMatch(w) \/ MarkNoMatchFails(w)
      PROVE  [Promise!Next]_<<adds, status>>
  <2>1. PICK e : e = event[w]
    OBVIOUS
  <2>2. e \in Events /\ adds' = adds
    BY <1>0, <1>3, <2>1 DEF Busy, MarkMatched, MarkMatchedFails, MarkNoMatch, MarkNoMatchFails
  <2>3. \/ status' = status
        \/ pc[w] = "dispatch" /\ todo[w] = <<>> /\ status' = [status EXCEPT ![e] = "MATCHED"]
        \/ pc[w] = "noMatch" /\ status' = [status EXCEPT ![e] = "NO_MATCH"]
    BY <1>3, <2>1 DEF MarkMatched, MarkMatchedFails, MarkNoMatch, MarkNoMatchFails, Record
  <2>. QED BY <1>1, <2>1, <2>2, <2>3, VerdictPromised
<1>4. ASSUME NEW w \in Workers,
             \/ LoadEvent(w) \/ FindAutomation(w) \/ CheckCooldown(w) \/ Complete(w)
             \/ Crash(w) \/ LockLost(w) \/ \E e \in Events : Claim(w, e)
      PROVE  [Promise!Next]_<<adds, status>>
  <2>1. UNCHANGED <<adds, status>>
    BY <1>4 DEF LoadEvent, FindAutomation, CheckCooldown, GoAhead, Complete, Crash, LockLost, Claim
  <2>. QED BY <1>1, <2>1
<1>5. (\E e \in Events : AgeOut(e)) \/ UNCHANGED vars => UNCHANGED <<adds, status>>
  BY DEF AgeOut, vars
<1>6. /\ \A a \in Automations : ~Toggle(a) /\ ~Delete(a) /\ \A t \in Trees : ~EditTree(a, t)
      /\ \A k \in Keys : ~Forget(k)
  BY NoEdits DEF Toggle, Delete, EditTree, Forget
<1>. QED BY <1>1, <1>2, <1>3, <1>4, <1>5, <1>6 DEF Next, WorkerStep

(* While nobody edits the automations, BullMQ keeps its jobs and no        *)
(* message is subject to the cooldown, matching is what Answering says:    *)
(* one automation answers, each of its actions is queued once, the verdict *)
(* comes last and is final (matchCommentEvent with its retries).           *)
THEOREM MatchingKeepsPromise ==
  ASSUME Undisturbed
  PROVE  Spec => KeepsPromise
<1>1. Init => Promise!Init
  BY DEF Init, Promise!Init, Keys
<1>2. IInv /\ Kept /\ [Next]_vars => Kept'
  BY NextKept DEF IInv
<1>3. IInv /\ Kept /\ [Next]_vars => [Promise!Next]_<<adds, status>>
  BY NextPromised DEF IInv
<1>. QED BY <1>1, <1>2, <1>3, InitKept, Inductive, PTL DEF Spec, KeepsPromise, Promise!Spec

-----------------------------------------------------------------------------
(* Who answers, and how often in a window: what a worker's step changes.   *)

Answering(e, a) == \E w \in Workers : event[w] = e /\ pc[w] = "dispatch" /\ matched[w] = a

Verdict(w) ==
  \/ pc[w] = "dispatch" /\ Record(event[w], "MATCHED", matched[w])
  \/ pc[w] = "noMatch" /\ Record(event[w], "NO_MATCH", NoAutomation)

\* The other workers, the automations and the histories.
Aside(w) ==
  /\ \A o \in Workers \ {w} : pc'[o] = pc[o] /\ event'[o] = event[o] /\ matched'[o] = matched[o]
  /\ UNCHANGED <<exists, active, shifted, aged>>
  /\ brokenOff \subseteq brokenOff' /\ overlapped \subseteq overlapped'
  /\ \/ answers' = answers
     \/ pc[w] = "dispatch" /\ answers' = answers \cup {<<event[w], matched[w]>>}

\* The rows.
Rows(w) ==
  \/ UNCHANGED rowVars
  \/ Verdict(w) /\ pc'[w] \in {"done", "idle"}

Undecided == {"find", "cooldown", "dispatch", "noMatch"}

\* The worker itself.
Moves(w) ==
  /\ pc'[w] \in Undecided =>
       /\ event'[w] = event[w]
       /\ pc[w] \in Undecided \/ (pc[w] = "load" /\ status[event[w]] = "PENDING")
  /\ pc'[w] \in {"cooldown", "dispatch"} =>
       \/ pc[w] \in {"cooldown", "dispatch"} /\ matched'[w] = matched[w]
       \/ pc[w] = "find" /\ \E a \in Automations : matched'[w] = a /\ Leads(a, event[w])
  /\ pc'[w] = "dispatch" /\ event[w] \in Dms =>
       \/ pc[w] = "dispatch"
       \/ pc[w] = "cooldown" /\ GoAhead(w) /\ ~ AnsweredRecently(event[w], matched[w])
  /\ pc[w] = "dispatch" /\ pc'[w] # "dispatch" =>
       event[w] \in brokenOff' \/ Record(event[w], "MATCHED", matched[w])

\* The job records.
Jobs(w) ==
  \/ \E e \in Events : /\ pc[w] = "idle" /\ job[e].status = "waiting" /\ event'[w] = e
                       /\ job' = [job EXCEPT ![e] = Claimed(@, w)]
  \/ /\ pc[w] # "idle"
     /\ \A d \in Events \ {event[w]} : job'[d] = job[d]
     /\ \/ pc'[w] = "idle"
        \/ event'[w] = event[w] /\ (job' = job \/ event[w] \in brokenOff')

Shape(w) == Aside(w) /\ Rows(w) /\ Moves(w) /\ Jobs(w)

(* Letting go of the job, whatever became of it.                           *)
LEMMA LetsGo ==
  ASSUME Typed, NEW w \in Workers, pc[w] # "idle", Rest(w), Aside(w), Rows(w),
         \A d \in Events \ {event[w]} : job'[d] = job[d],
         pc[w] = "dispatch" => event[w] \in brokenOff' \/ Record(event[w], "MATCHED", matched[w])
  PROVE  Shape(w)
<1>1. pc'[w] = "idle"
  BY RestTyping
<1>. QED BY <1>1 DEF Shape, Moves, Jobs, Undecided

LEMMA ClaimShape ==
  ASSUME Typed, NEW w \in Workers, NEW e \in Events, Claim(w, e) PROVE Shape(w)
<1>1. pc'[w] = "load" /\ event'[w] = e
  BY DEF Claim, Typed, StateOK
<1>2. Aside(w)
  BY DEF Claim, Aside, userVars, histories, Typed, StateOK
<1>3. Rows(w)
  BY DEF Claim, Rows
<1>4. Moves(w)
  BY <1>1 DEF Claim, Moves, Undecided
<1>5. Jobs(w)
  BY <1>1 DEF Claim, Jobs
<1>. QED BY <1>2, <1>3, <1>4, <1>5 DEF Shape

(* The records of other jobs stay as they are.                             *)
LEMMA OtherJobs ==
  ASSUME Typed, NEW w \in Workers, Finish(w) \/ Retry(w) \/ job' = Unlocked(event[w], w)
  PROVE  \A d \in Events \ {event[w]} : job'[d] = job[d]
BY DEF Finish, Retry, Unlocked, Typed, StateOK

LEMMA LoadShape ==
  ASSUME Typed, NEW w \in Workers, LoadEvent(w) PROVE Shape(w)
<1>1. CASE Finish(w)
  <2>1. Rest(w) /\ pc[w] = "load"
    BY <1>1 DEF Finish, LoadEvent
  <2>2. Aside(w)
    BY <2>1, RestTyping DEF LoadEvent, Aside, userVars, histories
  <2>3. Rows(w)
    BY DEF LoadEvent, Rows
  <2>. QED BY <1>1, <2>1, <2>2, <2>3, LetsGo, OtherJobs
<1>2. CASE status[event[w]] = "PENDING" /\ Goto(w, "find") /\ UNCHANGED <<event, matched, todo, job>>
  <2>1. pc'[w] = "find" /\ pc[w] = "load" /\ event' = event /\ job' = job
    BY <1>2 DEF LoadEvent, Goto, Typed, StateOK
  <2>2. Aside(w)
    BY <1>2 DEF LoadEvent, Goto, Aside, userVars, histories, Typed, StateOK
  <2>. QED BY <1>2, <2>1, <2>2 DEF Shape, LoadEvent, Rows, Moves, Jobs, Undecided
<1>. QED BY <1>1, <1>2 DEF LoadEvent

LEMMA FindShape ==
  ASSUME Typed, NEW w \in Workers, FindAutomation(w) PROVE Shape(w)
<1>1. CASE NoneAnswers(w)
  <2>1. pc'[w] = "noMatch" /\ pc[w] = "find" /\ event' = event /\ job' = job
    BY <1>1 DEF FindAutomation, NoneAnswers, Goto, Typed, StateOK
  <2>2. Aside(w)
    BY <1>1 DEF FindAutomation, NoneAnswers, Goto, Aside, userVars, histories, Typed, StateOK
  <2>. QED BY <2>1, <2>2 DEF Shape, FindAutomation, Rows, Moves, Jobs, Undecided
<1>2. ASSUME NEW a \in Automations, Leads(a, event[w]), Select(w, a) PROVE Shape(w)
  <2>1. /\ pc'[w] = IF event[w] \in Dms THEN "cooldown" ELSE "dispatch"
        /\ pc[w] = "find" /\ event' = event /\ job' = job /\ matched'[w] = a
    BY <1>2 DEF FindAutomation, Select, Goto, Typed, StateOK
  <2>2. Aside(w)
    BY <1>2 DEF FindAutomation, Select, Goto, Aside, userVars, histories, Typed, StateOK
  <2>. QED BY <1>2, <2>1, <2>2 DEF Shape, FindAutomation, Rows, Moves, Jobs, Undecided
<1>. QED BY <1>1, <1>2 DEF FindAutomation

LEMMA CooldownShape ==
  ASSUME Typed, NEW w \in Workers, CheckCooldown(w) PROVE Shape(w)
<1>1. /\ pc[w] = "cooldown" /\ UNCHANGED <<event, matched, job, rowVars>>
      /\ pc'[w] = "noMatch" \/ (pc'[w] = "dispatch" /\ GoAhead(w) /\ ~AnsweredRecently(event[w], matched[w]))
  BY DEF CheckCooldown, GoAhead, Goto, Typed, StateOK
<1>2. Aside(w)
  BY DEF CheckCooldown, GoAhead, Goto, Aside, userVars, Typed, StateOK
<1>. QED BY <1>1, <1>2 DEF Shape, Rows, Moves, Jobs, Undecided

LEMMA DispatchShape ==
  ASSUME Typed, NEW w \in Workers, Dispatch(w) PROVE Shape(w)
<1>1. pc[w] = "dispatch" /\ UNCHANGED <<pc, event, matched, job, rowVars>>
  BY DEF Dispatch
<1>2. Aside(w)
  BY DEF Dispatch, Queue, Aside, userVars
<1>. QED BY <1>1, <1>2 DEF Shape, Rows, Moves, Jobs, Undecided

LEMMA MarkShape ==
  ASSUME Typed, NEW w \in Workers, MarkMatched(w) \/ MarkNoMatch(w) PROVE Shape(w)
<1>1. pc[w] \in {"dispatch", "noMatch"} /\ pc'[w] = "done" /\ UNCHANGED <<event, matched, job>>
  BY DEF MarkMatched, MarkNoMatch, Goto, Typed, StateOK
<1>2. Aside(w)
  BY DEF MarkMatched, MarkNoMatch, Goto, Aside, userVars, histories, Typed, StateOK
<1>3. Verdict(w)
  BY DEF MarkMatched, MarkNoMatch, Verdict
<1>4. pc[w] = "dispatch" => Record(event[w], "MATCHED", matched[w])
  BY DEF MarkMatched, MarkNoMatch
<1>. QED BY <1>1, <1>2, <1>3, <1>4 DEF Shape, Rows, Moves, Jobs, Undecided

(* Steps that end an attempt.                                              *)
LEMMA EndShape ==
  ASSUME Typed, NEW w \in Workers,
         Complete(w) \/ DispatchFails(w) \/ MarkMatchedFails(w) \/ MarkNoMatchFails(w) \/ Crash(w)
  PROVE  Shape(w)
<1>1. Rest(w) /\ pc[w] # "idle"
  BY DEF Complete, DispatchFails, MarkMatchedFails, MarkNoMatchFails, Crash, Finish, Retry
<1>2. /\ pc'[w] = "idle"
      /\ \A o \in Workers \ {w} : pc'[o] = pc[o] /\ event'[o] = event[o] /\ matched'[o] = matched[o]
  BY <1>1, RestTyping
<1>3. \A d \in Events \ {event[w]} : job'[d] = job[d]
  BY OtherJobs DEF Complete, DispatchFails, MarkMatchedFails, MarkNoMatchFails, Crash
<1>4. Rows(w)
  BY <1>2 DEF Complete, DispatchFails, MarkMatchedFails, MarkNoMatchFails, Crash, Rows, Verdict
<1>5. pc[w] = "dispatch" => event[w] \in brokenOff'
  BY DEF Complete, DispatchFails, MarkMatchedFails, MarkNoMatchFails, Crash, BreakOff
<1>6. Aside(w)
  <2>1. BreakOff(w) \/ UNCHANGED <<shifted, overlapped, brokenOff, aged>>
    BY DEF Complete, DispatchFails, MarkMatchedFails, MarkNoMatchFails, Crash, histories
  <2>2. UNCHANGED userVars /\ (answers' = answers \/ (pc[w] = "dispatch" /\ Queue(w)))
    <3>1. CASE DispatchFails(w)
      BY <3>1 DEF DispatchFails, userVars
    <3>2. CASE Complete(w) \/ MarkMatchedFails(w) \/ MarkNoMatchFails(w) \/ Crash(w)
      BY <3>2 DEF Complete, MarkMatchedFails, MarkNoMatchFails, Crash, histories, userVars
    <3>. QED BY <3>1, <3>2
  <2>. QED BY <1>2, <2>1, <2>2 DEF Aside, BreakOff, Queue, userVars
<1>. QED BY <1>1, <1>3, <1>4, <1>5, <1>6, LetsGo

LEMMA LockLostShape ==
  ASSUME Typed, NEW w \in Workers, LockLost(w) PROVE Shape(w)
<1>1. /\ pc[w] # "idle" /\ UNCHANGED <<pc, event, matched, rowVars>> /\ event[w] \in brokenOff'
  BY DEF LockLost, BreakOff, workVars
<1>2. \A d \in Events \ {event[w]} : job'[d] = job[d]
  BY OtherJobs DEF LockLost
<1>3. Aside(w)
  BY <1>1 DEF LockLost, BreakOff, Aside, userVars
<1>. QED BY <1>1, <1>2, <1>3 DEF Shape, Rows, Moves, Jobs, Undecided

LEMMA WorkerShape ==
  ASSUME Typed, NEW w \in Workers,
         \/ WorkerStep(w) \/ DispatchFails(w) \/ MarkMatchedFails(w) \/ MarkNoMatchFails(w)
         \/ Crash(w) \/ LockLost(w)
         \/ \E e \in Events : Claim(w, e)
  PROVE  Shape(w)
BY ClaimShape, LoadShape, FindShape, CooldownShape, DispatchShape, MarkShape, EndShape, LockLostShape
   DEF WorkerStep

-----------------------------------------------------------------------------
(* One automation answers an event.                                        *)

\* Whoever answers or has answered an event whose first automation was not
\* edited into another one is that first automation.
LedBy(e) ==
  /\ \A a \in Automations : <<e, a>> \in answers => Leads(a, e)
  /\ \A w \in Workers : event[w] = e /\ pc[w] \in {"cooldown", "dispatch"} =>
       \A a \in Automations : matched[w] = a => Leads(a, e)

Led == \A e \in Events \ shifted : LedBy(e)

(* There is at most one that leads.                                        *)
LEMMA OneLeads ==
  ASSUME NEW e, NEW a, NEW b, Leads(a, e), Leads(b, e)
  PROVE  a = b
<1>1. DOMAIN Ranked = 1..Len(Ranked) /\ Len(Ranked) \in Nat
  BY MatchingAssumption
<1>2. PICK i \in DOMAIN Ranked :
        Ranked[i] = a /\ Answers(a, e) /\ \A j \in 1..(i - 1) : ~Answers(Ranked[j], e)
  BY DEF Leads
<1>3. PICK k \in DOMAIN Ranked :
        Ranked[k] = b /\ Answers(b, e) /\ \A j \in 1..(k - 1) : ~Answers(Ranked[j], e)
  BY DEF Leads
<1>4. ~(i < k) /\ ~(k < i)
  BY <1>1, <1>2, <1>3
<1>. QED BY <1>1, <1>2, <1>3, <1>4

(* Which one leads changes only with the active automations.               *)
LEMMA LeadsFrame ==
  ASSUME active' = active, NEW a, NEW e
  PROVE  Leads(a, e) = Leads(a, e)'
BY DEF Leads, Answers

LEMMA WorkerLed ==
  ASSUME Typed, Led, NEW w \in Workers, Shape(w)
  PROVE  Led'
<1>1. ASSUME NEW e \in Events \ shifted', NEW a \in Automations
      PROVE  /\ LedBy(e)
             /\ Leads(a, e) = Leads(a, e)'
  BY <1>1, LeadsFrame DEF Shape, Aside, Led
<1>2. ASSUME NEW e \in Events \ shifted', NEW a \in Automations, <<e, a>> \in answers'
      PROVE  Leads(a, e)
  <2>1. CASE <<e, a>> \in answers
    BY <1>1, <1>2, <2>1 DEF LedBy
  <2>2. CASE pc[w] = "dispatch" /\ event[w] = e /\ matched[w] = a
    BY <1>1, <2>2 DEF LedBy
  <2>. QED BY <1>2, <2>1, <2>2 DEF Shape, Aside
<1>3. ASSUME NEW e \in Events \ shifted', NEW a \in Automations, NEW o \in Workers,
             event'[o] = e, pc'[o] \in {"cooldown", "dispatch"}, matched'[o] = a
      PROVE  Leads(a, e)
  <2>1. CASE o # w
    BY <1>1, <1>3, <2>1 DEF Shape, Aside, LedBy
  <2>2. CASE o = w
    BY <1>1, <1>3, <2>2 DEF Shape, Moves, Undecided, LedBy
  <2>. QED BY <2>1, <2>2
<1>. QED BY <1>1, <1>2, <1>3 DEF Led, LedBy

LEMMA OtherLed ==
  ASSUME Typed, Led,
         \/ \E a \in Automations : Toggle(a) \/ Delete(a) \/ \E t \in Trees : EditTree(a, t)
         \/ \E e \in Events : AgeOut(e)
         \/ \E k \in Keys : Forget(k)
         \/ UNCHANGED vars
  PROVE  Led'
<1>1. /\ UNCHANGED <<pc, event, matched, answers>>
      /\ Shift \/ UNCHANGED <<active, shifted>>
  <2>1. UNCHANGED <<pc, event, matched, answers>>
    BY DEF Toggle, Delete, Shift, EditTree, AgeOut, Forget, vars, workVars, histories
  <2>2. ASSUME NEW a \in Automations, Toggle(a) \/ Delete(a)
        PROVE  Shift
    BY <2>2 DEF Toggle, Delete
  <2>3. CASE \/ \E a \in Automations : \E t \in Trees : EditTree(a, t)
             \/ \E e \in Events : AgeOut(e)
             \/ \E k \in Keys : Forget(k)
             \/ UNCHANGED vars
    BY <2>1, <2>3 DEF EditTree, AgeOut, Forget, vars, userVars, histories
  <2>. QED BY <2>1, <2>2, <2>3
<1>2. ASSUME NEW e \in Events \ shifted', ~Begun(e)
      PROVE  LedBy(e)'
  <2>1. \A w \in Workers : event[w] = e => pc[w] \notin {"cooldown", "dispatch"}
    BY <1>2, MatchingAssumption DEF Begun, Typed, Busy
  <2>2. \A a \in Automations : <<e, a>> \notin answers
    BY <1>2 DEF Begun
  <2>. QED BY <1>1, <2>1, <2>2 DEF LedBy
<1>3. ASSUME NEW e \in Events \ shifted', Begun(e)
      PROVE  LedBy(e)'
  <2>1. e \notin shifted /\ \A a \in Automations : Leads(a, e) = Leads(a, e)'
    BY <1>1, <1>3, LeadsFrame DEF Shift
  <2>2. LedBy(e)
    BY <2>1 DEF Led
  <2>. QED BY <1>1, <2>1, <2>2 DEF LedBy
<1>. QED BY <1>2, <1>3 DEF Led

(* Whichever attempts answer an event, through failures, lost locks, a     *)
(* forgotten job and every edit that leaves first what was first for it,   *)
(* one automation answers it (matchCommentEvent's find).                   *)
THEOREM OneAutomationPerEvent == Spec => []OneAutomationAnswers
<1>1. Init => Led
  BY DEF Init, Led, LedBy
<1>2. IInv /\ Led /\ [Next]_vars => Led'
  BY WorkerShape, WorkerLed, OtherLed DEF Next, IInv
<1>3. Led => OneAutomationAnswers
  BY OneLeads DEF Led, LedBy, OneAutomationAnswers
<1>. QED BY <1>1, <1>2, <1>3, Inductive, PTL DEF Spec

-----------------------------------------------------------------------------
(* The cooldown.                                                           *)

\* While nothing broke off, the worker that has an event holds its lock, and
\* an event that is being decided is PENDING.
Sound(w) ==
  pc[w] # "idle" /\ event[w] \notin brokenOff =>
    /\ job[event[w]].lock = w
    /\ pc[w] \in Undecided => status[event[w]] = "PENDING"

Recorded(e, a) ==
  status[e] = "MATCHED" /\ answerer[e] = a /\ (e \in recent \/ e \in aged)

\* An answered message is still being answered, or its row says who did.
Known(e, a) ==
  <<e, a>> \in answers => Answering(e, a) \/ Recorded(e, a)

Committed(e, a) == <<e, a>> \in answers \/ Answering(e, a)

Excepted(d, e) == {d, e} \in overlapped \/ {d, e} \cap (brokenOff \cup aged) # {}

Cooled ==
  /\ \A w \in Workers : Sound(w)
  /\ \A a \in exists, e \in Dms \ brokenOff : Known(e, a)
  /\ \A a \in exists, d \in Dms, e \in Dms :
       d # e /\ Sender[d] = Sender[e] /\ Committed(d, a) /\ Committed(e, a) => Excepted(d, e)

(* Two workers have the same event only when it broke off.                 *)
LEMMA Alone ==
  ASSUME NEW v \in Workers, NEW w \in Workers, Sound(v), Sound(w), event[v] = event[w],
         event[w] \notin brokenOff, pc[v] # "idle", pc[w] # "idle"
  PROVE  v = w
BY DEF Sound

(* Only the worker that decides an event writes its row.                   *)
LEMMA RowsOf ==
  ASSUME Typed, NEW w \in Workers, Rows(w), NEW e \in Events
  PROVE  \/ status'[e] = status[e] /\ answerer'[e] = answerer[e] /\ (e \in recent' <=> e \in recent)
         \/ e = event[w] /\ pc[w] \in {"dispatch", "noMatch"} /\ Verdict(w) /\ pc'[w] \in {"done", "idle"}
BY DEF Rows, Verdict, Record, rowVars, Typed, StateOK

LEMMA JobsSound ==
  ASSUME Typed, \A v \in Workers : Sound(v), NEW w \in Workers, Shape(w), NEW o \in Workers,
         pc'[o] # "idle", event'[o] \notin brokenOff'
  PROVE  job'[event'[o]].lock = o
<1>0. /\ job \in [Events -> Job]
      /\ \A v \in Workers : pc[v] # "idle" => event[v] \in Events
  BY DEF Typed, StateOK, Busy
<1>1. CASE o # w
  <2>1. /\ pc[o] # "idle" /\ event'[o] = event[o] /\ event[o] \notin brokenOff
        /\ event[o] \in Events /\ job[event[o]].lock = o
    BY <1>0, <1>1 DEF Shape, Aside, Sound
  <2>2. ASSUME NEW e \in Events, job[e].status = "waiting", job' = [job EXCEPT ![e] = Claimed(@, w)]
        PROVE  job'[event[o]].lock = o
    <3>1. event[o] # e
      <4>1. job[e] \in Job
        BY <1>0
      <4>2. job[e].lock = NoWorker
        BY <2>2, <4>1 DEF Job
      <4>. QED BY <2>1, <4>2, MatchingAssumption
    <3>. QED BY <1>0, <2>1, <2>2, <3>1
  <2>3. ASSUME pc[w] # "idle", \A d \in Events \ {event[w]} : job'[d] = job[d]
        PROVE  job'[event[o]].lock = o
    <3>1. event[o] # event[w]
      BY <1>1, <2>1, <2>3, Alone
    <3>. QED BY <2>1, <2>3, <3>1
  <2>. QED BY <2>1, <2>2, <2>3 DEF Shape, Jobs
<1>2. CASE o = w
  <2>1. ASSUME NEW e \in Events, event'[w] = e, job' = [job EXCEPT ![e] = Claimed(@, w)]
        PROVE  job'[e].lock = w
    <3>1. job[e] \in Job
      BY <1>0
    <3>. QED BY <1>0, <2>1, <3>1 DEF Claimed, Job
  <2>2. ASSUME pc[w] # "idle", event'[w] = event[w], job' = job
        PROVE  job'[event[w]].lock = w
    BY <1>2, <2>2 DEF Sound, Shape, Aside
  <2>. QED BY <1>2, <2>1, <2>2 DEF Shape, Jobs
<1>. QED BY <1>1, <1>2

LEMMA WorkerSound ==
  ASSUME Typed, \A v \in Workers : Sound(v), NEW w \in Workers, Shape(w)
  PROVE  \A o \in Workers : Sound(o)'
<1>1. SUFFICES ASSUME NEW o \in Workers, pc'[o] # "idle", event'[o] \notin brokenOff',
                      pc'[o] \in Undecided
               PROVE  status'[event'[o]] = "PENDING"
  BY JobsSound DEF Sound
<1>2. /\ pc[o] # "idle" /\ event'[o] = event[o] /\ event[o] \notin brokenOff
      /\ status[event[o]] = "PENDING"
  <2>1. event'[o] = event[o] /\ event[o] \notin brokenOff
    BY <1>1 DEF Shape, Aside, Moves
  <2>2. pc[o] \in Undecided \/ (pc[o] = "load" /\ status[event[o]] = "PENDING")
    BY <1>1 DEF Shape, Aside, Moves
  <2>. QED BY <2>1, <2>2 DEF Sound, Undecided
<1>3. event[o] \in Events
  BY <1>2 DEF Typed, Busy
<1>4. CASE status'[event[o]] = status[event[o]]
  BY <1>2, <1>4
<1>5. CASE event[o] = event[w] /\ pc[w] \in {"dispatch", "noMatch"} /\ pc'[w] \in {"done", "idle"}
  <2>1. o = w
    BY <1>2, <1>5, Alone
  <2>. QED BY <1>1, <1>5, <2>1 DEF Undecided
<1>. QED BY <1>3, <1>4, <1>5, RowsOf DEF Shape

(* An answer in hand is recorded, or breaks off; what is recorded stays.   *)
LEMMA WorkerKnown ==
  ASSUME Typed, Cooled, NEW w \in Workers, Shape(w), NEW a \in exists', NEW e \in Dms \ brokenOff'
  PROVE  Known(e, a)'
<1>1. /\ a \in exists /\ e \notin brokenOff /\ e \in Events /\ aged' = aged
      /\ Known(e, a) /\ \A v \in Workers : Sound(v)
  BY MatchingAssumption DEF Shape, Aside, Cooled
<1>2. ASSUME NEW o \in Workers, event[o] = e, pc[o] = "dispatch", matched[o] = a
      PROVE  Answering(e, a)' \/ Recorded(e, a)'
  <2>1. CASE o # w
    BY <1>2, <2>1 DEF Shape, Aside, Answering
  <2>2. CASE o = w /\ pc'[w] = "dispatch"
    <3>1. event'[w] = e /\ matched'[w] = a
      BY <1>2, <2>2 DEF Shape, Moves, Undecided
    <3>. QED BY <2>2, <3>1 DEF Answering
  <2>3. CASE o = w /\ pc'[w] # "dispatch"
    <3>1. Record(e, "MATCHED", a)
      BY <1>2, <2>3 DEF Shape, Moves
    <3>. QED BY <1>1, <3>1 DEF Record, Recorded, Typed, StateOK
  <2>. QED BY <2>1, <2>2, <2>3
<1>3. ASSUME Recorded(e, a)
      PROVE  Recorded(e, a)'
  <2>1. CASE status'[e] = status[e] /\ answerer'[e] = answerer[e] /\ (e \in recent' <=> e \in recent)
    BY <1>1, <1>3, <2>1 DEF Recorded
  <2>2. CASE e = event[w] /\ pc[w] \in {"dispatch", "noMatch"}
    BY <1>1, <1>3, <2>2 DEF Recorded, Sound, Undecided
  <2>. QED BY <1>1, <2>1, <2>2, RowsOf DEF Shape
<1>4. ASSUME <<e, a>> \in answers'
      PROVE  Answering(e, a) \/ Recorded(e, a)
  <2>1. CASE <<e, a>> \in answers
    BY <1>1, <2>1 DEF Known
  <2>2. CASE pc[w] = "dispatch" /\ event[w] = e /\ matched[w] = a
    BY <2>2 DEF Answering
  <2>. QED BY <1>4, <2>1, <2>2 DEF Shape, Aside
<1>5. Answering(e, a) => Answering(e, a)' \/ Recorded(e, a)'
  BY <1>2 DEF Answering
<1>. QED BY <1>3, <1>4, <1>5 DEF Known

(* Only a worker that passes the check takes up a message anew.            *)
LEMMA TakesUp ==
  ASSUME Typed, NEW w \in Workers, Shape(w), NEW a, NEW e \in Dms, Committed(e, a)'
  PROVE  \/ Committed(e, a)
         \/ /\ event[w] = e /\ matched[w] = a
            /\ GoAhead(w) /\ ~ AnsweredRecently(e, a)
<1>1. CASE <<e, a>> \in answers'
  BY <1>1 DEF Shape, Aside, Committed, Answering
<1>2. ASSUME NEW o \in Workers, event'[o] = e, pc'[o] = "dispatch", matched'[o] = a
      PROVE  \/ Answering(e, a)
             \/ /\ event[w] = e /\ matched[w] = a
                /\ GoAhead(w) /\ ~ AnsweredRecently(e, a)
  <2>1. CASE o # w
    BY <1>2, <2>1 DEF Shape, Aside, Answering
  <2>2. CASE o = w
    <3>1. event[w] = e
      BY <1>2, <2>2 DEF Shape, Moves, Undecided
    <3>2. \/ pc[w] = "dispatch"
          \/ pc[w] = "cooldown" /\ GoAhead(w) /\ ~ AnsweredRecently(event[w], matched[w])
      BY <1>2, <2>2, <3>1 DEF Shape, Moves
    <3>3. matched[w] = a
      BY <1>2, <2>2, <3>2 DEF Shape, Moves
    <3>. QED BY <3>1, <3>2, <3>3 DEF Answering
  <2>. QED BY <2>1, <2>2
<1>. QED BY <1>1, <1>2 DEF Committed, Answering

(* The check sees a committed answer that did not break off, or the two    *)
(* overlap.                                                                *)
LEMMA CheckSees ==
  ASSUME Cooled, NEW w \in Workers, NEW a \in exists, NEW d \in Dms, NEW e \in Dms,
         d # e, Sender[d] = Sender[e], Committed(d, a),
         event[w] = e, matched[w] = a, GoAhead(w), ~ AnsweredRecently(e, a)
  PROVE  {d, e} \in overlapped' \/ d \in brokenOff \/ d \in aged
<1>1. SUFFICES ASSUME d \notin brokenOff, d \notin aged
               PROVE  {d, e} \in overlapped'
  OBVIOUS
<1>2. Answering(d, a) \/ Recorded(d, a)
  BY <1>1 DEF Cooled, Known, Committed
<1>3. ~ Recorded(d, a)
  BY <1>1 DEF Recorded, AnsweredRecently
<1>4. d \in BeingAnswered(e, a)
  BY <1>2, <1>3 DEF Answering, BeingAnswered
<1>. QED BY <1>4 DEF GoAhead

LEMMA WorkerCooled ==
  ASSUME Typed, Cooled, NEW w \in Workers, Shape(w)
  PROVE  Cooled'
<1>1. /\ exists' = exists /\ aged' = aged
      /\ brokenOff \subseteq brokenOff' /\ overlapped \subseteq overlapped'
  BY DEF Shape, Aside
<1>2. \A v \in Workers : Sound(v)'
  BY WorkerSound DEF Cooled
<1>3. \A a \in exists', e \in Dms \ brokenOff' : Known(e, a)'
  BY WorkerKnown
<1>4. ASSUME NEW a \in exists', NEW d \in Dms, NEW e \in Dms, d # e, Sender[d] = Sender[e],
             Committed(d, a)', Committed(e, a)'
      PROVE  Excepted(d, e)'
  <2>1. CASE Committed(d, a) /\ Committed(e, a)
    BY <1>1, <1>4, <2>1 DEF Cooled, Excepted
  <2>2. CASE Committed(d, a) /\ ~Committed(e, a)
    <3>1. {d, e} \in overlapped' \/ d \in brokenOff \/ d \in aged
      BY <1>1, <1>4, <2>2, TakesUp, CheckSees
    <3>. QED BY <1>1, <3>1 DEF Excepted
  <2>3. CASE ~Committed(d, a) /\ Committed(e, a)
    <3>1. {e, d} \in overlapped' \/ e \in brokenOff \/ e \in aged
      BY <1>1, <1>4, <2>3, TakesUp, CheckSees
    <3>2. {e, d} = {d, e}
      OBVIOUS
    <3>. QED BY <1>1, <3>1, <3>2 DEF Excepted
  <2>4. CASE ~Committed(d, a) /\ ~Committed(e, a)
    BY <1>4, <2>4, TakesUp
  <2>. QED BY <2>1, <2>2, <2>3, <2>4
<1>. QED BY <1>2, <1>3, <1>4 DEF Cooled

(* A deletion takes the automation away, and the passing of a day is       *)
(* remembered.                                                             *)
LEMMA OtherCooled ==
  ASSUME Typed, Cooled,
         \/ \E a \in Automations : Toggle(a) \/ Delete(a) \/ \E t \in Trees : EditTree(a, t)
         \/ \E e \in Events : AgeOut(e)
         \/ \E k \in Keys : Forget(k)
         \/ UNCHANGED vars
  PROVE  Cooled'
<1>1. /\ UNCHANGED <<pc, event, matched, job, status, answers, overlapped, brokenOff>>
      /\ exists' \subseteq exists /\ aged \subseteq aged'
      /\ \A e \in recent : e \in recent' \/ e \in aged'
      /\ \A a \in exists' : \A e \in Events : answerer[e] = a => answerer'[e] = a
  BY DEF Toggle, Delete, Shift, EditTree, AgeOut, Forget, vars, userVars, rowVars, workVars,
     histories, Typed, StateOK
<1>2. \A w \in Workers : Sound(w)'
  BY <1>1 DEF Cooled, Sound
<1>3. \A a \in exists', e \in Dms \ brokenOff' : Known(e, a)'
  <2>1. ASSUME NEW a \in exists', NEW e \in Dms \ brokenOff', Recorded(e, a)
        PROVE  Recorded(e, a)'
    BY <1>1, <2>1, MatchingAssumption DEF Recorded
  <2>2. \A a, e : Answering(e, a)' = Answering(e, a)
    BY <1>1 DEF Answering
  <2>. QED BY <1>1, <2>1, <2>2 DEF Cooled, Known
<1>4. \A a \in exists', d \in Dms, e \in Dms :
        d # e /\ Sender[d] = Sender[e] /\ Committed(d, a)' /\ Committed(e, a)' => Excepted(d, e)'
  <2>1. \A a, e : Committed(e, a)' = Committed(e, a)
    BY <1>1 DEF Committed, Answering
  <2>2. \A d, e : Excepted(d, e) => Excepted(d, e)'
    BY <1>1 DEF Excepted
  <2>. QED BY <1>1, <2>1, <2>2 DEF Cooled
<1>. QED BY <1>2, <1>3, <1>4 DEF Cooled

(* With any number of workers, and whatever fails, loses its lock, is      *)
(* edited or forgotten: an automation that answers two messages of a       *)
(* customer within the window passed the check for one while it was        *)
(* answering the other, or an answer to one of them broke off before its   *)
(* row said so (DM_REPLY_COOLDOWN_MS and the check of matchCommentEvent,   *)
(* which reads what only the last write of an answer writes).              *)
THEOREM CooldownKept == Spec => []OneAnswerPerWindow
<1>1. Init => Cooled
  BY DEF Init, Cooled, Sound, Known, Committed, Answering
<1>2. IInv /\ Cooled /\ [Next]_vars => Cooled'
  BY WorkerShape, WorkerCooled, OtherCooled DEF Next, IInv
<1>3. Cooled => OneAnswerPerWindow
  BY DEF Cooled, Committed, Excepted, OneAnswerPerWindow
<1>. QED BY <1>1, <1>2, <1>3, Inductive, PTL DEF Spec

=============================================================================
