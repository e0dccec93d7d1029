---------------------------- MODULE IntakeProofs ----------------------------
(***************************************************************************)
(* What holds of webhook intake for every set of bodies, events, handlers  *)
(* and workers and every bound on what the environment does.               *)
(***************************************************************************)
EXTENDS Intake, TLAPS, SequenceTheorems

(* Adding a job, or removing a finished one, leaves a record of a queue.   *)
LEMMA AddTyping ==
  ASSUME NEW j \in Job
  PROVE  NoJob \in Job /\ Added(j) \in Job
BY IntakeAssumption DEF Job, JobStatus, NoJob, NewJob, Added

(* What a worker does to a job record keeps exactly the active jobs locked *)
(* and an attempt in hand for each job that may still run.                 *)
LEMMA WorkTyping ==
  ASSUME NEW j \in Job, NEW w \in Workers
  PROVE  /\ j.status = "waiting" => Claimed(j, w) \in Job
         /\ Returned(j, w) \in Job
         /\ Threw(j, w) \in Job
         /\ j.lock = w => Stalled(j) \in Job
<1> USE IntakeAssumption DEF Job, JobStatus
<1>1. j.status = "waiting" => Claimed(j, w) \in Job
  BY DEF Claimed
<1>2. Returned(j, w) \in Job
  BY DEF Returned
<1>3. Threw(j, w) \in Job
  BY DEF Threw
<1>4. j.lock = w => Stalled(j) \in Job
  BY DEF Stalled
<1>. QED BY <1>1, <1>2, <1>3, <1>4

(* Each unit of a bound that is spent leaves the counters natural numbers. *)
LEMMA SpendTyping ==
  ASSUME TypeOK, NEW b \in Budget, Spend(b)
  PROVE  spent' \in [Budget -> Nat]
BY DEF TypeOK, Spend

(* The API's side of a step: whatever a request does, it keeps the types   *)
(* of what requests own.                                                   *)
LEMMA RequestTyping ==
  ASSUME TypeOK, NEW h \in Handlers
  PROVE  /\ EndRequest(h) =>
              /\ hpc' \in [Handlers -> {"idle", "walk", "add", "del"}]
              /\ hbody' \in [Handlers -> Payloads \cup {NoPayload}]
              /\ rest' \in [Handlers -> Seq(Seq(Ids))]
              /\ todo' \in [Handlers -> Seq(Ids)]
         /\ todo[h] # <<>> /\ NextItem(h) =>
              /\ hpc' \in [Handlers -> {"idle", "walk", "add", "del"}]
              /\ hbody' \in [Handlers -> Payloads \cup {NoPayload}]
              /\ rest' \in [Handlers -> Seq(Seq(Ids))]
              /\ todo' \in [Handlers -> Seq(Ids)]
         /\ todo[h] # <<>> => Current(h) \in Ids
<1>1. todo[h] \in Seq(Ids)
  BY DEF TypeOK
<1>2. todo[h] # <<>> => Head(todo[h]) \in Ids /\ Tail(todo[h]) \in Seq(Ids)
  BY <1>1, HeadTailProperties
<1>3. <<>> \in Seq(Ids) /\ <<>> \in Seq(Seq(Ids))
  OBVIOUS
<1>4. EndRequest(h) =>
        /\ hpc' \in [Handlers -> {"idle", "walk", "add", "del"}]
        /\ hbody' \in [Handlers -> Payloads \cup {NoPayload}]
        /\ rest' \in [Handlers -> Seq(Seq(Ids))]
        /\ todo' \in [Handlers -> Seq(Ids)]
  BY <1>3 DEF TypeOK, EndRequest
<1>5. todo[h] # <<>> /\ NextItem(h) =>
        /\ hpc' \in [Handlers -> {"idle", "walk", "add", "del"}]
        /\ hbody' \in [Handlers -> Payloads \cup {NoPayload}]
        /\ rest' \in [Handlers -> Seq(Seq(Ids))]
        /\ todo' \in [Handlers -> Seq(Ids)]
  BY <1>2 DEF TypeOK, NextItem
<1>. QED BY <1>2, <1>4, <1>5 DEF Current

(* Delivering a body, first, again or as a duplicate.                      *)
LEMMA BeginTyping ==
  ASSUME TypeOK, NEW h \in Handlers, NEW p \in Payloads, Begin(h, p),
         spent' \in [Budget -> Nat]
  PROVE  TypeOK'
<1>1. Content[p] \in Seq(Seq(Ids))
  BY IntakeAssumption
<1>2. rest' \in [Handlers -> Seq(Seq(Ids))]
  BY <1>1 DEF TypeOK, Begin
<1>. QED
  BY <1>2 DEF TypeOK, Begin, workerVars

(* An entry of the body is looked up, and skipped or walked into.          *)
LEMMA LookUpTyping ==
  ASSUME TypeOK, NEW h \in Handlers, LookUp(h)
  PROVE  TypeOK'
<1>1. PICK r \in Seq(Seq(Ids)), p \in Payloads \cup {NoPayload} : r = rest[h] /\ p = hbody[h]
  BY DEF TypeOK
<1>2. r # <<>> /\ Head(r) \in Seq(Ids) /\ Tail(r) \in Seq(Seq(Ids)) /\ <<>> \in Seq(Ids)
  BY <1>1, HeadTailProperties DEF LookUp
<1>3. rest' \in [Handlers -> Seq(Seq(Ids))] /\ todo' \in [Handlers -> Seq(Ids)]
  BY <1>1, <1>2 DEF TypeOK, LookUp
<1>4. {p} \X Range(Head(r)) \subseteq (Payloads \cup {NoPayload}) \X Ids
  BY <1>1, <1>2 DEF Range
<1>. QED BY <1>1, <1>3, <1>4 DEF TypeOK, LookUp, workerVars

(* Every action of a request keeps every type.                             *)
LEMMA HandlerTyping ==
  ASSUME TypeOK, NEW h \in Handlers,
         \/ HandlerStep(h) \/ SetKeyFails(h) \/ AddJobFails(h)
         \/ ReleaseKeyFails(h) \/ ApiCrash(h)
         \/ \E p \in Payloads : Deliver(h, p) \/ DuplicateDelivery(h, p)
  PROVE  TypeOK'
<1> USE DEF envVars, workerVars, AtItem
<1>1. CASE Answer200(h)
  BY <1>1, RequestTyping DEF TypeOK, Answer200
<1>14. CASE LookUp(h)
  BY <1>14, LookUpTyping
<1>2. CASE SkipOwn(h)
  BY <1>2, RequestTyping DEF TypeOK, SkipOwn
<1>3. CASE SkipSeen(h)
  BY <1>3, RequestTyping DEF TypeOK, SkipSeen
<1>4. CASE SetKey(h)
  BY <1>4, RequestTyping DEF TypeOK, SetKey
<1>5. CASE AddJob(h)
  <2>1. job' \in [Ids -> Job]
    BY <1>5, RequestTyping, AddTyping DEF TypeOK, AddJob
  <2>. QED BY <1>5, <2>1, RequestTyping DEF TypeOK, AddJob
<1>6. CASE AddRefused(h)
  BY <1>6 DEF TypeOK, AddRefused
<1>7. CASE ReleaseKey(h)
  BY <1>7, RequestTyping DEF TypeOK, ReleaseKey
<1>8. CASE SetKeyFails(h)
  <2>1. spent' \in [Budget -> Nat]
    BY <1>8, SpendTyping DEF SetKeyFails, Fault, Budget
  <2>. QED BY <1>8, <2>1, RequestTyping DEF TypeOK, SetKeyFails
<1>9. CASE AddJobFails(h)
  <2>1. spent' \in [Budget -> Nat]
    BY <1>9, SpendTyping DEF AddJobFails, Fault, Budget
  <2>2. Current(h) \in Ids /\ Added(job[Current(h)]) \in Job
    BY <1>9, RequestTyping, AddTyping DEF TypeOK, AddJobFails
  <2>3. job' \in [Ids -> Job]
    BY <1>9, <2>2 DEF TypeOK, AddJobFails
  <2>. QED BY <1>9, <2>1, <2>3 DEF TypeOK, AddJobFails
<1>10. CASE ReleaseKeyFails(h)
  <2>1. spent' \in [Budget -> Nat]
    BY <1>10, SpendTyping DEF ReleaseKeyFails, Fault, Budget
  <2>. QED BY <1>10, <2>1, RequestTyping DEF TypeOK, ReleaseKeyFails
<1>11. CASE ApiCrash(h)
  <2>1. spent' \in [Budget -> Nat]
    BY <1>11, SpendTyping DEF ApiCrash, Fault, Budget
  <2>. QED BY <1>11, <2>1, RequestTyping DEF TypeOK, ApiCrash
<1>12. ASSUME NEW p \in Payloads, Deliver(h, p)
       PROVE  TypeOK'
  BY <1>12, BeginTyping DEF Deliver, TypeOK
<1>13. ASSUME NEW p \in Payloads, DuplicateDelivery(h, p)
       PROVE  TypeOK'
  <2>1. spent' \in [Budget -> Nat]
    BY <1>13, SpendTyping DEF DuplicateDelivery, Budget
  <2>. QED BY <1>13, <2>1, BeginTyping DEF DuplicateDelivery
<1>. QED
  BY <1>1, <1>2, <1>3, <1>4, <1>5, <1>6, <1>7, <1>8, <1>9, <1>10, <1>11, <1>12, <1>13, <1>14
     DEF HandlerStep

(* A worker that gives its job back, whatever the outcome, keeps the types *)
(* of the queue and of the workers; it has a job while it is not idle.     *)
LEMMA ReleaseTyping ==
  ASSUME TypeOK, NEW w \in Workers, wid[w] \in Ids
  PROVE  /\ Rest(w) => /\ wpc' \in [Workers -> {"idle", "create", "ticket", "hand", "done"}]
                       /\ wid' \in [Workers -> Ids \cup {NoId}]
         /\ Finish(w) => job' \in [Ids -> Job] /\ finished' \subseteq Ids
         /\ Retry(w) => job' \in [Ids -> Job]
         /\ Unlocked(wid[w], w) \in [Ids -> Job]
         /\ AddNext(wid[w]) => /\ next' \in [Ids -> {"absent", "present"}]
                               /\ handed' \in [Ids -> Nat]
<1>1. job[wid[w]] \in Job
  BY DEF TypeOK
<1>2. Rest(w) => /\ wpc' \in [Workers -> {"idle", "create", "ticket", "hand", "done"}]
                 /\ wid' \in [Workers -> Ids \cup {NoId}]
  BY DEF TypeOK, Rest
<1>3. Finish(w) => job' \in [Ids -> Job] /\ finished' \subseteq Ids
  BY <1>1, WorkTyping DEF TypeOK, Finish
<1>4. Retry(w) => job' \in [Ids -> Job]
  BY <1>1, WorkTyping DEF TypeOK, Retry
<1>5. Unlocked(wid[w], w) \in [Ids -> Job]
  BY <1>1, WorkTyping DEF TypeOK, Unlocked
<1>6. AddNext(wid[w]) => /\ next' \in [Ids -> {"absent", "present"}]
                         /\ handed' \in [Ids -> Nat]
  BY DEF TypeOK, AddNext
<1>. QED BY <1>2, <1>3, <1>4, <1>5, <1>6

(* Every action of a worker keeps every type: it works on an event when it *)
(* creates a row, and on a recorded one when it ingests its ticket.        *)
LEMMA WorkerTyping ==
  ASSUME TypeOK, HandoverInv, NEW w \in Workers,
         \/ WorkerStep(w) \/ CreateFails(w) \/ HandFails(w)
         \/ WorkerCrash(w) \/ LockLost(w)
         \/ \E i \in Ids : Claim(w, i)
  PROVE  TypeOK'
<1> USE DEF envVars, intakeVars
<1>1. /\ wpc[w] # "idle" => wid[w] \in Ids
      /\ wpc[w] \in {"create", "ticket"} => wid[w] \in Events
      /\ wpc[w] \in {"ticket", "hand"} /\ wid[w] \in Events => wid[w] \in rows
  BY DEF HandoverInv, Past
<1>2. CASE CreateRow(w)
  BY <1>1, <1>2 DEF TypeOK, CreateRow, Creating
<1>3. CASE RowExists(w)
  BY <1>1, <1>3, ReleaseTyping DEF TypeOK, RowExists, Creating, Finish
<1>12. CASE NoAccount(w)
  BY <1>1, <1>12, ReleaseTyping DEF TypeOK, NoAccount, Finish
<1>4. CASE Ticket(w)
  BY <1>1, <1>4 DEF TypeOK, Ticket
<1>5. CASE Hand(w)
  BY <1>1, <1>5, ReleaseTyping DEF TypeOK, Hand
<1>6. CASE Complete(w)
  BY <1>1, <1>6, ReleaseTyping DEF TypeOK, Complete, Finish
<1>7. CASE CreateFails(w)
  <2>1. spent' \in [Budget -> Nat]
    BY <1>7, SpendTyping DEF CreateFails, Fault, Budget
  <2>2. rows' \subseteq Events /\ ticketed' \subseteq rows' /\ cut' \subseteq rows'
    BY <1>1, <1>7 DEF TypeOK, CreateFails, Creating
  <2>. QED BY <1>1, <1>7, <2>1, <2>2, ReleaseTyping DEF TypeOK, CreateFails, Creating, Retry
<1>8. CASE HandFails(w)
  <2>1. spent' \in [Budget -> Nat]
    BY <1>8, SpendTyping DEF HandFails, Fault, Budget
  <2>2. cut' \subseteq rows'
    BY <1>1, <1>8 DEF TypeOK, HandFails
  <2>. QED BY <1>1, <1>8, <2>1, <2>2, ReleaseTyping DEF TypeOK, HandFails, Retry
<1>9. CASE WorkerCrash(w)
  <2>1. spent' \in [Budget -> Nat]
    BY <1>9, SpendTyping DEF WorkerCrash, Fault, Budget
  <2>2. cut' \subseteq rows'
    BY <1>1, <1>9 DEF TypeOK, WorkerCrash
  <2>. QED BY <1>1, <1>9, <2>1, <2>2, ReleaseTyping DEF TypeOK, WorkerCrash
<1>10. CASE LockLost(w)
  <2>1. spent' \in [Budget -> Nat]
    BY <1>10, SpendTyping DEF LockLost, Fault, Budget
  <2>. QED BY <1>1, <1>10, <2>1, ReleaseTyping DEF TypeOK, LockLost, workerVars
<1>11. ASSUME NEW i \in Ids, Claim(w, i)
       PROVE  TypeOK'
  <2>1. job' \in [Ids -> Job]
    BY <1>11, WorkTyping DEF TypeOK, Claim
  <2>. QED BY <1>11, <2>1 DEF TypeOK, Claim
<1>. QED
  BY <1>2, <1>3, <1>4, <1>5, <1>6, <1>7, <1>8, <1>9, <1>10, <1>11, <1>12 DEF WorkerStep

(* The stores and the user: keys expire, jobs are removed, the account is  *)
(* disconnected and reconnected.                                           *)
LEMMA EnvironmentTyping ==
  ASSUME TypeOK,
         \/ \E i \in Ids : ExpireKey(i) \/ PurgeJob(i) \/ PurgeNext(i)
         \/ Disconnect \/ Reconnect
  PROVE  TypeOK'
<1> USE DEF envVars, intakeVars, workerVars
<1>1. ASSUME NEW i \in Ids, ExpireKey(i) PROVE TypeOK'
  <2>1. spent' \in [Budget -> Nat]
    BY <1>1, SpendTyping DEF ExpireKey, Budget
  <2>. QED BY <1>1, <2>1 DEF TypeOK, ExpireKey
<1>2. ASSUME NEW i \in Ids, PurgeJob(i) PROVE TypeOK'
  <2>1. spent' \in [Budget -> Nat]
    BY <1>2, SpendTyping DEF PurgeJob, Budget
  <2>2. job' \in [Ids -> Job]
    BY <1>2, AddTyping DEF TypeOK, PurgeJob
  <2>. QED BY <1>2, <2>1, <2>2 DEF TypeOK, PurgeJob
<1>3. ASSUME NEW i \in Ids, PurgeNext(i) PROVE TypeOK'
  <2>1. spent' \in [Budget -> Nat]
    BY <1>3, SpendTyping DEF PurgeNext, Budget
  <2>. QED BY <1>3, <2>1 DEF TypeOK, PurgeNext
<1>4. CASE Disconnect
  <2>1. spent' \in [Budget -> Nat]
    BY <1>4, SpendTyping DEF Disconnect, Budget
  <2>. QED BY <1>4, <2>1 DEF TypeOK, Disconnect
<1>5. CASE Reconnect
  BY <1>5 DEF TypeOK, Reconnect
<1>. QED BY <1>1, <1>2, <1>3, <1>4, <1>5

(* ---- The handover invariant ------------------------------------------- *)

(* No step takes back a use of a bound.                                    *)
LEMMA PurgesGrow ==
  ASSUME TypeOK, NEW b \in Budget, Spend(b) \/ UNCHANGED spent
  PROVE  spent["purge"] > 0 => spent'["purge"] > 0
<1>1. spent \in [Budget -> Nat] /\ "purge" \in Budget
  BY DEF TypeOK, Budget
<1>. QED BY <1>1 DEF Spend

(* What the invariant speaks of is left alone by requests, by Redis and by *)
(* the user, so only a step that touches it can disturb it.                *)
LEMMA HandoverFrame ==
  ASSUME HandoverInv, UNCHANGED workerVars,
         spent["purge"] > 0 => spent'["purge"] > 0
  PROVE  HandoverInv'
BY DEF HandoverInv, workerVars, Past, HandedAtMostOnce

(* A worker that leaves, having handed on nothing, and rows that only grow *)
(* by an event nobody is past.                                             *)
LEMMA LeavingKeepsHandover ==
  ASSUME TypeOK, HandoverInv, NEW w \in Workers, Rest(w),
         UNCHANGED <<next, handed>>, rows \subseteq rows',
         spent["purge"] > 0 => spent'["purge"] > 0
  PROVE  HandoverInv'
<1>1. wpc'[w] = "idle" /\ \A v \in Workers : v # w => wpc'[v] = wpc[v] /\ wid'[v] = wid[v]
  BY DEF TypeOK, Rest
<1>. QED BY <1>1 DEF HandoverInv, Past, HandedAtMostOnce

(* Adding the downstream job counts once, unless BullMQ had removed it.    *)
LEMMA AddNextKeepsCounts ==
  ASSUME TypeOK, HandoverInv, NEW i \in Ids, AddNext(i), i \in Events => handed[i] = 0,
         i \in Events => i \in rows, rows' = rows,
         spent["purge"] > 0 => spent'["purge"] > 0
  PROVE  /\ \A k \in Events : k \notin rows' => handed'[k] = 0
         /\ \A k \in Events : handed'[k] <= 1
         /\ \A k \in Ids : next'[k] = "present" => handed'[k] > 0
         /\ \A k \in Ids : next'[k] = "absent" /\ handed'[k] > 0 => spent'["purge"] > 0
         /\ HandedAtMostOnce'
         /\ \A k \in Ids : k # i => handed'[k] = handed[k]
<1>1. /\ \A k \in Ids : k # i => handed'[k] = handed[k] /\ next'[k] = next[k]
      /\ next'[i] = "present"
      /\ handed'[i] = IF next[i] = "absent" THEN handed[i] + 1 ELSE handed[i]
      /\ \A k \in Ids : handed[k] \in Nat
  BY DEF TypeOK, AddNext
<1>2. Events \subseteq Ids
  BY DEF Ids
<1>3. \A k \in Events : handed'[k] <= 1
  BY <1>1, <1>2 DEF HandoverInv
<1>4. HandedAtMostOnce'
  <2>1. \A k \in Ids : k \in Events \/ k \in Postbacks
    BY DEF Ids
  <2>. QED BY <1>1, <1>3, <2>1 DEF HandoverInv, HandedAtMostOnce
<1>5. \A k \in Ids : next'[k] = "present" => handed'[k] > 0
  <2>1. next[i] \in {"absent", "present"}
    BY DEF TypeOK
  <2>. QED BY <1>1, <2>1 DEF HandoverInv
<1>6. \A k \in Ids : next'[k] = "absent" /\ handed'[k] > 0 => spent'["purge"] > 0
  BY <1>1 DEF HandoverInv
<1>7. \A k \in Events : k \notin rows' => handed'[k] = 0
  BY <1>1, <1>2 DEF HandoverInv
<1>. QED BY <1>1, <1>3, <1>4, <1>5, <1>6, <1>7

(* A worker's step keeps the handover invariant.                           *)
LEMMA WorkerHandover ==
  ASSUME TypeOK, HandoverInv, NEW w \in Workers,
         \/ WorkerStep(w) \/ CreateFails(w) \/ HandFails(w)
         \/ WorkerCrash(w) \/ LockLost(w)
         \/ \E i \in Ids : Claim(w, i)
  PROVE  HandoverInv'
<1>11. CASE NoAccount(w)
  BY <1>11, LeavingKeepsHandover DEF NoAccount, Finish
<1>1. CASE CreateRow(w)
  <2>1. /\ wid[w] \in Events /\ wid[w] \notin rows /\ handed[wid[w]] = 0
        /\ wpc' = [wpc EXCEPT ![w] = "ticket"] /\ rows' = rows \cup {wid[w]}
        /\ UNCHANGED <<wid, next, handed, spent>>
    BY <1>1 DEF CreateRow, Creating, HandoverInv
  <2>2. wpc'[w] = "ticket" /\ \A v \in Workers : v # w => wpc'[v] = wpc[v]
    BY <2>1 DEF TypeOK
  <2>3. \A v \in Workers : Past(v) => wid[v] # wid[w]
    BY <2>1 DEF HandoverInv
  <2>. QED BY <2>1, <2>2, <2>3 DEF HandoverInv, Past, HandedAtMostOnce, Ids
<1>2. CASE RowExists(w)
  BY <1>2, LeavingKeepsHandover DEF RowExists, Finish
<1>3. CASE Ticket(w)
  <2>1. /\ wpc[w] = "ticket" /\ wpc' = [wpc EXCEPT ![w] = "hand"]
        /\ UNCHANGED <<wid, rows, next, handed, spent>>
    BY <1>3 DEF Ticket
  <2>2. wpc'[w] = "hand" /\ \A v \in Workers : v # w => wpc'[v] = wpc[v]
    BY <2>1 DEF TypeOK
  <2>. QED BY <2>1, <2>2 DEF HandoverInv, Past, HandedAtMostOnce
<1>4. CASE Hand(w)
  <2>1. /\ wpc[w] = "hand" /\ wpc' = [wpc EXCEPT ![w] = "done"]
        /\ AddNext(wid[w]) \/ UNCHANGED <<next, handed>>
        /\ UNCHANGED <<wid, rows, spent>>
    BY <1>4 DEF Hand
  <2>2. wpc'[w] = "done" /\ \A v \in Workers : v # w => wpc'[v] = wpc[v]
    BY <2>1 DEF TypeOK
  <2>3. wid[w] \in Ids /\ (wid[w] \in Events => wid[w] \in rows /\ handed[wid[w]] = 0)
    BY <2>1 DEF HandoverInv, Past
  <2>4. CASE UNCHANGED <<next, handed>>
    BY <2>1, <2>2, <2>4 DEF HandoverInv, Past, HandedAtMostOnce
  <2>5. CASE AddNext(wid[w])
    <3>1. \A v \in Workers : Past(v) /\ v # w => wid[v] # wid[w]
      BY <2>1 DEF HandoverInv, Past
    <3>2. Events \subseteq Ids
      BY DEF Ids
    <3>. QED
      BY <2>1, <2>2, <2>3, <2>5, <3>1, <3>2, AddNextKeepsCounts DEF HandoverInv, Past
  <2>. QED BY <2>1, <2>4, <2>5
<1>5. CASE Complete(w)
  BY <1>5, LeavingKeepsHandover DEF Complete, Finish
<1>6. CASE CreateFails(w)
  <2>1. spent["purge"] > 0 => spent'["purge"] > 0
    BY <1>6, PurgesGrow DEF CreateFails, Fault, Budget
  <2>. QED BY <1>6, <2>1, LeavingKeepsHandover DEF CreateFails, Retry
<1>7. CASE HandFails(w)
  <2>1. spent["purge"] > 0 => spent'["purge"] > 0
    BY <1>7, PurgesGrow DEF HandFails, Fault, Budget
  <2>2. CASE UNCHANGED <<next, handed>>
    BY <1>7, <2>1, <2>2, LeavingKeepsHandover DEF HandFails, Retry
  <2>3. CASE AddNext(wid[w])
    <3>1. /\ wpc[w] = "hand" /\ Rest(w) /\ UNCHANGED rows
      BY <1>7 DEF HandFails, Retry
    <3>2. wpc'[w] = "idle" /\ \A v \in Workers : v # w => wpc'[v] = wpc[v] /\ wid'[v] = wid[v]
      BY <3>1 DEF TypeOK, Rest
    <3>3. wid[w] \in Ids /\ (wid[w] \in Events => wid[w] \in rows /\ handed[wid[w]] = 0)
      BY <3>1 DEF HandoverInv, Past
    <3>4. \A v \in Workers : Past(v) /\ v # w => wid[v] # wid[w]
      BY <3>1 DEF HandoverInv, Past
    <3>5. Events \subseteq Ids
      BY DEF Ids
    <3>. QED
      BY <2>1, <2>3, <3>1, <3>2, <3>3, <3>4, <3>5, AddNextKeepsCounts DEF HandoverInv, Past
  <2>. QED BY <1>7, <2>2, <2>3 DEF HandFails
<1>8. CASE WorkerCrash(w)
  <2>1. spent["purge"] > 0 => spent'["purge"] > 0
    BY <1>8, PurgesGrow DEF WorkerCrash, Fault, Budget
  <2>. QED BY <1>8, <2>1, LeavingKeepsHandover DEF WorkerCrash
<1>9. CASE LockLost(w)
  <2>1. spent["purge"] > 0 => spent'["purge"] > 0
    BY <1>9, PurgesGrow DEF LockLost, Fault, Budget
  <2>. QED BY <1>9, <2>1, HandoverFrame DEF LockLost, workerVars
<1>10. ASSUME NEW i \in Ids, Claim(w, i)
       PROVE  HandoverInv'
  <2>1. /\ wpc' = [wpc EXCEPT ![w] = IF i \in Events THEN "create" ELSE "hand"]
        /\ wid' = [wid EXCEPT ![w] = i]
        /\ UNCHANGED <<rows, next, handed, spent>>
    BY <1>10 DEF Claim
  <2>2. /\ wid'[w] = i /\ wpc'[w] = IF i \in Events THEN "create" ELSE "hand"
        /\ \A v \in Workers : v # w => wpc'[v] = wpc[v] /\ wid'[v] = wid[v]
    BY <2>1 DEF TypeOK
  <2>. QED BY <2>1, <2>2 DEF HandoverInv, Past, HandedAtMostOnce
<1>. QED
  BY <1>1, <1>2, <1>3, <1>4, <1>5, <1>6, <1>7, <1>8, <1>9, <1>10, <1>11 DEF WorkerStep

(* A request's step keeps it.                                              *)
LEMMA HandlerHandover ==
  ASSUME TypeOK, HandoverInv, NEW h \in Handlers,
         \/ HandlerStep(h) \/ SetKeyFails(h) \/ AddJobFails(h)
         \/ ReleaseKeyFails(h) \/ ApiCrash(h)
         \/ \E p \in Payloads : Deliver(h, p) \/ DuplicateDelivery(h, p)
  PROVE  HandoverInv'
<1>1. UNCHANGED workerVars
  BY DEF HandlerStep, LookUp, Answer200, SkipOwn, SkipSeen, SetKey, AddJob, AddRefused, ReleaseKey,
         SetKeyFails, AddJobFails, ReleaseKeyFails, ApiCrash, Deliver, DuplicateDelivery, Begin
<1>2. \E x \in Budget : Spend(x) \/ UNCHANGED spent
  BY DEF HandlerStep, LookUp, Answer200, SkipOwn, SkipSeen, SetKey, AddJob, AddRefused, ReleaseKey,
         SetKeyFails, AddJobFails, ReleaseKeyFails, ApiCrash, Deliver, DuplicateDelivery,
         Fault, Budget
<1>. QED BY <1>1, <1>2, PurgesGrow, HandoverFrame

(* The stores and the user keep it: removing a downstream job is counted.  *)
LEMMA EnvironmentHandover ==
  ASSUME TypeOK, HandoverInv,
         \/ \E i \in Ids : ExpireKey(i) \/ PurgeJob(i) \/ PurgeNext(i)
         \/ Disconnect \/ Reconnect
  PROVE  HandoverInv'
<1>1. ASSUME NEW i \in Ids, PurgeNext(i) PROVE HandoverInv'
  <2>1. spent'["purge"] > 0
    BY <1>1 DEF TypeOK, PurgeNext, Spend, Budget
  <2>2. UNCHANGED <<rows, wpc, wid, handed>>
    BY <1>1 DEF PurgeNext
  <2>3. \A k \in Ids : next'[k] = "present" => next[k] = "present"
    BY <1>1 DEF PurgeNext, TypeOK
  <2>. QED BY <2>1, <2>2, <2>3 DEF HandoverInv, Past, HandedAtMostOnce
<1>2. ASSUME UNCHANGED workerVars, NEW x \in Budget, Spend(x) \/ UNCHANGED spent
      PROVE  HandoverInv'
  BY <1>2, PurgesGrow, HandoverFrame
<1>. QED
  BY <1>1, <1>2 DEF ExpireKey, PurgeJob, Disconnect, Reconnect, Budget

(* Intake's states are well typed and the handover invariant holds, for    *)
(* any number of requests, workers, bodies, faults, crashes and expiries.  *)
THEOREM IntakeInvariant == Spec => [](TypeOK /\ HandoverInv)
<1>1. Init => TypeOK /\ HandoverInv
  <2> SUFFICES ASSUME Init PROVE TypeOK /\ HandoverInv
    OBVIOUS
  <2>1. TypeOK
    BY IntakeAssumption, AddTyping DEF Init, TypeOK, NoJob, Job, JobStatus
  <2>2. HandoverInv
    BY DEF Init, HandoverInv, Past, HandedAtMostOnce, Ids
  <2>. QED BY <2>1, <2>2
<1>2. TypeOK /\ HandoverInv /\ [Next]_vars => TypeOK' /\ HandoverInv'
  <2> SUFFICES ASSUME TypeOK, HandoverInv, [Next]_vars
               PROVE  TypeOK' /\ HandoverInv'
    OBVIOUS
  <2>1. CASE UNCHANGED vars
    BY <2>1, HandoverFrame DEF vars, workerVars, TypeOK
  <2>2. ASSUME NEW h \in Handlers,
               \/ HandlerStep(h) \/ SetKeyFails(h) \/ AddJobFails(h)
               \/ ReleaseKeyFails(h) \/ ApiCrash(h)
               \/ \E p \in Payloads : Deliver(h, p) \/ DuplicateDelivery(h, p)
        PROVE  TypeOK' /\ HandoverInv'
    BY <2>2, HandlerTyping, HandlerHandover
  <2>3. ASSUME NEW w \in Workers,
               \/ WorkerStep(w) \/ CreateFails(w) \/ HandFails(w)
               \/ WorkerCrash(w) \/ LockLost(w)
               \/ \E i \in Ids : Claim(w, i)
        PROVE  TypeOK' /\ HandoverInv'
    BY <2>3, WorkerTyping, WorkerHandover
  <2>4. CASE \/ \E i \in Ids : ExpireKey(i) \/ PurgeJob(i) \/ PurgeNext(i)
             \/ Disconnect \/ Reconnect
    BY <2>4, EnvironmentTyping, EnvironmentHandover
  <2>. QED BY <2>1, <2>2, <2>3, <2>4 DEF Next
<1>. QED BY <1>1, <1>2, PTL DEF Spec

(* Every reachable state is well typed: in particular exactly the active   *)
(* jobs are locked and no job exceeds its attempts.                        *)
THEOREM TypeCorrect == Spec => []TypeOK
BY IntakeInvariant, PTL

(* Exactly the promise of the dedup layers: no event gets two match jobs,  *)
(* and no tap two answers while BullMQ remembers the first.                *)
THEOREM NeverHandedTwice == Spec => []HandedAtMostOnce
<1>1. HandoverInv => HandedAtMostOnce
  BY DEF HandoverInv
<1>. QED BY <1>1, IntakeInvariant, PTL

(* However requests, workers, faults, crashes and expiries interleave, a   *)
(* recorded event that is neither matched nor in a worker's hands was left *)
(* by a worker that failed between its row and its match job.              *)
THEOREM OnlyCutsLose == Spec => []OnlyCutsLoseRows
<1>1. Init => OnlyCutsLoseRows
  BY DEF Init, OnlyCutsLoseRows
<1>2. TypeOK /\ TypeOK' /\ HandoverInv /\ OnlyCutsLoseRows /\ [Next]_vars => OnlyCutsLoseRows'
  <2> SUFFICES ASSUME TypeOK, TypeOK', HandoverInv, OnlyCutsLoseRows, [Next]_vars
               PROVE  OnlyCutsLoseRows'
    OBVIOUS
  <2>0. rows \subseteq Events /\ Events \subseteq Ids /\ \A i \in Ids : handed[i] \in Nat
    BY DEF TypeOK, Ids
  <2>1. ASSUME UNCHANGED <<rows, handed, wid, wpc, cut>>
        PROVE  OnlyCutsLoseRows'
    BY <2>1 DEF Carried, OnlyCutsLoseRows
  <2>2. ASSUME NEW w \in Workers, CreateRow(w)
        PROVE  OnlyCutsLoseRows'
    <3>1. /\ wpc[w] = "create" /\ wpc'[w] = "ticket" /\ rows' = rows \cup {wid[w]}
          /\ UNCHANGED <<wid, handed, cut>> /\ \A v \in Workers : v # w => wpc'[v] = wpc[v]
      BY <2>2 DEF CreateRow, Creating, TypeOK
    <3>. QED BY <3>1 DEF Carried, OnlyCutsLoseRows
  <2>3. ASSUME NEW w \in Workers, Ticket(w)
        PROVE  OnlyCutsLoseRows'
    <3>1. /\ wpc'[w] = "hand" /\ UNCHANGED <<wid, handed, rows, cut>>
          /\ \A v \in Workers : v # w => wpc'[v] = wpc[v]
      BY <2>3 DEF Ticket, TypeOK
    <3>. QED BY <3>1 DEF Carried, OnlyCutsLoseRows
  <2>4. ASSUME NEW w \in Workers, wpc[w] = "hand", AddNext(wid[w])
        PROVE  /\ \A i \in Ids : handed[i] > 0 => handed'[i] > 0
               /\ wid[w] \in Events => handed'[wid[w]] > 0
    <3>1. wid[w] \in Ids /\ (wid[w] \in Events => next[wid[w]] = "absent")
      BY <2>4 DEF HandoverInv, Past, TypeOK
    <3>. QED BY <2>0, <2>4, <3>1 DEF AddNext, TypeOK, HandoverInv
  <2>5. ASSUME NEW w \in Workers, Hand(w)
        PROVE  OnlyCutsLoseRows'
    <3>1. /\ wpc[w] = "hand" /\ UNCHANGED <<wid, rows, cut>>
          /\ \A v \in Workers : v # w => wpc'[v] = wpc[v]
      BY <2>5 DEF Hand, TypeOK
    <3>2. /\ \A i \in Ids : handed[i] > 0 => handed'[i] > 0
          /\ wid[w] \in Events => handed'[wid[w]] > 0
      BY <2>4, <2>5, <3>1, IntakeAssumption DEF Hand
    <3>. QED BY <2>0, <3>1, <3>2 DEF Carried, OnlyCutsLoseRows
  <2>6. ASSUME NEW w \in Workers, cut \subseteq cut', UNCHANGED rows,
               \A i \in Ids : handed[i] > 0 => handed'[i] > 0,
               wpc[w] \notin {"ticket", "hand"} \/ wid[w] \notin Events \/ wid[w] \in cut',
               \A v \in Workers : v # w => wpc'[v] = wpc[v] /\ wid'[v] = wid[v]
        PROVE  OnlyCutsLoseRows'
    <3>1. SUFFICES ASSUME NEW i \in rows, ~(handed[i] > 0), i \notin cut'
                   PROVE  Carried(i)'
      BY <2>0, <2>6 DEF OnlyCutsLoseRows
    <3>2. PICK v \in Workers : wid[v] = i /\ wpc[v] \in {"ticket", "hand"}
      BY <2>6, <3>1 DEF OnlyCutsLoseRows, Carried
    <3>3. v # w
      BY <2>0, <2>6, <3>1, <3>2
    <3>. QED BY <2>6, <3>2, <3>3 DEF Carried
  <2>7. ASSUME NEW w \in Workers,
               RowExists(w) \/ NoAccount(w) \/ Complete(w) \/ \E i \in Ids : Claim(w, i)
        PROVE  OnlyCutsLoseRows'
    <3>1. /\ wpc[w] \notin {"ticket", "hand"} /\ UNCHANGED <<rows, cut, handed>>
          /\ \A v \in Workers : v # w => wpc'[v] = wpc[v] /\ wid'[v] = wid[v]
      BY <2>7 DEF RowExists, NoAccount, Creating, Complete, Claim, Finish, Rest, TypeOK
    <3>. QED BY <2>6, <3>1
  <2>8. ASSUME NEW w \in Workers, CreateFails(w)
        PROVE  OnlyCutsLoseRows'
    <3>1. /\ wpc[w] = "create" /\ rows \subseteq rows' /\ cut' = cut \cup (rows' \ rows)
          /\ UNCHANGED handed
          /\ \A v \in Workers : v # w => wpc'[v] = wpc[v] /\ wid'[v] = wid[v]
      BY <2>8 DEF CreateFails, Creating, Retry, Rest, TypeOK
    <3>2. SUFFICES ASSUME NEW i \in rows', ~(handed[i] > 0), i \notin cut'
                   PROVE  Carried(i)'
      BY <3>1 DEF OnlyCutsLoseRows
    <3>3. PICK v \in Workers : wid[v] = i /\ wpc[v] \in {"ticket", "hand"}
      BY <3>1, <3>2 DEF OnlyCutsLoseRows, Carried
    <3>. QED BY <3>1, <3>3 DEF Carried
  <2>9. ASSUME NEW w \in Workers, HandFails(w)
        PROVE  OnlyCutsLoseRows'
    <3>1. /\ wpc[w] = "hand" /\ UNCHANGED rows /\ cut' = cut \cup ({wid[w]} \cap Events)
          /\ \A v \in Workers : v # w => wpc'[v] = wpc[v] /\ wid'[v] = wid[v]
      BY <2>9 DEF HandFails, Retry, Rest, TypeOK
    <3>2. \A i \in Ids : handed[i] > 0 => handed'[i] > 0
      BY <2>4, <2>9, <3>1 DEF HandFails
    <3>. QED BY <2>6, <3>1, <3>2
  <2>10. ASSUME NEW w \in Workers, WorkerCrash(w)
         PROVE  OnlyCutsLoseRows'
    <3>1. /\ UNCHANGED <<rows, handed>>
          /\ cut' = IF wpc[w] \in {"ticket", "hand"} THEN cut \cup ({wid[w]} \cap Events) ELSE cut
          /\ \A v \in Workers : v # w => wpc'[v] = wpc[v] /\ wid'[v] = wid[v]
      BY <2>10 DEF WorkerCrash, Rest, TypeOK
    <3>. QED BY <2>6, <3>1
  <2>11. ASSUME NEW w \in Workers, LockLost(w)
         PROVE  OnlyCutsLoseRows'
    BY <2>1, <2>11 DEF LockLost, workerVars
  <2>12. ASSUME NEW h \in Handlers,
               \/ HandlerStep(h) \/ SetKeyFails(h) \/ AddJobFails(h)
               \/ ReleaseKeyFails(h) \/ ApiCrash(h)
               \/ \E p \in Payloads : Deliver(h, p) \/ DuplicateDelivery(h, p)
        PROVE  OnlyCutsLoseRows'
    <3>1. UNCHANGED workerVars
      BY <2>12 DEF HandlerStep, LookUp, Answer200, SkipOwn, SkipSeen, SetKey, AddJob, AddRefused,
                  ReleaseKey, SetKeyFails, AddJobFails, ReleaseKeyFails, ApiCrash,
                  Deliver, DuplicateDelivery, Begin
    <3>. QED BY <2>1, <3>1 DEF workerVars
  <2>13. CASE \/ \E i \in Ids : ExpireKey(i) \/ PurgeJob(i) \/ PurgeNext(i)
              \/ Disconnect \/ Reconnect
    BY <2>1, <2>13 DEF ExpireKey, PurgeJob, PurgeNext, Disconnect, Reconnect, workerVars
  <2>14. CASE UNCHANGED vars
    BY <2>1, <2>14 DEF vars
  <2>. QED
    BY <2>2, <2>3, <2>5, <2>7, <2>8, <2>9, <2>10, <2>11, <2>12, <2>13, <2>14 DEF Next, WorkerStep
<1>. QED BY <1>1, <1>2, IntakeInvariant, PTL DEF Spec

(* ---- What a 200 means --------------------------------------------------- *)

\* Taken, lost with its key, or in the hands of a request others relied on.
Covered(i) ==
  Taken(i) \/ i \in leaked \/ (i \in trusted /\ \E h \in Handlers : Holds(h, i))

\* A key in Redis stands for a job, or a request is about to add or release it.
KeysHeld ==
  \A i \in dedup : Taken(i) \/ i \in leaked \/ \E h \in Handlers : Holds(h, i)

\* What a request has still before it.
Left(h, i) == i \in Range(todo[h]) \/ \E n \in DOMAIN rest[h] : i \in Range(rest[h][n])

Settled(p, i) == <<p, i>> \in ignored \/ Covered(i)

\* What a request has walked past is settled.
WalkedSettled ==
  \A h \in Handlers, p \in Payloads :
    Busy(h) /\ hbody[h] = p => \A i \in Wanted(p) : Left(h, i) \/ Settled(p, i)

AckedSettled ==
  \A p \in Payloads : meta[p] = "acked" => \A i \in Wanted(p) : Settled(p, i)

\* BullMQ has a job completed only when a worker completed it.
CompletedOnce == \A i \in Ids : job[i].status = "completed" => i \in finished

DoorInv == KeysHeld /\ WalkedSettled /\ AckedSettled /\ CompletedOnce

LEMMA JobsStay ==
  ASSUME NEW j \in Job, NEW w \in Workers
  PROVE  /\ Added(j).status # "absent"
         /\ Added(j).status = "completed" => j.status = "completed"
         /\ Claimed(j, w).status = "active"
         /\ Returned(j, w).status \in {j.status, "completed"}
         /\ Returned(j, w).status = "completed" => j.status = "completed" \/ j.lock = w
         /\ Threw(j, w).status \in {j.status, "waiting", "failed"}
         /\ Stalled(j).status = "waiting"
BY DEF Job, JobStatus, Added, NewJob, Claimed, Returned, Threw, Stalled

\* What becomes of a job: it stays, and is completed by a worker only.
JobsMove ==
  /\ \A i \in Ids : job[i].status # "absent" => job'[i].status # "absent"
  /\ \A i \in Ids : job'[i].status = "completed" => job[i].status = "completed" \/ i \in finished'
  /\ finished \subseteq finished'

\* A worker touches only the record of the job it works on.
LEMMA WorkersJobs ==
  ASSUME TypeOK, HandoverInv, NEW w \in Workers,
         \/ WorkerStep(w) \/ CreateFails(w) \/ HandFails(w)
         \/ WorkerCrash(w) \/ LockLost(w)
         \/ \E i \in Ids : Claim(w, i)
  PROVE  UNCHANGED <<envVars, intakeVars>> /\ JobsMove
<1> USE DEF envVars, intakeVars
<1>0. (wpc[w] # "idle" => wid[w] \in Ids) /\ job \in [Ids -> Job]
  BY DEF HandoverInv, TypeOK
<1>1. ASSUME UNCHANGED <<job, finished>> PROVE JobsMove
  BY <1>1 DEF JobsMove
<1>2. ASSUME NEW i \in Ids, NEW r, job' = [job EXCEPT ![i] = r] \/ job' = job,
             finished \subseteq finished', r.status # "absent",
             r.status = "completed" => job[i].status = "completed" \/ i \in finished'
      PROVE  JobsMove
  BY <1>0, <1>2 DEF JobsMove
<1>3. ASSUME wid[w] \in Ids, Finish(w), wpc[w] # "idle" PROVE JobsMove
  <2>1. PICK i \in Ids, j \in Job : i = wid[w] /\ j = job[i]
    BY <1>0, <1>3
  <2>2. /\ job' = [job EXCEPT ![i] = Returned(j, w)]
        /\ finished' = IF j.lock = w THEN finished \cup {i} ELSE finished
    BY <1>3, <2>1 DEF Finish
  <2>3. \A k \in Ids : k # i => job'[k] = job[k]
    BY <1>0, <2>2
  <2>4. job'[i] = Returned(j, w)
    BY <1>0, <2>2
  <2>5. finished \subseteq finished' /\ (j.lock = w => i \in finished')
    BY <2>2
  <2>6. job[i].status # "absent" => job'[i].status # "absent"
    BY <2>1, <2>4, JobsStay
  <2>7. job'[i].status = "completed" => job[i].status = "completed" \/ i \in finished'
    BY <2>1, <2>4, <2>5, JobsStay
  <2>. QED BY <2>3, <2>5, <2>6, <2>7 DEF JobsMove
<1>4. ASSUME wid[w] \in Ids, job' = [job EXCEPT ![wid[w]] = Threw(job[wid[w]], w)], UNCHANGED finished
      PROVE  JobsMove
  <2>1. PICK i \in Ids, j \in Job : i = wid[w] /\ j = job[i]
    BY <1>0, <1>4
  <2>2. job' = [job EXCEPT ![i] = Threw(j, w)]
    BY <1>4, <2>1
  <2>3. (\A k \in Ids : k # i => job'[k] = job[k]) /\ job'[i] = Threw(j, w)
    BY <1>0, <2>2
  <2>4. Threw(j, w).status \in {j.status, "waiting", "failed"}
    BY JobsStay
  <2>. QED BY <1>4, <2>1, <2>3, <2>4 DEF JobsMove
<1>5. ASSUME wid[w] \in Ids, job' = Unlocked(wid[w], w), UNCHANGED finished PROVE JobsMove
  <2>1. PICK i \in Ids, j \in Job : i = wid[w] /\ j = job[i]
    BY <1>0, <1>5
  <2>2. job' = [job EXCEPT ![i] = Stalled(j)] \/ job' = job
    BY <1>0, <1>5, <2>1 DEF Unlocked
  <2>3. Stalled(j).status = "waiting"
    BY JobsStay
  <2>. QED BY <1>2, <1>5, <2>1, <2>2, <2>3
<1>6. CASE CreateRow(w) \/ Ticket(w) \/ Hand(w)
  BY <1>1, <1>6 DEF CreateRow, Ticket, Hand
<1>7. CASE RowExists(w) \/ Complete(w) \/ NoAccount(w)
  BY <1>0, <1>3, <1>7 DEF RowExists, Creating, Complete, NoAccount
<1>8. CASE CreateFails(w)
  BY <1>0, <1>4, <1>8 DEF CreateFails, Creating, Retry
<1>9. CASE HandFails(w)
  BY <1>0, <1>4, <1>9 DEF HandFails, Retry
<1>10. CASE WorkerCrash(w)
  BY <1>0, <1>5, <1>10 DEF WorkerCrash
<1>11. CASE LockLost(w)
  BY <1>0, <1>5, <1>11 DEF LockLost, workerVars
<1>12. ASSUME NEW i \in Ids, Claim(w, i)
       PROVE  UNCHANGED <<envVars, intakeVars>> /\ JobsMove
  <2>1. PICK j \in Job : j = job[i]
    BY <1>0
  <2>2. Claimed(j, w).status = "active" /\ job' = [job EXCEPT ![i] = Claimed(j, w)]
    BY <1>12, <2>1, JobsStay DEF Claim
  <2>. QED BY <1>2, <1>12, <2>2 DEF Claim
<1>. QED BY <1>6, <1>7, <1>8, <1>9, <1>10, <1>11, <1>12
     DEF WorkerStep, CreateRow, Ticket, Hand, RowExists, Complete, NoAccount, CreateFails,
         HandFails, WorkerCrash, LockLost

LEMMA WantedAreIds ==
  ASSUME NEW p \in Payloads
  PROVE  /\ Wanted(p) \subseteq Ids
         /\ \A i \in Wanted(p) : \E n \in DOMAIN Content[p] : i \in Range(Content[p][n])
<1>1. Content[p] \in Seq(Seq(Ids))
  BY IntakeAssumption
<1>2. \A n \in DOMAIN Content[p] : Content[p][n] \in Seq(Ids)
  BY <1>1
<1>3. \A n \in DOMAIN Content[p] : Range(Content[p][n]) \subseteq Ids
  BY <1>2 DEF Range
<1>. QED BY <1>3 DEF Wanted, Walked

\* What a step that leaves the requests alone does not disturb.
LEMMA DoorFrame ==
  ASSUME DoorInv, TypeOK, UNCHANGED <<intakeVars, meta, ignored>> \/
           (UNCHANGED <<hpc, hbody, rest, todo, trusted, leaked, meta, ignored>> /\ dedup' \subseteq dedup),
         \A i \in Ids : Taken(i) => Taken(i)', CompletedOnce'
  PROVE  DoorInv'
<1> USE DEF intakeVars
<1>1. \A i \in Ids : Covered(i) => Covered(i)'
  BY DEF Covered, Holds, Current
<1>2. \A p \in Payloads : \A i \in Ids : Settled(p, i) => Settled(p, i)'
  BY <1>1 DEF Settled
<1>3. KeysHeld'
  BY DEF DoorInv, KeysHeld, Holds, Current, TypeOK
<1>4. WalkedSettled'
  BY <1>2, WantedAreIds DEF DoorInv, WalkedSettled, Busy, Wanted, Walked, Left
<1>5. AckedSettled'
  BY <1>2, WantedAreIds DEF DoorInv, AckedSettled, Wanted, Walked
<1>. QED BY <1>3, <1>4, <1>5 DEF DoorInv

\* A job that moves on as workers and requests move it stays taken.
LEMMA MovesKeepTaken ==
  ASSUME JobsMove, CompletedOnce
  PROVE  CompletedOnce' /\ \A i \in Ids : Taken(i) => Taken(i)'
<1>1. Ids' = Ids
  BY DEF Ids
<1>. QED BY <1>1 DEF JobsMove, CompletedOnce, Taken

LEMMA WorkerDoor ==
  ASSUME TypeOK, HandoverInv, DoorInv, NEW w \in Workers,
         \/ WorkerStep(w) \/ CreateFails(w) \/ HandFails(w)
         \/ WorkerCrash(w) \/ LockLost(w)
         \/ \E i \in Ids : Claim(w, i)
  PROVE  DoorInv'
<1>1. UNCHANGED <<envVars, intakeVars>> /\ JobsMove
  BY WorkersJobs
<1>2. CompletedOnce' /\ \A i \in Ids : Taken(i) => Taken(i)'
  BY <1>1, MovesKeepTaken DEF DoorInv
<1>. QED BY <1>1, <1>2, DoorFrame DEF envVars

LEMMA EnvironmentDoor ==
  ASSUME TypeOK, DoorInv,
         \/ \E i \in Ids : ExpireKey(i) \/ PurgeJob(i) \/ PurgeNext(i)
         \/ Disconnect \/ Reconnect
  PROVE  DoorInv'
<1> USE DEF envVars, intakeVars, workerVars
<1>1. ASSUME UNCHANGED <<job, finished>>
      PROVE  CompletedOnce' /\ \A i \in Ids : Taken(i) => Taken(i)'
  BY <1>1 DEF DoorInv, CompletedOnce, Taken
<1>2. ASSUME NEW i \in Ids, ExpireKey(i) PROVE DoorInv'
  BY <1>1, <1>2, DoorFrame DEF ExpireKey
<1>3. ASSUME NEW i \in Ids, PurgeNext(i) PROVE DoorInv'
  BY <1>1, <1>3, DoorFrame DEF PurgeNext
<1>4. CASE Disconnect \/ Reconnect
  BY <1>1, <1>4, DoorFrame DEF Disconnect, Reconnect
<1>5. ASSUME NEW i \in Ids, PurgeJob(i) PROVE DoorInv'
  <2>1. /\ job[i].status = "completed" /\ job' = [job EXCEPT ![i] = NoJob] /\ UNCHANGED finished
    BY <1>5 DEF PurgeJob
  <2>2. i \in finished
    BY <2>1 DEF DoorInv, CompletedOnce
  <2>3. CompletedOnce'
    BY <2>1 DEF DoorInv, CompletedOnce, TypeOK, NoJob, Ids
  <2>4. \A k \in Ids : Taken(k) => Taken(k)'
    BY <2>1, <2>2 DEF Taken, TypeOK
  <2>. QED BY <1>5, <2>3, <2>4, DoorFrame DEF PurgeJob
<1>. QED BY <1>2, <1>3, <1>4, <1>5

-----------------------------------------------------------------------------

\* A list gives up its head.
LEMMA HeadOrTail ==
  ASSUME NEW S, NEW s \in Seq(S), s # <<>>, NEW n \in DOMAIN s
  PROVE  s[n] = Head(s) \/ \E m \in DOMAIN Tail(s) : s[n] = Tail(s)[m]
<1>1. n \in 1..Len(s)
  OBVIOUS
<1>2. CASE n = 1
  BY <1>1, <1>2
<1>3. CASE n # 1
  <2>1. PICK m : m = n - 1
    OBVIOUS
  <2>2. m \in 1..Len(Tail(s)) /\ m + 1 = n
    BY <1>1, <1>3, <2>1, HeadTailProperties
  <2>3. Tail(s)[m] = s[n]
    BY <1>1, <2>2, HeadTailProperties
  <2>4. m \in DOMAIN Tail(s)
    BY <2>2, HeadTailProperties
  <2>. QED BY <2>3, <2>4
<1>. QED BY <1>2, <1>3

\* What a request's step changes: nothing of another request, and no history
\* is taken back; what it held and let go is taken, or lost with its key if
\* another request relied on it; and a key it sets or leaves is explained.
OneRequest(h) ==
  /\ \A g \in Handlers : g # h =>
       /\ hpc'[g] = hpc[g] /\ hbody'[g] = hbody[g]
       /\ rest'[g] = rest[g] /\ todo'[g] = todo[g]
  /\ trusted \subseteq trusted' /\ leaked \subseteq leaked' /\ ignored \subseteq ignored'
  /\ JobsMove /\ dedup' \subseteq Ids

LetsGo(h) ==
  /\ \A i \in Ids : Holds(h, i) => Holds(h, i)' \/ Taken(i)' \/ i \in leaked' \/ i \notin trusted'
  /\ \A i \in Ids : Holds(h, i) /\ i \in dedup' => Holds(h, i)' \/ Taken(i)' \/ i \in leaked'
  /\ \A i \in dedup' : i \in dedup \/ Holds(h, i)' \/ i \in leaked'

LEMMA RequestKeepsCover ==
  ASSUME NEW h \in Handlers, OneRequest(h), LetsGo(h), CompletedOnce
  PROVE  /\ \A i \in Ids : Covered(i) => Covered(i)'
         /\ \A p \in Payloads : \A i \in Ids : Settled(p, i) => Settled(p, i)'
<1>1. ASSUME NEW i \in Ids, Covered(i) PROVE Covered(i)'
  <2>1. CASE Taken(i)
    BY <2>1, MovesKeepTaken DEF Covered, OneRequest
  <2>2. CASE i \in leaked
    BY <2>2 DEF Covered, OneRequest
  <2>3. CASE i \in trusted /\ \E g \in Handlers : Holds(g, i)
    <3>1. PICK g \in Handlers : Holds(g, i)
      BY <2>3
    <3>2. i \in trusted'
      BY <2>3 DEF OneRequest
    <3>3. CASE g = h
      BY <3>1, <3>2, <3>3 DEF Covered, LetsGo
    <3>4. CASE g # h
      <4>1. Holds(g, i)'
        BY <3>1, <3>4 DEF Holds, Current, OneRequest
      <4>. QED BY <3>2, <4>1 DEF Covered
    <3>. QED BY <3>3, <3>4
  <2>. QED BY <1>1, <2>1, <2>2, <2>3 DEF Covered
<1>2. ASSUME NEW p \in Payloads, NEW i \in Ids, Settled(p, i) PROVE Settled(p, i)'
  BY <1>1, <1>2 DEF Settled, OneRequest
<1>. QED BY <1>1, <1>2

\* The invariant survives a request's step that settles what it walks past
\* and what it acknowledges.
LEMMA RequestDoor ==
  ASSUME TypeOK, DoorInv, NEW h \in Handlers, OneRequest(h), LetsGo(h),
         \A p \in Payloads : Busy(h)' /\ hbody'[h] = p =>
           \A i \in Wanted(p) : Left(h, i)' \/ Settled(p, i)',
         \A p \in Payloads : meta'[p] = "acked" =>
           meta[p] = "acked" \/ \A i \in Wanted(p) : Settled(p, i)'
  PROVE  DoorInv'
<1>0. CompletedOnce
  BY DEF DoorInv
<1>1. \A p \in Payloads : \A i \in Ids : Settled(p, i) => Settled(p, i)'
  BY <1>0, RequestKeepsCover
<1>2. KeysHeld'
  <2>1. SUFFICES ASSUME NEW i \in dedup', ~ Taken(i)', i \notin leaked'
                 PROVE  \E g \in Handlers : Holds(g, i)'
    BY DEF KeysHeld
  <2>2. CASE i \notin dedup
    BY <2>1, <2>2 DEF LetsGo
  <2>3. CASE i \in dedup
    <3>1. i \in Ids /\ ~ Taken(i) /\ i \notin leaked
      BY <1>0, <2>1, MovesKeepTaken DEF OneRequest
    <3>2. PICK g \in Handlers : Holds(g, i)
      BY <2>3, <3>1 DEF DoorInv, KeysHeld
    <3>3. CASE g = h
      BY <2>1, <3>1, <3>2, <3>3 DEF LetsGo
    <3>4. CASE g # h
      BY <3>2, <3>4 DEF OneRequest, Holds, Current
    <3>. QED BY <3>3, <3>4
  <2>. QED BY <2>2, <2>3
<1>3. WalkedSettled'
  <2>1. SUFFICES ASSUME NEW g \in Handlers, NEW p \in Payloads,
                        Busy(g)', hbody'[g] = p, NEW i \in Wanted(p)
                 PROVE  Left(g, i)' \/ Settled(p, i)'
    BY DEF WalkedSettled, Wanted, Walked
  <2>2. CASE g = h
    BY <2>1, <2>2
  <2>3. CASE g # h
    <3>1. Busy(g) /\ hbody[g] = p /\ todo'[g] = todo[g] /\ rest'[g] = rest[g]
      BY <2>1, <2>3 DEF OneRequest, Busy
    <3>2. Left(g, i) \/ Settled(p, i)
      BY <3>1 DEF DoorInv, WalkedSettled
    <3>. QED BY <1>1, <3>1, <3>2, WantedAreIds DEF Left
  <2>. QED BY <2>2, <2>3
<1>4. AckedSettled'
  <2>1. SUFFICES ASSUME NEW p \in Payloads, meta'[p] = "acked", NEW i \in Wanted(p)
                 PROVE  Settled(p, i)'
    BY DEF AckedSettled, Wanted, Walked
  <2>2. meta[p] = "acked" => Settled(p, i)
    BY DEF DoorInv, AckedSettled
  <2>. QED BY <1>1, <2>1, <2>2, WantedAreIds
<1>5. CompletedOnce'
  BY <1>0, MovesKeepTaken DEF OneRequest
<1>. QED BY <1>2, <1>3, <1>4, <1>5 DEF DoorInv

\* Who is not adding or releasing holds nothing and lets go of nothing.
LEMMA HoldsNothing ==
  ASSUME NEW h \in Handlers, hpc[h] \in {"idle", "walk"}
  PROVE  \A i \in Ids : ~ Holds(h, i)
BY DEF Holds

\* Going on to the next item needs the item left behind to be settled.
LEMMA NextItemSettles ==
  ASSUME TypeOK, DoorInv, NEW h \in Handlers, OneRequest(h), LetsGo(h),
         Busy(h), todo[h] # <<>>, NextItem(h),
         NEW c, c = Current(h), c \in Own \/ Covered(c)'
  PROVE  \A p \in Payloads : Busy(h)' /\ hbody'[h] = p =>
           \A i \in Wanted(p) : Left(h, i)' \/ Settled(p, i)'
<1> SUFFICES ASSUME NEW p \in Payloads, hbody'[h] = p, NEW i \in Wanted(p)
             PROVE  Left(h, i)' \/ Settled(p, i)'
  OBVIOUS
<1>1. PICK s \in Seq(Ids) : s = todo[h]
  BY DEF TypeOK
<1>2. hbody[h] = p /\ todo'[h] = Tail(s) /\ rest'[h] = rest[h]
  BY <1>1 DEF NextItem, TypeOK
<1>3. Left(h, i) \/ Settled(p, i)
  BY <1>2 DEF DoorInv, WalkedSettled
<1>4. CASE Settled(p, i)
  BY <1>4, RequestKeepsCover, WantedAreIds DEF DoorInv
<1>5. CASE \E n \in DOMAIN rest[h] : i \in Range(rest[h][n])
  BY <1>2, <1>5 DEF Left
<1>6. CASE i \in Range(s)
  <2>1. PICK n \in DOMAIN s : i = s[n]
    BY <1>6 DEF Range
  <2>2. i = Head(s) \/ \E m \in DOMAIN Tail(s) : i = Tail(s)[m]
    BY <1>1, <2>1, HeadOrTail
  <2>3. CASE i = Head(s)
    <3>1. i \notin Own /\ i = c
      BY <1>1, <2>3 DEF Wanted, Current
    <3>. QED BY <3>1 DEF Settled
  <2>4. CASE \E m \in DOMAIN Tail(s) : i = Tail(s)[m]
    BY <1>2, <2>4 DEF Left, Range
  <2>. QED BY <2>2, <2>3, <2>4
<1>. QED BY <1>1, <1>3, <1>4, <1>5, <1>6 DEF Left

\* A step that leaves what the request has before it settles nothing new.
LEMMA StayingSettles ==
  ASSUME TypeOK, DoorInv, NEW h \in Handlers, OneRequest(h), LetsGo(h),
         Busy(h), UNCHANGED <<hbody, rest, todo>>
  PROVE  \A p \in Payloads : Busy(h)' /\ hbody'[h] = p =>
           \A i \in Wanted(p) : Left(h, i)' \/ Settled(p, i)'
<1> SUFFICES ASSUME NEW p \in Payloads, hbody[h] = p, NEW i \in Wanted(p)
             PROVE  Left(h, i)' \/ Settled(p, i)'
  OBVIOUS
<1>1. Left(h, i) \/ Settled(p, i)
  BY DEF DoorInv, WalkedSettled
<1>. QED BY <1>1, RequestKeepsCover, WantedAreIds DEF DoorInv, Left

\* The other requests are not touched.
LEMMA Apart ==
  ASSUME TypeOK, NEW h \in Handlers, EndRequest(h) \/ NextItem(h)
  PROVE  \A g \in Handlers : g # h =>
           /\ hpc'[g] = hpc[g] /\ hbody'[g] = hbody[g]
           /\ rest'[g] = rest[g] /\ todo'[g] = todo[g]
BY DEF EndRequest, NextItem, TypeOK

LEMMA JobsAtRest ==
  ASSUME UNCHANGED <<job, finished>>
  PROVE  JobsMove
BY DEF JobsMove

\* An own item, and one whose key is in Redis, are left behind.
LEMMA SkipDoor ==
  ASSUME TypeOK, DoorInv, NEW h \in Handlers, SkipOwn(h) \/ SkipSeen(h)
  PROVE  DoorInv'
<1>1. PICK i \in Ids : i = Current(h)
  BY RequestTyping DEF SkipOwn, SkipSeen, AtItem
<1>2. /\ hpc[h] = "walk" /\ todo[h] # <<>> /\ NextItem(h)
      /\ UNCHANGED <<meta, ignored, dedup, leaked, job, finished>>
      /\ trusted \subseteq trusted'
      /\ i \in Own \/ (i \in dedup /\ ((\E g \in Handlers : Holds(g, i)) => i \in trusted'))
  BY <1>1 DEF SkipOwn, SkipSeen, AtItem, envVars, workerVars
<1>3. OneRequest(h)
  BY <1>2, Apart, JobsAtRest DEF OneRequest, TypeOK
<1>4. LetsGo(h)
  BY <1>2, HoldsNothing DEF LetsGo
<1>5. i \in Own \/ Covered(i)'
  <2>1. SUFFICES ASSUME i \notin Own PROVE Covered(i)'
    OBVIOUS
  <2>2. Taken(i) \/ i \in leaked \/ \E g \in Handlers : Holds(g, i)
    BY <1>2, <2>1 DEF DoorInv, KeysHeld
  <2>3. CASE Taken(i) \/ i \in leaked
    BY <1>3, <1>4, <2>3, RequestKeepsCover DEF Covered, DoorInv
  <2>4. CASE \E g \in Handlers : Holds(g, i)
    <3>1. PICK g \in Handlers : Holds(g, i)
      BY <2>4
    <3>2. g # h
      BY <1>2, <3>1 DEF Holds
    <3>3. Holds(g, i)'
      BY <1>3, <3>1, <3>2 DEF Holds, Current, OneRequest
    <3>. QED BY <1>2, <2>1, <2>4, <3>3 DEF Covered
  <2>. QED BY <2>2, <2>3, <2>4
<1>6. \A p \in Payloads : Busy(h)' /\ hbody'[h] = p =>
        \A k \in Wanted(p) : Left(h, k)' \/ Settled(p, k)'
  BY <1>1, <1>2, <1>3, <1>4, <1>5, NextItemSettles DEF Busy
<1>. QED BY <1>2, <1>3, <1>4, <1>6, RequestDoor

\* The key is set: the request holds the item until the add returns.
LEMMA SetKeyDoor ==
  ASSUME TypeOK, DoorInv, NEW h \in Handlers, SetKey(h)
  PROVE  DoorInv'
<1>1. PICK i \in Ids : i = Current(h)
  BY RequestTyping DEF SetKey, AtItem
<1>2. /\ hpc[h] = "walk" /\ todo[h] # <<>> /\ hpc' = [hpc EXCEPT ![h] = "add"]
      /\ dedup' = dedup \cup {i}
      /\ UNCHANGED <<hbody, rest, todo, ignored, meta, trusted, leaked, job, finished>>
  BY <1>1 DEF SetKey, AtItem, envVars, workerVars
<1>3. OneRequest(h)
  BY <1>2, JobsAtRest DEF OneRequest, TypeOK
<1>4. Holds(h, i)'
  BY <1>1, <1>2 DEF Holds, Current, TypeOK
<1>5. LetsGo(h)
  BY <1>2, <1>4, HoldsNothing DEF LetsGo
<1>. QED BY <1>2, <1>3, <1>5, StayingSettles, RequestDoor DEF Busy

\* A job is added, or is there already.
LEMMA AddMoves ==
  ASSUME TypeOK, NEW i \in Ids, UNCHANGED finished,
         job' = [job EXCEPT ![i] = Added(job[i])]
  PROVE  JobsMove /\ job'[i].status # "absent"
<1>1. PICK j \in Job : j = job[i]
  BY DEF TypeOK
<1>2. /\ \A k \in Ids : k # i => job'[k] = job[k]
      /\ job'[i] = Added(j)
  BY <1>1 DEF TypeOK
<1>3. Added(j).status # "absent" /\ (Added(j).status = "completed" => j.status = "completed")
  BY DEF Added, NewJob
<1>. QED BY <1>1, <1>2, <1>3 DEF JobsMove

\* The job is added: the item is taken.
LEMMA AddJobDoor ==
  ASSUME TypeOK, DoorInv, NEW h \in Handlers, AddJob(h)
  PROVE  DoorInv'
<1>1. PICK i \in Ids : i = Current(h)
  BY RequestTyping DEF AddJob, AtItem
<1>2. /\ hpc[h] = "add" /\ todo[h] # <<>> /\ NextItem(h)
      /\ UNCHANGED <<ignored, meta, dedup, trusted, leaked, finished>>
      /\ job' = [job EXCEPT ![i] = Added(job[i])]
  BY <1>1 DEF AddJob, AtItem, envVars, workerVars
<1>3. JobsMove /\ Taken(i)'
  BY <1>2, AddMoves DEF Taken
<1>4. OneRequest(h)
  BY <1>2, <1>3, Apart DEF OneRequest, TypeOK
<1>5. LetsGo(h)
  BY <1>1, <1>2, <1>3 DEF LetsGo, Holds
<1>6. Covered(i)'
  BY <1>3 DEF Covered
<1>7. \A p \in Payloads : Busy(h)' /\ hbody'[h] = p =>
        \A k \in Wanted(p) : Left(h, k)' \/ Settled(p, k)'
  BY <1>1, <1>2, <1>4, <1>5, <1>6, NextItemSettles DEF Busy
<1>. QED BY <1>2, <1>4, <1>5, <1>7, RequestDoor

\* The add failed, with or without effect: the request still holds the item.
LEMMA AddFailsDoor ==
  ASSUME TypeOK, DoorInv, NEW h \in Handlers, AddRefused(h) \/ AddJobFails(h)
  PROVE  DoorInv'
<1>1. PICK i \in Ids : i = Current(h)
  BY RequestTyping DEF AddRefused, AddJobFails, AtItem
<1>2. /\ hpc[h] = "add" /\ todo[h] # <<>> /\ hpc' = [hpc EXCEPT ![h] = "del"]
      /\ UNCHANGED <<hbody, rest, todo, ignored, meta, dedup, trusted, leaked, finished>>
      /\ job' = job \/ job' = [job EXCEPT ![i] = Added(job[i])]
  BY <1>1 DEF AddRefused, AddJobFails, AtItem, envVars, workerVars
<1>3. JobsMove
  BY <1>2, AddMoves, JobsAtRest
<1>4. OneRequest(h)
  BY <1>2, <1>3 DEF OneRequest, TypeOK
<1>5. \A k \in Ids : Holds(h, k) => Holds(h, k)'
  BY <1>2 DEF Holds, Current, TypeOK
<1>6. LetsGo(h)
  BY <1>2, <1>5 DEF LetsGo
<1>. QED BY <1>2, <1>4, <1>6, StayingSettles, RequestDoor DEF Busy

\* A request that ends without a 200 leaves a key only if that is accounted
\* for: it is released, or lost.
LEMMA EndDoor ==
  ASSUME TypeOK, DoorInv, NEW h \in Handlers,
         SetKeyFails(h) \/ ReleaseKey(h) \/ ReleaseKeyFails(h) \/ ApiCrash(h)
  PROVE  DoorInv'
<1>1. /\ EndRequest(h) /\ UNCHANGED <<ignored, meta, trusted, job, finished>>
      /\ leaked \subseteq leaked' /\ dedup' \subseteq Ids
  <2>1. CASE SetKeyFails(h)
    BY <2>1, RequestTyping DEF SetKeyFails, AtItem, envVars, workerVars, TypeOK
  <2>2. CASE ReleaseKey(h) \/ ReleaseKeyFails(h) \/ ApiCrash(h)
    BY <2>2 DEF ReleaseKey, ReleaseKeyFails, ApiCrash, envVars, workerVars, TypeOK
  <2>. QED BY <2>1, <2>2
<1>2. OneRequest(h)
  BY <1>1, Apart, JobsAtRest DEF OneRequest
<1>3. LetsGo(h)
  <2>1. CASE SetKeyFails(h)
    <3>1. hpc[h] = "walk" /\ leaked' = leaked \cup (dedup' \ dedup)
      BY <2>1 DEF SetKeyFails, AtItem
    <3>. QED BY <3>1, HoldsNothing DEF LetsGo
  <2>2. CASE ReleaseKey(h)
    <3>1. /\ dedup' = dedup \ {Current(h)} /\ leaked' = leaked \cup ({Current(h)} \cap trusted)
          /\ UNCHANGED trusted
      BY <2>2 DEF ReleaseKey
    <3>. QED BY <3>1 DEF LetsGo, Holds
  <2>3. CASE ReleaseKeyFails(h)
    <3>1. leaked' = leaked \cup {Current(h)} /\ UNCHANGED dedup
      BY <2>3 DEF ReleaseKeyFails
    <3>. QED BY <3>1 DEF LetsGo, Holds
  <2>4. CASE ApiCrash(h)
    BY <2>4 DEF ApiCrash, LetsGo
  <2>. QED BY <2>1, <2>2, <2>3, <2>4
<1>4. ~ Busy(h)'
  BY <1>1 DEF EndRequest, Busy, TypeOK
<1>. QED BY <1>1, <1>2, <1>3, <1>4, RequestDoor

\* The body is walked through and answered.
LEMMA AnswerDoor ==
  ASSUME TypeOK, DoorInv, NEW h \in Handlers, Answer200(h)
  PROVE  DoorInv'
<1>1. /\ hpc[h] = "walk" /\ todo[h] = <<>> /\ rest[h] = <<>> /\ EndRequest(h)
      /\ meta' = [meta EXCEPT ![hbody[h]] = "acked"]
      /\ UNCHANGED <<ignored, dedup, trusted, leaked, job, finished>>
  BY DEF Answer200, workerVars
<1>2. OneRequest(h)
  BY <1>1, Apart, JobsAtRest DEF OneRequest, TypeOK
<1>3. LetsGo(h)
  BY <1>1, HoldsNothing DEF LetsGo
<1>4. ~ Busy(h)'
  BY <1>1 DEF EndRequest, Busy, TypeOK
<1>5. ASSUME NEW p \in Payloads, meta'[p] = "acked", meta[p] # "acked", NEW i \in Wanted(p)
      PROVE  Settled(p, i)'
  <2>1. p = hbody[h]
    BY <1>1, <1>5 DEF TypeOK
  <2>2. Left(h, i) \/ Settled(p, i)
    BY <1>1, <1>5, <2>1 DEF DoorInv, WalkedSettled, Busy
  <2>3. ~ Left(h, i)
    BY <1>1 DEF Left, Range
  <2>. QED BY <1>2, <1>3, <1>5, <2>2, <2>3, RequestKeepsCover, WantedAreIds DEF DoorInv
<1>. QED BY <1>1, <1>2, <1>3, <1>4, <1>5, RequestDoor

\* An entry is looked up: its items are to be walked through, or the account
\* is disconnected and they are ignored.
LEMMA LookUpDoor ==
  ASSUME TypeOK, DoorInv, NEW h \in Handlers, LookUp(h)
  PROVE  DoorInv'
<1>1. PICK r \in Seq(Seq(Ids)) : r = rest[h]
  BY DEF TypeOK
<1>2. /\ hpc[h] = "walk" /\ r # <<>> /\ todo[h] = <<>>
      /\ rest' = [rest EXCEPT ![h] = Tail(r)]
      /\ todo' = [todo EXCEPT ![h] = IF connected THEN Head(r) ELSE <<>>]
      /\ ignored' = IF connected THEN ignored ELSE ignored \cup {hbody[h]} \X Range(Head(r))
      /\ UNCHANGED <<hpc, hbody, dedup, trusted, leaked, job, finished, meta>>
  BY <1>1 DEF LookUp, workerVars
<1>3. OneRequest(h)
  BY <1>2, JobsAtRest DEF OneRequest, TypeOK
<1>4. LetsGo(h)
  BY <1>2, HoldsNothing DEF LetsGo
<1>5. rest'[h] = Tail(r) /\ todo'[h] = IF connected THEN Head(r) ELSE <<>>
  BY <1>2 DEF TypeOK
<1>6. ASSUME NEW p \in Payloads, hbody[h] = p, NEW i \in Wanted(p)
      PROVE  Left(h, i)' \/ Settled(p, i)'
  <2>1. Left(h, i) \/ Settled(p, i)
    BY <1>2, <1>6 DEF DoorInv, WalkedSettled, Busy
  <2>2. CASE Settled(p, i)
    BY <1>3, <1>4, <2>2, RequestKeepsCover, WantedAreIds DEF DoorInv
  <2>3. CASE Left(h, i)
    <3>1. PICK n \in DOMAIN r : i \in Range(r[n])
      BY <1>1, <1>2, <2>3 DEF Left, Range
    <3>2. r[n] = Head(r) \/ \E m \in DOMAIN Tail(r) : r[n] = Tail(r)[m]
      BY <1>2, <3>1, HeadOrTail
    <3>3. CASE \E m \in DOMAIN Tail(r) : r[n] = Tail(r)[m]
      BY <1>5, <3>1, <3>3 DEF Left
    <3>4. CASE r[n] = Head(r) /\ connected
      BY <1>5, <3>1, <3>4 DEF Left
    <3>5. CASE r[n] = Head(r) /\ ~connected
      <4>1. <<p, i>> \in ignored'
        BY <1>2, <1>6, <3>1, <3>5
      <4>. QED BY <4>1 DEF Settled
    <3>. QED BY <3>2, <3>3, <3>4, <3>5
  <2>. QED BY <2>1, <2>2, <2>3
<1>. QED BY <1>2, <1>3, <1>4, <1>6, RequestDoor

\* A body is delivered: everything in it is still before the request.
LEMMA BeginDoor ==
  ASSUME TypeOK, DoorInv, NEW h \in Handlers, NEW p \in Payloads,
         Deliver(h, p) \/ DuplicateDelivery(h, p)
  PROVE  DoorInv'
<1>1. /\ hpc[h] = "idle" /\ hpc' = [hpc EXCEPT ![h] = "walk"]
      /\ hbody' = [hbody EXCEPT ![h] = p] /\ rest' = [rest EXCEPT ![h] = Content[p]]
      /\ meta' = [meta EXCEPT ![p] = IF @ = "unsent" THEN "pending" ELSE @]
      /\ UNCHANGED <<ignored, todo, dedup, trusted, leaked, job, finished>>
  BY DEF Deliver, DuplicateDelivery, Begin, Busy, workerVars
<1>2. OneRequest(h)
  BY <1>1, JobsAtRest DEF OneRequest, TypeOK
<1>3. LetsGo(h)
  BY <1>1, HoldsNothing DEF LetsGo
<1>4. hbody'[h] = p /\ rest'[h] = Content[p]
  BY <1>1 DEF TypeOK
<1>5. \A q \in Payloads : meta'[q] = "acked" => meta[q] = "acked"
  BY <1>1 DEF TypeOK
<1>6. \A q \in Payloads : hbody'[h] = q => \A i \in Wanted(q) : Left(h, i)'
  BY <1>4, WantedAreIds DEF Left
<1>. QED BY <1>2, <1>3, <1>5, <1>6, RequestDoor

-----------------------------------------------------------------------------

LEMMA NextDoor ==
  ASSUME TypeOK, HandoverInv, DoorInv, [Next]_vars
  PROVE  DoorInv'
<1>1. ASSUME NEW h \in Handlers, HandlerStep(h) PROVE DoorInv'
  BY <1>1, LookUpDoor, SkipDoor, SetKeyDoor, AddJobDoor, AddFailsDoor, EndDoor, AnswerDoor
     DEF HandlerStep
<1>2. ASSUME NEW h \in Handlers,
             SetKeyFails(h) \/ AddJobFails(h) \/ ReleaseKeyFails(h) \/ ApiCrash(h)
      PROVE  DoorInv'
  BY <1>2, AddFailsDoor, EndDoor
<1>3. ASSUME NEW h \in Handlers, NEW p \in Payloads, Deliver(h, p) \/ DuplicateDelivery(h, p)
      PROVE  DoorInv'
  BY <1>3, BeginDoor
<1>4. ASSUME NEW w \in Workers,
             \/ WorkerStep(w) \/ CreateFails(w) \/ HandFails(w)
             \/ WorkerCrash(w) \/ LockLost(w)
             \/ \E i \in Ids : Claim(w, i)
      PROVE  DoorInv'
  BY <1>4, WorkerDoor
<1>5. CASE \/ \E i \in Ids : ExpireKey(i) \/ PurgeJob(i) \/ PurgeNext(i)
           \/ Disconnect \/ Reconnect
  BY <1>5, EnvironmentDoor
<1>6. CASE UNCHANGED vars
  <2>1. CompletedOnce' /\ \A i \in Ids : Taken(i) => Taken(i)'
    BY <1>6 DEF vars, DoorInv, CompletedOnce, Taken
  <2>. QED BY <1>6, <2>1, DoorFrame DEF vars, intakeVars
<1>. QED BY <1>1, <1>2, <1>3, <1>4, <1>5, <1>6 DEF Next

(* A body answered 200 is not lost at the door, however its deliveries,    *)
(* its redeliveries, the workers and any failure interleave: what was not  *)
(* taken was skipped while the account was disconnected, is still held by  *)
(* a request, or is one of the keys a named failure left behind.           *)
THEOREM AckIsTaken == Spec => []AckMeansTaken
<1>1. Init => DoorInv
  BY IntakeAssumption DEF Init, DoorInv, KeysHeld, WalkedSettled, AckedSettled, CompletedOnce,
     Busy, NoJob, Ids
<1>2. TypeOK /\ HandoverInv /\ DoorInv /\ [Next]_vars => DoorInv'
  BY NextDoor
<1>3. DoorInv => AckMeansTaken
  BY DEF DoorInv, AckedSettled, Settled, Covered, AckMeansTaken
<1>. QED BY <1>1, <1>2, <1>3, IntakeInvariant, PTL DEF Spec

=============================================================================
