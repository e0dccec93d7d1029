------------------------------- MODULE Intake -------------------------------
(***************************************************************************)
(* Webhook intake: from Meta's delivery to a queued automation-match job.  *)
(*                                                                         *)
(*   Meta --POST--> WebhooksController.receive   (handlers: HTTP requests) *)
(*        --SETNX + add--> webhook-events / postback-events queues         *)
(*        --WebhookEventsProcessor.process--> CommentEvent row, ticket     *)
(*        --add--> automation-match queue                                  *)
(*        --PostbackEventsProcessor.process--> message-send queue          *)
(*                                                                         *)
(* Every await of the source is a step boundary.  Meta redelivers a        *)
(* payload until it is answered 200 and may deliver it more than once; a   *)
(* handler or a worker may crash between two steps; a worker may lose its  *)
(* job's lock while it still runs (BullMQ is at-least-once); each call to  *)
(* Redis or Postgres may fail.  FaultSites names the calls that may fail,  *)
(* the Max... constants bound how often.                                   *)
(***************************************************************************)
EXTENDS Naturals, Sequences, FiniteSets, Functions, BullMQ

CONSTANTS
  Payloads,       \* webhook bodies Meta sends
  Content,        \* Payloads -> Seq(Seq(Ids)): the events each entry of a body maps to
  Events,         \* externalEventId of comments, DMs, story replies, referrals
  Postbacks,      \* mid of button taps
  Own,            \* ids authored by the connected account itself
  Refused,        \* ids whose "webhook-<id>" BullMQ refuses as a custom job id
  Orphans,        \* events whose account row is gone when a worker looks for it
  Handlers,       \* concurrent webhook requests of the API
  NoPayload,      \* a handler that serves nothing
  NoId,           \* a worker that processes nothing
  FaultSites,     \* calls that may fail, processes that may stop, in this instance
  MaxFaults,      \* how many of those failures happen
  MaxDuplicates,  \* deliveries beyond the redelivery of an unanswered body
  MaxExpiries,    \* dedup keys that reach their 24 h TTL
  MaxPurges,      \* completed jobs removed (removeOnComplete)
  MaxDisconnects, \* times the account is disconnected
  MaxMishaps      \* all of these together

Ids == Events \cup Postbacks

ASSUME IntakeAssumption ==
  /\ MaxAttempts \in Nat \ {0}
  /\ NoWorker \notin Workers
  /\ Events \cap Postbacks = {}
  /\ Own \subseteq Ids /\ Refused \subseteq Ids /\ Orphans \subseteq Events /\ NoId \notin Ids
  /\ NoPayload \notin Payloads
  /\ Content \in [Payloads -> Seq(Seq(Ids))]
  /\ {MaxFaults, MaxDuplicates, MaxExpiries, MaxPurges, MaxDisconnects, MaxMishaps} \subseteq Nat

VARIABLES
  meta,       \* Payloads -> "unsent", "pending" (not answered 200 yet), "acked"
  connected,  \* InstagramAccount.status # DISCONNECTED
  ignored,    \* events of a body skipped because the account was disconnected (history)
  hpc,        \* Handlers -> the await the request is at
  hbody,      \* Handlers -> the body it serves
  rest,       \* Handlers -> the entries it has not looked at yet
  todo,       \* Handlers -> the ids of the entry it is in that it has still to walk through
  dedup,      \* Redis keys webhook:dedup:<id>
  trusted,    \* ids skipped as seen while the request that saw them first was adding (history)
  leaked,     \* ids whose key outlived a failure, or was trusted and the add failed (history)
  job,        \* webhook-events and postback-events queues
  rows,       \* externalEventIds that have a CommentEvent row
  ticketed,   \* events the ticket module has ingested
  wpc,        \* Workers -> the await the worker is at
  wid,        \* Workers -> the id of its job
  next,       \* downstream queue: the match job of an event, the send job of a postback
  handed,     \* how often a downstream job was created for an id (history)
  finished,   \* ids whose job was completed (history)
  cut,        \* events whose worker failed between the row and the match job (history)
  spent       \* how much of each bound of the environment is used

intakeVars == <<hpc, hbody, rest, todo, dedup, trusted, leaked>>
workerVars == <<rows, ticketed, wpc, wid, next, handed, finished, cut>>
envVars == <<meta, connected, ignored>>
vars == <<meta, connected, ignored, hpc, hbody, rest, todo, dedup, trusted, leaked, job,
          rows, ticketed, wpc, wid, next, handed, finished, cut, spent>>

Budget == {"fault", "duplicate", "expiry", "purge", "disconnect"}

Bound == [fault |-> MaxFaults, duplicate |-> MaxDuplicates, expiry |-> MaxExpiries,
          purge |-> MaxPurges, disconnect |-> MaxDisconnects]

Mishaps ==
  spent["fault"] + spent["duplicate"] + spent["expiry"] + spent["purge"] + spent["disconnect"]

Spend(b) ==
  /\ spent[b] < Bound[b] /\ Mishaps < MaxMishaps
  /\ spent' = [spent EXCEPT ![b] = @ + 1]

Fault(site) == site \in FaultSites /\ Spend("fault")

TypeOK ==
  /\ meta \in [Payloads -> {"unsent", "pending", "acked"}]
  /\ connected \in BOOLEAN
  /\ ignored \subseteq (Payloads \cup {NoPayload}) \X Ids
  /\ hpc \in [Handlers -> {"idle", "walk", "add", "del"}]
  /\ hbody \in [Handlers -> Payloads \cup {NoPayload}]
  /\ rest \in [Handlers -> Seq(Seq(Ids))]
  /\ todo \in [Handlers -> Seq(Ids)]
  /\ dedup \subseteq Ids /\ trusted \subseteq Ids /\ leaked \subseteq Ids
  /\ job \in [Ids -> Job]
  /\ rows \subseteq Events
  /\ ticketed \subseteq rows
  /\ wpc \in [Workers -> {"idle", "create", "ticket", "hand", "done"}]
  /\ wid \in [Workers -> Ids \cup {NoId}]
  /\ next \in [Ids -> {"absent", "present"}]
  /\ handed \in [Ids -> Nat]
  /\ finished \subseteq Ids /\ cut \subseteq rows
  /\ spent \in [Budget -> Nat]

Init ==
  /\ meta = [p \in Payloads |-> "unsent"]
  /\ connected = TRUE
  /\ ignored = {}
  /\ hpc = [h \in Handlers |-> "idle"]
  /\ hbody = [h \in Handlers |-> NoPayload]
  /\ rest = [h \in Handlers |-> <<>>]
  /\ todo = [h \in Handlers |-> <<>>]
  /\ dedup = {} /\ trusted = {} /\ leaked = {}
  /\ job = [i \in Ids |-> NoJob]
  /\ rows = {}
  /\ ticketed = {}
  /\ wpc = [w \in Workers |-> "idle"]
  /\ wid = [w \in Workers |-> NoId]
  /\ next = [i \in Ids |-> "absent"]
  /\ handed = [i \in Ids |-> 0]
  /\ finished = {} /\ cut = {}
  /\ spent = [b \in Budget |-> 0]

(* ---- WebhooksController.receive: one request, one await per action ---- *)

Busy(h) == hpc[h] # "idle"
Current(h) == Head(todo[h])

Begin(h, p) ==
  /\ ~Busy(h)
  /\ hpc' = [hpc EXCEPT ![h] = "walk"]
  /\ hbody' = [hbody EXCEPT ![h] = p]
  /\ rest' = [rest EXCEPT ![h] = Content[p]]
  /\ meta' = [meta EXCEPT ![p] = IF @ = "unsent" THEN "pending" ELSE @]
  /\ UNCHANGED <<connected, ignored, todo, dedup, trusted, leaked, job, workerVars>>

(* Meta delivers a body, and again after every answer that was not a 200.  *)
Deliver(h, p) ==
  /\ meta[p] # "acked"
  /\ \A g \in Handlers : Busy(g) => hbody[g] # p
  /\ Begin(h, p)
  /\ UNCHANGED spent

(* A second copy, in flight with the first or after its answer.            *)
DuplicateDelivery(h, p) ==
  /\ meta[p] # "unsent"
  /\ Spend("duplicate")
  /\ Begin(h, p)

AtItem(h, pc) == hpc[h] = pc /\ todo[h] # <<>>

NextItem(h) ==
  /\ hpc' = [hpc EXCEPT ![h] = "walk"]
  /\ todo' = [todo EXCEPT ![h] = Tail(@)]
  /\ UNCHANGED <<hbody, rest>>

EndRequest(h) ==
  /\ hpc' = [hpc EXCEPT ![h] = "idle"]
  /\ hbody' = [hbody EXCEPT ![h] = NoPayload]
  /\ rest' = [rest EXCEPT ![h] = <<>>]
  /\ todo' = [todo EXCEPT ![h] = <<>>]

(* findAccountIdByIgUserId, for each entry of the body: nothing of a       *)
(* disconnected account is walked.                                         *)
LookUp(h) ==
  /\ hpc[h] = "walk" /\ todo[h] = <<>> /\ rest[h] # <<>>
  /\ rest' = [rest EXCEPT ![h] = Tail(@)]
  /\ todo' = [todo EXCEPT ![h] = IF connected THEN Head(rest[h]) ELSE <<>>]
  /\ ignored' = IF connected THEN ignored
                ELSE ignored \cup {hbody[h]} \X Range(Head(rest[h]))
  /\ UNCHANGED <<meta, connected, hpc, hbody, dedup, trusted, leaked, job, workerVars, spent>>

Answer200(h) ==
  /\ hpc[h] = "walk" /\ todo[h] = <<>> /\ rest[h] = <<>>
  /\ meta' = [meta EXCEPT ![hbody[h]] = "acked"]
  /\ EndRequest(h)
  /\ UNCHANGED <<connected, ignored, dedup, trusted, leaked, job, workerVars, spent>>

SkipOwn(h) ==
  /\ AtItem(h, "walk") /\ Current(h) \in Own
  /\ NextItem(h)
  /\ UNCHANGED <<envVars, dedup, trusted, leaked, job, workerVars, spent>>

\* The request has the key of an id, and the id no job yet.
Holds(h, i) == hpc[h] \in {"add", "del"} /\ todo[h] # <<>> /\ Current(h) = i

SkipSeen(h) ==
  /\ AtItem(h, "walk") /\ Current(h) \notin Own /\ Current(h) \in dedup
  /\ trusted' = IF \E g \in Handlers : Holds(g, Current(h))
                THEN trusted \cup {Current(h)} ELSE trusted
  /\ NextItem(h)
  /\ UNCHANGED <<envVars, dedup, leaked, job, workerVars, spent>>

(* SET dedupKey NX EX: the id is new.                                      *)
SetKey(h) ==
  /\ AtItem(h, "walk") /\ Current(h) \notin Own /\ Current(h) \notin dedup
  /\ dedup' = dedup \cup {Current(h)}
  /\ hpc' = [hpc EXCEPT ![h] = "add"]
  /\ UNCHANGED <<envVars, hbody, rest, todo, trusted, leaked, job, workerVars, spent>>

(* The SET throws, outside the try: Redis may have applied it or not.      *)
SetKeyFails(h) ==
  /\ AtItem(h, "walk") /\ Current(h) \notin Own
  /\ Fault("set")
  /\ dedup' \in {dedup, dedup \cup {Current(h)}}
  /\ leaked' = leaked \cup (dedup' \ dedup)
  /\ EndRequest(h)
  /\ UNCHANGED <<envVars, trusted, job, workerVars>>

AddJob(h) ==
  /\ AtItem(h, "add") /\ Current(h) \notin Refused
  /\ job' = [job EXCEPT ![Current(h)] = Added(@)]
  /\ NextItem(h)
  /\ UNCHANGED <<envVars, dedup, trusted, leaked, workerVars, spent>>

(* BullMQ throws on a custom job id it does not accept.                    *)
AddRefused(h) ==
  /\ AtItem(h, "add") /\ Current(h) \in Refused
  /\ hpc' = [hpc EXCEPT ![h] = "del"]
  /\ UNCHANGED <<envVars, hbody, rest, todo, dedup, trusted, leaked, job, workerVars, spent>>

(* add throws because Redis failed, with or without effect.                *)
AddJobFails(h) ==
  /\ AtItem(h, "add") /\ Current(h) \notin Refused
  /\ Fault("add")
  /\ job' \in {job, [job EXCEPT ![Current(h)] = Added(@)]}
  /\ hpc' = [hpc EXCEPT ![h] = "del"]
  /\ UNCHANGED <<envVars, hbody, rest, todo, dedup, trusted, leaked, workerVars>>

ReleaseKey_Forgotten(h) ==
  /\ AtItem(h, "del")
  /\ leaked' = leaked \cup ({Current(h)} \cap trusted)
  /\ EndRequest(h)
  /\ UNCHANGED <<envVars, dedup, trusted, job, workerVars, spent>>

(* The catch block: DEL dedupKey and rethrow, so the request answers 500   *)
(* and the items behind this one are left to the redelivery.               *)
ReleaseKey(h) ==
  /\ AtItem(h, "del")
  /\ dedup' = dedup \ {Current(h)}
  /\ leaked' = leaked \cup ({Current(h)} \cap trusted)
  /\ EndRequest(h)
  /\ UNCHANGED <<envVars, trusted, job, workerVars, spent>>

ReleaseKeyFails(h) ==
  /\ AtItem(h, "del")
  /\ Fault("del")
  /\ leaked' = leaked \cup {Current(h)}
  /\ EndRequest(h)
  /\ UNCHANGED <<envVars, dedup, trusted, job, workerVars>>

ApiCrash(h) ==
  /\ Busy(h)
  /\ Fault("apiCrash")
  /\ leaked' = leaked \cup {i \in Ids : Holds(h, i)}
  /\ EndRequest(h)
  /\ UNCHANGED <<envVars, dedup, trusted, job, workerVars>>

(* ---- WebhookEventsProcessor and PostbackEventsProcessor --------------- *)

Claim_OneProcessor(w, i) ==
  /\ wpc[w] = "idle" /\ job[i].status = "waiting"
  /\ job' = [job EXCEPT ![i] = Claimed(@, w)]
  /\ wid' = [wid EXCEPT ![w] = i]
  /\ wpc' = [wpc EXCEPT ![w] = "create"]
  /\ UNCHANGED <<envVars, intakeVars, rows, ticketed, next, handed, finished, cut, spent>>

Claim(w, i) ==
  /\ wpc[w] = "idle" /\ job[i].status = "waiting"
  /\ job' = [job EXCEPT ![i] = Claimed(@, w)]
  /\ wid' = [wid EXCEPT ![w] = i]
  /\ wpc' = [wpc EXCEPT ![w] = IF i \in Events THEN "create" ELSE "hand"]
  /\ UNCHANGED <<envVars, intakeVars, rows, ticketed, next, handed, finished, cut, spent>>

Rest(w) ==
  /\ wpc' = [wpc EXCEPT ![w] = "idle"]
  /\ wid' = [wid EXCEPT ![w] = NoId]

Finish(w) ==
  /\ Rest(w)
  /\ job' = [job EXCEPT ![wid[w]] = Returned(@, w)]
  /\ finished' = IF job[wid[w]].lock = w THEN finished \cup {wid[w]} ELSE finished

Retry(w) == Rest(w) /\ job' = [job EXCEPT ![wid[w]] = Threw(@, w)] /\ UNCHANGED finished

(* The account is gone: the event is dropped, and its job completes.       *)
NoAccount(w) ==
  /\ wpc[w] = "create" /\ wid[w] \in Orphans
  /\ Finish(w)
  /\ UNCHANGED <<envVars, intakeVars, rows, ticketed, next, handed, cut, spent>>

\* A worker that still has to create the row of an account that is there.
Creating(w) == wpc[w] = "create" /\ wid[w] \notin Orphans

CreateRow_NotUnique(w) ==
  /\ Creating(w)
  /\ rows' = rows \cup {wid[w]}
  /\ wpc' = [wpc EXCEPT ![w] = "ticket"]
  /\ UNCHANGED <<envVars, intakeVars, job, ticketed, wid, next, handed, finished, cut, spent>>

(* commentEvent.create: externalEventId is unique.                         *)
CreateRow(w) ==
  /\ Creating(w) /\ wid[w] \notin rows
  /\ rows' = rows \cup {wid[w]}
  /\ wpc' = [wpc EXCEPT ![w] = "ticket"]
  /\ UNCHANGED <<envVars, intakeVars, job, ticketed, wid, next, handed, finished, cut, spent>>

(* P2002: the row is there, so the handler returns and the job completes.  *)
RowExists(w) ==
  /\ Creating(w) /\ wid[w] \in rows
  /\ Finish(w)
  /\ UNCHANGED <<envVars, intakeVars, rows, ticketed, next, handed, cut, spent>>

(* create throws something else; Postgres may have committed it or not.    *)
CreateFails(w) ==
  /\ Creating(w)
  /\ Fault("create")
  /\ rows' \in {rows, rows \cup {wid[w]}}
  /\ cut' = cut \cup (rows' \ rows)
  /\ Retry(w)
  /\ UNCHANGED <<envVars, intakeVars, ticketed, next, handed>>

Ticket_Rethrows(w) ==
  /\ wpc[w] = "ticket"
  /\ Retry(w)
  /\ UNCHANGED <<envVars, intakeVars, rows, ticketed, next, handed, cut, spent>>

(* Contact and ticket: their errors are logged and swallowed.              *)
Ticket(w) ==
  /\ wpc[w] = "ticket"
  /\ ticketed' \in {ticketed, ticketed \cup {wid[w]}}
  /\ wpc' = [wpc EXCEPT ![w] = "hand"]
  /\ UNCHANGED <<envVars, intakeVars, job, rows, wid, next, handed, finished, cut, spent>>

AddNext(i) ==
  /\ next' = [next EXCEPT ![i] = "present"]
  /\ handed' = [handed EXCEPT ![i] = IF next[i] = "absent" THEN @ + 1 ELSE @]

(* automationMatchQueue.add (jobId: the row's id), or resolvePostback,     *)
(* which adds the send job postback-<mid> or finds no button and returns.  *)
Hand(w) ==
  /\ wpc[w] = "hand"
  /\ \/ AddNext(wid[w])
     \/ wid[w] \in Postbacks /\ UNCHANGED <<next, handed>>
  /\ wpc' = [wpc EXCEPT ![w] = "done"]
  /\ UNCHANGED <<envVars, intakeVars, job, rows, ticketed, wid, finished, cut, spent>>

HandFails(w) ==
  /\ wpc[w] = "hand"
  /\ Fault("hand")
  /\ AddNext(wid[w]) \/ UNCHANGED <<next, handed>>
  /\ cut' = cut \cup ({wid[w]} \cap Events)
  /\ Retry(w)
  /\ UNCHANGED <<envVars, intakeVars, rows, ticketed>>

Complete(w) ==
  /\ wpc[w] = "done"
  /\ Finish(w)
  /\ UNCHANGED <<envVars, intakeVars, rows, ticketed, next, handed, cut, spent>>

Unlocked(i, w) == [job EXCEPT ![i] = IF @.lock = w THEN Stalled(@) ELSE @]

WorkerCrash(w) ==
  /\ wpc[w] # "idle"
  /\ Fault("crash")
  /\ job' = Unlocked(wid[w], w)
  /\ cut' = IF wpc[w] \in {"ticket", "hand"} THEN cut \cup ({wid[w]} \cap Events) ELSE cut
  /\ Rest(w)
  /\ UNCHANGED <<envVars, intakeVars, rows, ticketed, next, handed, finished>>

(* The worker lives on, but its job is taken from it.                      *)
LockLost(w) ==
  /\ wpc[w] # "idle" /\ job[wid[w]].lock = w
  /\ Fault("stall")
  /\ job' = Unlocked(wid[w], w)
  /\ UNCHANGED <<envVars, intakeVars, workerVars>>

(* ---- Redis, BullMQ and the user --------------------------------------- *)

ExpireKey(i) ==
  /\ i \in dedup
  /\ Spend("expiry")
  /\ dedup' = dedup \ {i}
  /\ UNCHANGED <<envVars, hpc, hbody, rest, todo, trusted, leaked, job, workerVars>>

PurgeJob(i) ==
  /\ job[i].status = "completed"
  /\ Spend("purge")
  /\ job' = [job EXCEPT ![i] = NoJob]
  /\ UNCHANGED <<envVars, intakeVars, workerVars>>

PurgeNext(i) ==
  /\ next[i] = "present"
  /\ Spend("purge")
  /\ next' = [next EXCEPT ![i] = "absent"]
  /\ UNCHANGED <<envVars, intakeVars, job, rows, ticketed, wpc, wid, handed, finished, cut>>

Disconnect ==
  /\ connected
  /\ Spend("disconnect")
  /\ connected' = FALSE
  /\ UNCHANGED <<meta, ignored, intakeVars, job, workerVars>>

Reconnect ==
  /\ ~connected
  /\ connected' = TRUE
  /\ UNCHANGED <<meta, ignored, intakeVars, job, workerVars, spent>>

HandlerStep(h) ==
  \/ LookUp(h) \/ Answer200(h) \/ SkipOwn(h) \/ SkipSeen(h) \/ SetKey(h)
  \/ AddJob(h) \/ AddRefused(h) \/ ReleaseKey(h)

WorkerStep(w) ==
  \/ NoAccount(w) \/ CreateRow(w) \/ RowExists(w) \/ Ticket(w) \/ Hand(w) \/ Complete(w)

Next ==
  \/ \E h \in Handlers :
       \/ HandlerStep(h) \/ SetKeyFails(h) \/ AddJobFails(h) \/ ReleaseKeyFails(h)
       \/ ApiCrash(h)
       \/ \E p \in Payloads : Deliver(h, p) \/ DuplicateDelivery(h, p)
  \/ \E w \in Workers :
       \/ WorkerStep(w) \/ CreateFails(w) \/ HandFails(w)
       \/ WorkerCrash(w) \/ LockLost(w)
       \/ \E i \in Ids : Claim(w, i)
  \/ \E i \in Ids : ExpireKey(i) \/ PurgeJob(i) \/ PurgeNext(i)
  \/ Disconnect \/ Reconnect

Spec == Init /\ [][Next]_vars

(* Meta redelivers while it has no 200, the API event loop and the workers *)
(* run on; failures, crashes and the user are never obliged to happen.     *)
Fairness ==
  /\ \A p \in Payloads : WF_vars(\E h \in Handlers : Deliver(h, p))
  /\ \A h \in Handlers : WF_vars(HandlerStep(h))
  /\ \A w \in Workers : WF_vars(WorkerStep(w))
  /\ \A i \in Ids : WF_vars(\E w \in Workers : Claim(w, i))

FairSpec == Spec /\ Fairness

(* ---- Properties ------------------------------------------------------- *)

Walked(p) == UNION {Range(Content[p][n]) : n \in DOMAIN Content[p]}
Wanted(p) == Walked(p) \ Own

Taken(i) == job[i].status # "absent" \/ i \in finished

(* Duplicate deliveries, retries, crashes, lost locks and expired keys     *)
(* together never give an event a second match job; a button tap is        *)
(* answered again only after BullMQ removed the finished answer's job      *)
(* (webhooks.service.ts enqueueIfNew, webhook-events.processor.ts process).*)
HandedAtMostOnce ==
  \A i \in Ids : handed[i] > 1 => i \in Postbacks /\ spent["purge"] > 0

(* Why that holds: a row is created once, whoever created it is the only   *)
(* worker past the create, and it has not handed the event on yet.         *)
Past(w) == wpc[w] \in {"ticket", "hand"} /\ wid[w] \in Events

HandoverInv ==
  /\ \A w \in Workers : wpc[w] \in {"create", "ticket"} => wid[w] \in Events
  /\ \A w \in Workers : wpc[w] # "idle" => wid[w] \in Ids
  /\ \A w \in Workers : Past(w) => wid[w] \in rows /\ handed[wid[w]] = 0
  /\ \A v, w \in Workers : Past(v) /\ Past(w) /\ v # w => wid[v] # wid[w]
  /\ \A i \in Events : i \notin rows => handed[i] = 0
  /\ \A i \in Events : handed[i] <= 1
  /\ \A i \in Ids : next[i] = "present" => handed[i] > 0
  /\ \A i \in Ids : next[i] = "absent" /\ handed[i] > 0 => spent["purge"] > 0
  /\ HandedAtMostOnce

(* A body answered with 200 is not lost at the door, whatever failed on    *)
(* the way: each of its events that the account did not author has its job *)
(* or had it completed, unless the account was disconnected when its entry *)
(* was looked up, a request still holds its key, or the key outlived a     *)
(* failing SET or DEL, a stopped process, or an add that another request   *)
(* trusted (receive, enqueueIfNew).                                        *)
AckMeansTaken ==
  \A p \in Payloads : meta[p] = "acked" =>
    \A i \in Wanted(p) :
      \/ Taken(i) \/ <<p, i>> \in ignored \/ i \in leaked
      \/ \E h \in Handlers : Holds(h, i)

Carried(i) == \E w \in Workers : wid[w] = i /\ wpc[w] \in {"ticket", "hand"}

(* "idempotency: retries of this job never enqueue a duplicate match job": *)
(* nor may they enqueue none.  A recorded event is matched, on its way     *)
(* there, about to be tried again, or visible in the failed set.           *)
NoEventVanishes ==
  \A i \in rows :
    handed[i] > 0 \/ Carried(i) \/ job[i].status \in {"waiting", "active", "failed"}

(* A recorded event that has no worker and was not handed on was dropped   *)
(* at one place only, between its row and its match job, by a worker that  *)
(* failed there: no duplicate, lost lock, expired key or other failure     *)
(* ends an event that way (process: every path after the create ends in    *)
(* the match queue, and the retry takes its own row for a duplicate).      *)
OnlyCutsLoseRows ==
  \A i \in rows : handed[i] > 0 \/ Carried(i) \/ i \in cut

(* The n-th entry's k-th event is not behind, nor is, one BullMQ refuses:  *)
(* a request stops there at every delivery.                                *)
Before(p, n, k) ==
  \A m \in 1..n : \A j \in DOMAIN Content[p][m] :
    m < n \/ j <= k => Content[p][m][j] \notin (Refused \ Own)

Promised(p) ==
  {i \in (Wanted(p) \cap Events) \ Orphans :
     \E n \in DOMAIN Content[p] : \E k \in DOMAIN Content[p][n] :
       Content[p][n][k] = i /\ Before(p, n, k)}

(* Every promised event of a delivered body reaches the matching queue,    *)
(* whatever the order of deliveries and whichever call failed first; or    *)
(* its entry was skipped, its key leaked, its worker failed between row    *)
(* and hand-over, or its job is in the failed set.                         *)
EveryEventIsMatched ==
  \A p \in Payloads : \A i \in Promised(p) :
    meta[p] = "pending" ~>
      (handed[i] > 0 \/ <<p, i>> \in ignored \/ i \in leaked \cup cut \/ job[i].status = "failed")
=============================================================================
