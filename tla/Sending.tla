------------------------------- MODULE Sending -------------------------------
(***************************************************************************)
(* Outbound sending for one Instagram account: MessageSendProcessor takes  *)
(* a send job, MessagingService.send runs it past the circuit breaker and  *)
(* the rate limiter, calls the Graph API and writes a MessageLog row; the  *)
(* dead-letter scan of the same processor puts exhausted jobs back.        *)
(*                                                                         *)
(* Every await is a step, except that a log row is written together with   *)
(* the throw or return it precedes (nothing reads the log).  Breaker,      *)
(* limiter window and account status are shared by all workers and by the  *)
(* user who disconnects and reconnects the account.                        *)
(***************************************************************************)
EXTENDS Naturals, FiniteSets, SequencesExt, BullMQ

CONSTANTS
  Messages,      \* send jobs the automations and button taps queue
  MaxRounds,     \* MAX_REQUEUE_ROUNDS (5 in the source)
  BatchSize,     \* DLQ_SCAN_BATCH_SIZE (200)
  Threshold,     \* FAILURE_THRESHOLD (5)
  Limit,         \* DEFAULT_LIMIT_PER_ACCOUNT_PER_HOUR (100)
  NoKey,         \* a worker that sends nothing
  Outcomes,      \* what a Graph API call may end in, in this instance
  FaultSites,    \* where a call to Redis or Postgres may fail, or a worker stop
  MaxFaults, MaxBlocks

(* The job id of round r is that of round r - 1 with "-requeue-<r>".       *)
Rounds == 0..MaxRounds
Keys == Messages \X Rounds

(* "refused" and "ambiguous" are error answers other than 429, the second  *)
(* after Meta carried the call out; "unreachable" and "lost" never get an  *)
(* answer, the second after Meta carried the call out.                     *)
AllOutcomes == {"ok", "limited", "refused", "ambiguous", "unreachable", "lost"}

ASSUME SendingAssumption ==
  /\ MaxAttempts \in Nat \ {0} /\ NoWorker \notin Workers /\ IsFiniteSet(Workers)
  /\ MaxRounds \in Nat /\ BatchSize \in Nat \ {0}
  /\ Threshold \in Nat \ {0} /\ Limit \in Nat
  /\ NoKey \notin Keys /\ Outcomes \subseteq AllOutcomes
  /\ {MaxFaults, MaxBlocks} \subseteq Nat

VARIABLES
  status,    \* InstagramAccount.status
  failures,  \* Redis circuit:<id>:failures, up to Threshold
  open,      \* Redis circuit:<id>:open
  used,      \* Redis ratelimit:<id>:<window>, up to Limit + 1
  job,       \* Keys -> message-send job
  failed,    \* BullMQ's failed set, newest first
  pc,        \* Workers -> the await the worker is at
  at,        \* Workers -> the key of its job
  result,    \* Workers -> what its call ended in
  scan,      \* the scan: "idle", "walk", or "add" between remove and add
  batch,     \* the failed jobs the scan has still to look at
  log,       \* Messages -> MessageLog statuses written for it
  calls,     \* Messages -> Graph API calls made (history)
  posts,     \* Messages -> calls Meta carried out (history)
  mishaps,   \* Messages -> answers lost, writes after an answer that failed,
             \*   workers stopped after the call or without lock (history)
  dropped,   \* messages a scan held when it was cut off (history)
  spent

accountVars == <<status, failures, open, used>>
queueVars == <<job, failed>>
workVars == <<pc, at, result>>
scanVars == <<scan, batch>>
metaVars == <<calls, posts>>
histories == <<mishaps, dropped>>
vars == <<accountVars, queueVars, workVars, scanVars, log, metaVars, histories, spent>>

Budget == {"fault", "block"}

Bound == [fault |-> MaxFaults, block |-> MaxBlocks]

Spend(b) ==
  /\ spent[b] < Bound[b]
  /\ spent' = [spent EXCEPT ![b] = @ + 1]

Fault(site) == site \in FaultSites /\ Spend("fault")

Blocked == {"DISCONNECTED", "TOKEN_EXPIRED"}
Statuses == {"ACTIVE", "RATE_LIMITED"} \cup Blocked

TypeOK ==
  /\ status \in Statuses
  /\ failures \in 0..Threshold
  /\ open \in BOOLEAN
  /\ used \in 0..(Limit + 1)
  /\ job \in [Keys -> Job]
  /\ failed \in Seq(Keys)
  /\ pc \in [Workers -> {"idle", "breaker", "limit", "credentials", "post", "logSent",
                         "clear", "activate", "count", "trip", "flag", "logFailed"}]
  /\ at \in [Workers -> Keys \cup {NoKey}]
  /\ result \in [Workers -> {"none", "ok", "limited", "answered", "unanswered"}]
  /\ scan \in {"idle", "walk", "add"}
  /\ batch \in Seq(Keys)
  /\ log \in [Messages -> SUBSET {"SENT", "FAILED", "RATE_LIMITED"}]
  /\ calls \in [Messages -> Nat] /\ posts \in [Messages -> Nat]
  /\ mishaps \in [Messages -> Nat] /\ dropped \subseteq Messages
  /\ spent \in [Budget -> Nat]

Init ==
  /\ status = "ACTIVE" /\ failures = 0 /\ open = FALSE /\ used = 0
  /\ job = [k \in Keys |-> IF k[2] = 0 THEN NewJob ELSE NoJob]
  /\ failed = <<>>
  /\ pc = [w \in Workers |-> "idle"]
  /\ at = [w \in Workers |-> NoKey]
  /\ result = [w \in Workers |-> "none"]
  /\ scan = "idle" /\ batch = <<>>
  /\ log = [m \in Messages |-> {}]
  /\ calls = [m \in Messages |-> 0] /\ posts = [m \in Messages |-> 0]
  /\ mishaps = [m \in Messages |-> 0] /\ dropped = {}
  /\ spent = [b \in Budget |-> 0]

(* ---- MessagingService.send --------------------------------------------- *)

Claim_AnyState(w, k) ==
  /\ pc[w] = "idle" /\ job[k].status \in {"waiting", "failed"}
  /\ job' = [job EXCEPT ![k] = Claimed(@, w)]
  /\ pc' = [pc EXCEPT ![w] = "breaker"]
  /\ at' = [at EXCEPT ![w] = k]
  /\ UNCHANGED <<accountVars, failed, result, scanVars, log, metaVars, histories, spent>>

Claim(w, k) ==
  /\ pc[w] = "idle" /\ job[k].status = "waiting"
  /\ job' = [job EXCEPT ![k] = Claimed(@, w)]
  /\ pc' = [pc EXCEPT ![w] = "breaker"]
  /\ at' = [at EXCEPT ![w] = k]
  /\ UNCHANGED <<accountVars, failed, result, scanVars, log, metaVars, histories, spent>>

Rest(w) ==
  /\ pc' = [pc EXCEPT ![w] = "idle"]
  /\ at' = [at EXCEPT ![w] = NoKey]
  /\ result' = [result EXCEPT ![w] = "none"]

Finish(w) ==
  /\ Rest(w)
  /\ job' = [job EXCEPT ![at[w]] = Returned(@, w)]
  /\ UNCHANGED failed

(* BullMQ retries, and keeps an exhausted job in the failed set.           *)
Retry(w) ==
  /\ Rest(w)
  /\ job' = [job EXCEPT ![at[w]] = Threw(@, w)]
  /\ failed' = IF job[at[w]].lock = w /\ job'[at[w]].status = "failed"
                 THEN <<at[w]>> \o failed ELSE failed

Goto(w, step) == pc' = [pc EXCEPT ![w] = step] /\ UNCHANGED at

Write(w, row) == log' = [log EXCEPT ![at[w][1]] = @ \cup {row}]

CheckBreaker(w) ==
  /\ pc[w] = "breaker"
  /\ IF open
       THEN Retry(w) /\ Write(w, "RATE_LIMITED")
       ELSE Goto(w, "limit") /\ UNCHANGED <<result, queueVars, log>>
  /\ UNCHANGED <<accountVars, scanVars, metaVars, histories, spent>>

(* tryConsume: the refused call is counted as well.                        *)
Consume(w) ==
  /\ pc[w] = "limit"
  /\ used' = IF used > Limit THEN used ELSE used + 1
  /\ IF used' > Limit
       THEN Retry(w) /\ Write(w, "RATE_LIMITED")
       ELSE Goto(w, "credentials") /\ UNCHANGED <<result, queueVars, log>>
  /\ UNCHANGED <<status, failures, open, scanVars, metaVars, histories, spent>>

Credentials_Unchecked(w) ==
  /\ pc[w] = "credentials"
  /\ IF status \in Blocked
       THEN Finish(w) /\ UNCHANGED log
       ELSE Goto(w, "post") /\ UNCHANGED <<result, queueVars, log>>
  /\ UNCHANGED <<accountVars, scanVars, metaVars, histories, spent>>

(* getSendCredentials: RATE_LIMITED does not block, and a blocked account  *)
(* ends the job, as nothing a retry can fix.                               *)
Credentials(w) ==
  /\ pc[w] = "credentials"
  /\ IF status \in Blocked
       THEN Finish(w) /\ Write(w, "FAILED")
       ELSE Goto(w, "post") /\ UNCHANGED <<result, queueVars, log>>
  /\ UNCHANGED <<accountVars, scanVars, metaVars, histories, spent>>

BeforeTheCall == {"breaker", "limit", "credentials", "post"}

(* Redis or Postgres throws before the try block.                          *)
GuardFails(w) ==
  /\ pc[w] \in BeforeTheCall \ {"post"}
  /\ Fault("guard")
  /\ Retry(w)
  /\ UNCHANGED <<accountVars, scanVars, log, metaVars, histories>>

Seen(outcome) ==
  CASE outcome \in {"ok", "limited"} -> outcome
    [] outcome \in {"refused", "ambiguous"} -> "answered"
    [] outcome \in {"unreachable", "lost"} -> "unanswered"

Mishap(w) ==
  /\ mishaps' = [mishaps EXCEPT ![at[w][1]] = @ + 1]
  /\ UNCHANGED dropped

(* callGraphApi: Meta has no dedup, each call it carries out is a post.    *)
Post(w, outcome) ==
  LET m == at[w][1] IN
  /\ pc[w] = "post"
  /\ calls' = [calls EXCEPT ![m] = @ + 1]
  /\ posts' = IF outcome \in {"ok", "ambiguous", "lost"} THEN [posts EXCEPT ![m] = @ + 1] ELSE posts
  /\ result' = [result EXCEPT ![w] = Seen(outcome)]
  /\ Goto(w, IF outcome = "ok" THEN "logSent" ELSE "count")
  /\ IF outcome = "lost" THEN Mishap(w) ELSE UNCHANGED histories
  /\ UNCHANGED <<accountVars, queueVars, scanVars, log, spent>>

LogSent(w) ==
  /\ pc[w] = "logSent"
  /\ Write(w, "SENT")
  /\ Goto(w, "clear")
  /\ UNCHANGED <<accountVars, queueVars, result, scanVars, metaVars, histories, spent>>

(* recordSuccess, first await: DEL of both breaker keys.                   *)
ClearBreaker(w) ==
  /\ pc[w] = "clear"
  /\ failures' = 0 /\ open' = FALSE
  /\ Goto(w, "activate")
  /\ UNCHANGED <<status, used, queueVars, result, scanVars, log, metaVars, histories, spent>>

(* recordSuccess, second await: setAccountStatus(ACTIVE), whatever it was. *)
Activate(w) ==
  /\ pc[w] = "activate"
  /\ status' = "ACTIVE"
  /\ Finish(w)
  /\ UNCHANGED <<failures, open, used, scanVars, log, metaVars, histories, spent>>

(* A throw after the call succeeded is caught like a failed call.          *)
AfterSendFails(w) ==
  /\ pc[w] \in {"logSent", "clear", "activate"}
  /\ Fault("after")
  /\ result' = [result EXCEPT ![w] = "unanswered"]
  /\ Goto(w, "count")
  /\ Mishap(w)
  /\ UNCHANGED <<accountVars, queueVars, scanVars, log, metaVars>>

(* recordFailure: INCR, and the threshold test on its reply.               *)
CountFailure(w) ==
  /\ pc[w] = "count"
  /\ failures' = IF failures < Threshold THEN failures + 1 ELSE failures
  /\ Goto(w, IF failures' = Threshold THEN "trip" ELSE "logFailed")
  /\ UNCHANGED <<status, open, used, queueVars, result, scanVars, log, metaVars, histories, spent>>

TripBreaker(w) ==
  /\ pc[w] = "trip"
  /\ open' = TRUE
  /\ Goto(w, "flag")
  /\ UNCHANGED <<status, failures, used, queueVars, result, scanVars, log, metaVars, histories, spent>>

(* setAccountStatus(RATE_LIMITED), whatever it was.                        *)
FlagAccount(w) ==
  /\ pc[w] = "flag"
  /\ status' = "RATE_LIMITED"
  /\ Goto(w, "logFailed")
  /\ UNCHANGED <<failures, open, used, queueVars, result, scanVars, log, metaVars, histories, spent>>

LogFailed_AlwaysRetries(w) ==
  /\ pc[w] = "logFailed"
  /\ Write(w, IF result[w] = "limited" THEN "RATE_LIMITED" ELSE "FAILED")
  /\ Retry(w)
  /\ UNCHANGED <<accountVars, scanVars, metaVars, histories, spent>>

(* The rest of the catch block: an answer other than 429 ends the job.     *)
LogFailed(w) ==
  /\ pc[w] = "logFailed"
  /\ Write(w, IF result[w] = "limited" THEN "RATE_LIMITED" ELSE "FAILED")
  /\ IF result[w] = "answered" THEN Finish(w) ELSE Retry(w)
  /\ UNCHANGED <<accountVars, scanVars, metaVars, histories, spent>>

(* A throw inside the catch block: the job is retried whatever Meta said.  *)
CatchFails(w) ==
  /\ pc[w] \in {"count", "trip", "flag", "logFailed"}
  /\ Fault("catch")
  /\ Retry(w)
  /\ IF result[w] = "answered" THEN Mishap(w) ELSE UNCHANGED histories
  /\ UNCHANGED <<accountVars, scanVars, log, metaVars>>

Unlocked(w) == [job EXCEPT ![at[w]] = IF @.lock = w THEN Stalled(@) ELSE @]

Crash(w) ==
  /\ pc[w] # "idle"
  /\ Fault("crash")
  /\ job' = Unlocked(w)
  /\ Rest(w)
  /\ IF pc[w] \in BeforeTheCall THEN UNCHANGED histories ELSE Mishap(w)
  /\ UNCHANGED <<accountVars, failed, scanVars, log, metaVars>>

(* The worker lives on, but its job is taken from it.                      *)
LockLost(w) ==
  /\ pc[w] # "idle" /\ job[at[w]].lock = w
  /\ Fault("stall")
  /\ job' = Unlocked(w)
  /\ Mishap(w)
  /\ UNCHANGED <<accountVars, failed, workVars, scanVars, log, metaVars>>

(* ---- requeueFailedJobs --------------------------------------------------- *)

(* getFailed(0, BatchSize - 1): newest first.                              *)
ScanStart ==
  /\ scan = "idle" /\ failed # <<>>
  /\ scan' = "walk"
  /\ batch' = SubSeq(failed, 1, IF BatchSize < Len(failed) THEN BatchSize ELSE Len(failed))
  /\ UNCHANGED <<accountVars, queueVars, workVars, log, metaVars, histories, spent>>

Requeueable_OneShort(k) == k[2] + 1 < MaxRounds /\ status = "ACTIVE"

Requeueable(k) == k[2] < MaxRounds /\ status = "ACTIVE"

ScanSkip ==
  /\ scan = "walk" /\ batch # <<>> /\ ~Requeueable(Head(batch))
  /\ batch' = Tail(batch)
  /\ UNCHANGED <<accountVars, queueVars, workVars, scan, log, metaVars, histories, spent>>

ScanRemove_Kept ==
  /\ scan = "walk" /\ batch # <<>> /\ Requeueable(Head(batch))
  /\ scan' = "add"
  /\ UNCHANGED <<accountVars, queueVars, workVars, batch, log, metaVars, histories, spent>>

ScanRemove ==
  /\ scan = "walk" /\ batch # <<>> /\ Requeueable(Head(batch))
  /\ job' = [job EXCEPT ![Head(batch)] = NoJob]
  /\ \E i \in DOMAIN failed : failed[i] = Head(batch) /\ failed' = RemoveAt(failed, i)
  /\ scan' = "add"
  /\ UNCHANGED <<accountVars, workVars, batch, log, metaVars, histories, spent>>

ScanAdd ==
  LET m == Head(batch)[1]
      r == Head(batch)[2] + 1
  IN
  /\ scan = "add"
  /\ job' = [job EXCEPT ![<<m, r>>] = Added(@)]
  /\ batch' = Tail(batch)
  /\ scan' = "walk"
  /\ UNCHANGED <<accountVars, failed, workVars, log, metaVars, histories, spent>>

ScanEnd ==
  /\ scan = "walk" /\ batch = <<>>
  /\ scan' = "idle"
  /\ UNCHANGED <<accountVars, queueVars, workVars, batch, log, metaVars, histories, spent>>

(* The worker stops, or a call to Redis throws: the next scan starts over, *)
(* and no queue has the job that was removed and not yet added again.      *)
ScanCrash ==
  /\ scan # "idle"
  /\ Fault("scan")
  /\ scan' = "idle" /\ batch' = <<>>
  /\ dropped' = IF scan = "add" THEN dropped \cup {Head(batch)[1]} ELSE dropped
  /\ UNCHANGED <<accountVars, queueVars, workVars, log, metaVars, mishaps>>

(* ---- Time, the user, token renewal --------------------------------------- *)

CloseBreaker ==
  /\ open
  /\ open' = FALSE
  /\ UNCHANGED <<status, failures, used, queueVars, workVars, scanVars, log, metaVars, histories, spent>>

ForgetFailures ==
  /\ failures > 0
  /\ failures' = 0
  /\ UNCHANGED <<status, open, used, queueVars, workVars, scanVars, log, metaVars, histories, spent>>

NewWindow ==
  /\ used > 0
  /\ used' = 0
  /\ UNCHANGED <<status, failures, open, queueVars, workVars, scanVars, log, metaVars, histories, spent>>

(* disconnectAccount, or refreshAccountToken on an ACTIVE account whose    *)
(* token Meta rejects.                                                     *)
Block(reason) ==
  /\ status # reason /\ (reason = "TOKEN_EXPIRED" => status = "ACTIVE")
  /\ Spend("block")
  /\ status' = reason
  /\ UNCHANGED <<failures, open, used, queueVars, workVars, scanVars, log, metaVars, histories>>

Reconnect ==
  /\ status \in Blocked
  /\ status' = "ACTIVE"
  /\ UNCHANGED <<failures, open, used, queueVars, workVars, scanVars, log, metaVars, histories, spent>>

WorkerStep(w) ==
  \/ CheckBreaker(w) \/ Consume(w) \/ Credentials(w) \/ \E o \in Outcomes : Post(w, o)
  \/ LogSent(w) \/ ClearBreaker(w) \/ Activate(w)
  \/ CountFailure(w) \/ TripBreaker(w) \/ FlagAccount(w) \/ LogFailed(w)

ScanStep == ScanStart \/ ScanSkip \/ ScanRemove \/ ScanAdd \/ ScanEnd

Next ==
  \/ \E w \in Workers :
       \/ WorkerStep(w) \/ GuardFails(w) \/ AfterSendFails(w) \/ CatchFails(w)
       \/ Crash(w) \/ LockLost(w)
       \/ \E k \in Keys : Claim(w, k)
  \/ ScanStep \/ ScanCrash
  \/ CloseBreaker \/ ForgetFailures \/ NewWindow
  \/ Reconnect \/ \E reason \in Blocked : Block(reason)

Spec == Init /\ [][Next]_vars

(* Workers run, BullMQ hands them jobs, the cron starts the scan, and the  *)
(* breaker's key expires.  No hour, user or failure is obliged to come.    *)
Fairness ==
  /\ \A w \in Workers : WF_vars(WorkerStep(w))
  /\ \A k \in Keys : WF_vars(\E w \in Workers : Claim(w, k))
  /\ WF_vars(ScanStep)
  /\ WF_vars(CloseBreaker)

FairSpec == Spec /\ Fairness

(* ---- Properties ------------------------------------------------------------ *)

(* However often a send is retried, requeued and run by two workers, the   *)
(* customer gets the message once, and at most once more for each answer   *)
(* that was lost, each write that failed after an answer, each worker that *)
(* stopped after the call and each lock lost: 429s, errors, refusals of    *)
(* breaker and limiter, what fails before the call and rounds of the scan  *)
(* never add one (send's catch block, requeueFailedJobs).                  *)
PostedAtMostOnce == \A m \in Messages : posts[m] <= 1 + mishaps[m]

Known(m) == {r \in Rounds : job[<<m, r>>].status # "absent"}
BetweenRounds(m) == scan = "add" /\ Head(batch)[1] = m

(* A message is always exactly one job, waiting, running, finished or in   *)
(* the failed set, except while the scan holds it between remove and add,  *)
(* and for ever when the scan is cut off there: never two jobs that both   *)
(* send it, and none in no other way (requeueFailedJobs).                  *)
OneJobPerMessage ==
  \A m \in Messages :
    Cardinality(Known(m)) = IF BetweenRounds(m) \/ m \in dropped THEN 0 ELSE 1

(* A finished job left a row that says how it ended, and SENT only if Meta *)
(* carried a call out (send returns after recordLog on every path).        *)
LoggedAsItEnded ==
  \A m \in Messages :
    /\ "SENT" \in log[m] => posts[m] > 0
    /\ (\E r \in Rounds : job[<<m, r>>].status = "completed") => log[m] \cap {"SENT", "FAILED"} # {}

(* Only messages Meta was asked to deliver are given up.                   *)
GivenUpAfterACall ==
  \A m \in Messages : job[<<m, MaxRounds>>].status = "failed" => calls[m] > 0

Settled(m) ==
  \/ \E r \in Rounds : job[<<m, r>>].status = "completed"
  \/ job[<<m, MaxRounds>>].status = "failed"

(* Every send ends: completed, or failed after the last round; in the      *)
(* failed set before that it waits only for a blocked account (the scan).  *)
(* Only a message a scan was cut off with never ends.                      *)
EverySendSettles ==
  \A m \in Messages : []<>(Settled(m) \/ status \in Blocked \/ m \in dropped)
=============================================================================
