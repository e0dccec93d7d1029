--------------------------- MODULE SendingProofs ---------------------------
(***************************************************************************)
(* What holds of sending for every set of messages and workers, every      *)
(* number of attempts, rounds and failures, and every limit and threshold. *)
(***************************************************************************)
EXTENDS Sending, TLAPS, SequenceTheorems, FiniteSetTheorems

-----------------------------------------------------------------------------
(* The inductive invariant.                                                *)

\* A worker that is not idle has a job.
Busy == \A w \in Workers : pc[w] # "idle" => at[w] \in Keys

Typed == TypeOK /\ Busy

Distinct(s) == \A i, j \in DOMAIN s : s[i] = s[j] => i = j

\* One round of a message has a job; the failed set lists failed jobs once,
\* and so does what the scan has still to look at, but for the job it removed
\* and is about to add again.
Requeueing ==
  /\ \A m \in Messages : \A r, s \in Rounds :
       job[<<m, r>>].status # "absent" /\ job[<<m, s>>].status # "absent" => r = s
  /\ Distinct(failed) /\ \A i \in DOMAIN failed : job[failed[i]].status = "failed"
  /\ Distinct(batch)
  /\ scan = "idle" => batch = <<>>
  /\ \A i \in DOMAIN batch : job[batch[i]].status = "failed" \/ (scan = "add" /\ i = 1)
  /\ scan = "add" =>
       /\ batch # <<>> /\ batch[1][2] < MaxRounds
       /\ \A r \in Rounds : job[<<batch[1][1], r>>].status = "absent"

\* SENT is written when Meta has carried a call out, and a worker writes the
\* row that ends the job before it ends it.
Logged ==
  /\ \A m \in Messages : "SENT" \in log[m] => posts[m] > 0
  /\ \A m \in Messages, r \in Rounds :
       job[<<m, r>>].status = "completed" => log[m] \cap {"SENT", "FAILED"} # {}
  /\ \A w \in Workers :
       /\ pc[w] = "logSent" => posts[at[w][1]] > 0
       /\ pc[w] \in {"clear", "activate"} => "SENT" \in log[at[w][1]]

IInv == Typed /\ Requeueing /\ Logged

-----------------------------------------------------------------------------
(* Types.                                                                  *)

(* What a worker does to a job record keeps exactly the active jobs locked *)
(* and an attempt in hand for each job that may still run; it neither      *)
(* takes a job out of the queue nor a failed one out of the failed set.    *)
LEMMA JobMoves ==
  ASSUME NEW j \in Job, NEW w \in Workers
  PROVE  /\ j.status = "waiting" => Claimed(j, w) \in Job /\ Claimed(j, w).status = "active"
                                    /\ Claimed(j, w).lock = w
         /\ /\ Returned(j, w) \in Job
            /\ j.lock = w => Returned(j, w).status = "completed"
            /\ j.lock # w => Returned(j, w) = j
         /\ /\ Threw(j, w) \in Job
            /\ j.lock = w => Threw(j, w).status \in {"waiting", "failed"}
            /\ j.lock # w => Threw(j, w) = j
         /\ j.lock = w => Stalled(j) \in Job /\ Stalled(j).status = "waiting"
         /\ NoJob \in Job /\ NewJob \in Job /\ Added(j) \in Job
         /\ j.lock = w => j.status = "active"
<1> USE SendingAssumption DEF Job, JobStatus
<1>1. j.status = "waiting" => Claimed(j, w) \in Job /\ Claimed(j, w).status = "active"
                              /\ Claimed(j, w).lock = w
  BY DEF Claimed
<1>2. /\ Returned(j, w) \in Job
      /\ j.lock = w => Returned(j, w).status = "completed"
      /\ j.lock # w => Returned(j, w) = j
  BY DEF Returned
<1>3. /\ Threw(j, w) \in Job
      /\ j.lock = w => Threw(j, w).status \in {"waiting", "failed"}
      /\ j.lock # w => Threw(j, w) = j
  BY DEF Threw
<1>4. j.lock = w => Stalled(j) \in Job /\ Stalled(j).status = "waiting"
  BY DEF Stalled
<1>5. NoJob \in Job /\ NewJob \in Job /\ Added(j) \in Job
  BY DEF NoJob, NewJob, Added
<1>6. j.lock = w => j.status = "active"
  OBVIOUS
<1>. QED BY <1>1, <1>2, <1>3, <1>4, <1>5, <1>6

LEMMA SpendTyping ==
  ASSUME TypeOK, NEW b \in Budget, Spend(b)
  PROVE  spent' \in [Budget -> Nat]
BY DEF TypeOK, Spend

\* The workers' part of the types, and what moves with it.
Steps == {"idle", "breaker", "limit", "credentials", "post", "logSent",
          "clear", "activate", "count", "trip", "flag", "logFailed"}

Placed ==
  /\ pc \in [Workers -> Steps]
  /\ at \in [Workers -> Keys \cup {NoKey}]
  /\ result \in [Workers -> {"none", "ok", "limited", "answered", "unanswered"}]
  /\ Busy

LEMMA PlacedTyping ==
  ASSUME Typed
  PROVE  Placed
BY DEF Typed, TypeOK, Placed, Steps

(* Letting go of a job leaves the worker idle, and the others alone.       *)
LEMMA RestTyping ==
  ASSUME Typed, NEW w \in Workers, Rest(w)
  PROVE  /\ Placed' /\ pc'[w] = "idle"
         /\ \A o \in Workers \ {w} : pc'[o] = pc[o] /\ at'[o] = at[o] /\ result'[o] = result[o]
BY PlacedTyping DEF Placed, Rest, Busy, Steps

(* So does going on to the next await, with the same job.                  *)
LEMMA GotoTyping ==
  ASSUME Typed, NEW w \in Workers, pc[w] # "idle", NEW step \in Steps, Goto(w, step),
         \/ result' = result
         \/ \E r \in {"ok", "limited", "answered", "unanswered"} : result' = [result EXCEPT ![w] = r]
  PROVE  /\ Placed' /\ pc'[w] = step /\ at' = at
         /\ \A o \in Workers \ {w} : pc'[o] = pc[o] /\ result'[o] = result[o]
BY PlacedTyping DEF Placed, Goto, Busy

(* Giving a job back leaves the queue of jobs and the failed set typed.    *)
LEMMA ReleaseTyping ==
  ASSUME Typed, NEW w \in Workers, pc[w] # "idle"
  PROVE  /\ Finish(w) => Placed' /\ job' \in [Keys -> Job] /\ failed' \in Seq(Keys)
         /\ Retry(w) => Placed' /\ job' \in [Keys -> Job] /\ failed' \in Seq(Keys)
         /\ Unlocked(w) \in [Keys -> Job]
<1>1. at[w] \in Keys /\ job \in [Keys -> Job] /\ failed \in Seq(Keys)
  BY DEF Typed, TypeOK, Busy
<1>2. PICK j : j = job[at[w]]
  OBVIOUS
<1>3. j \in Job
  BY <1>1, <1>2
<1>4. ASSUME Finish(w) PROVE Placed' /\ job' \in [Keys -> Job] /\ failed' \in Seq(Keys)
  <2>1. Placed'
    BY <1>4, RestTyping DEF Finish
  <2>2. job' = [job EXCEPT ![at[w]] = Returned(j, w)] /\ failed' = failed
    BY <1>2, <1>4 DEF Finish
  <2>. QED BY <1>1, <1>3, <2>1, <2>2, JobMoves
<1>5. ASSUME Retry(w) PROVE Placed' /\ job' \in [Keys -> Job] /\ failed' \in Seq(Keys)
  <2>1. <<at[w]>> \o failed \in Seq(Keys)
    BY <1>1, ConcatProperties
  <2>. QED BY <1>1, <1>2, <1>3, <1>5, <2>1, JobMoves, RestTyping DEF Retry
<1>6. Unlocked(w) \in [Keys -> Job]
  BY <1>1, <1>2, <1>3, JobMoves DEF Unlocked
<1>. QED BY <1>4, <1>5, <1>6

(* Writing a row of the message log.                                       *)
LEMMA WriteTyping ==
  ASSUME Typed, NEW w \in Workers, pc[w] # "idle",
         NEW row \in {"SENT", "FAILED", "RATE_LIMITED"}, Write(w, row)
  PROVE  /\ log' \in [Messages -> SUBSET {"SENT", "FAILED", "RATE_LIMITED"}]
         /\ at[w][1] \in Messages
         /\ log'[at[w][1]] = log[at[w][1]] \cup {row}
         /\ \A m \in Messages : m # at[w][1] => log'[m] = log[m]
<1>1. at[w][1] \in Messages
  BY DEF Typed, Busy, Keys
<1>2. PICK m : m = at[w][1]
  OBVIOUS
<1>3. log' = [log EXCEPT ![m] = log[m] \cup {row}]
  BY <1>2 DEF Write
<1>. QED BY <1>1, <1>2, <1>3 DEF Typed, TypeOK

(* What a step of a worker adds to the mishaps.                            *)
LEMMA WorkerMishaps ==
  ASSUME Typed, NEW w \in Workers,
         \/ WorkerStep(w) \/ GuardFails(w) \/ AfterSendFails(w) \/ CatchFails(w)
         \/ Crash(w) \/ LockLost(w)
         \/ \E k \in Keys : Claim(w, k)
  PROVE  mishaps' \in [Messages -> Nat] /\ dropped' = dropped
<1>1. mishaps \in [Messages -> Nat] /\ dropped \subseteq Messages
  BY DEF Typed, TypeOK
<1>2. ASSUME pc[w] # "idle", Mishap(w)
      PROVE  mishaps' \in [Messages -> Nat] /\ dropped' = dropped
  <2>1. PICK m : m = at[w][1]
    OBVIOUS
  <2>2. m \in Messages
    BY <1>2, <2>1 DEF Typed, Busy, Keys
  <2>3. mishaps' = [mishaps EXCEPT ![m] = mishaps[m] + 1] /\ dropped' = dropped
    BY <1>2, <2>1 DEF Mishap
  <2>. QED BY <1>1, <2>2, <2>3
<1>3. UNCHANGED histories => mishaps' \in [Messages -> Nat] /\ dropped' = dropped
  BY <1>1 DEF histories
<1>4. CASE \/ CheckBreaker(w) \/ Consume(w) \/ Credentials(w) \/ LogSent(w) \/ ClearBreaker(w)
           \/ Activate(w) \/ CountFailure(w) \/ TripBreaker(w) \/ FlagAccount(w) \/ LogFailed(w)
           \/ GuardFails(w) \/ \E k \in Keys : Claim(w, k)
  BY <1>3, <1>4
     DEF CheckBreaker, Consume, Credentials, LogSent, ClearBreaker, Activate, CountFailure,
         TripBreaker, FlagAccount, LogFailed, GuardFails, Claim
<1>5. CASE \E o \in Outcomes : Post(w, o)
  BY <1>2, <1>3, <1>5 DEF Post
<1>6. CASE AfterSendFails(w) \/ CatchFails(w) \/ Crash(w) \/ LockLost(w)
  BY <1>2, <1>3, <1>6 DEF AfterSendFails, CatchFails, Crash, LockLost
<1>. QED BY <1>4, <1>5, <1>6 DEF WorkerStep

(* Every step of a worker keeps the types.                                 *)
LEMMA WorkerTyping ==
  ASSUME Typed, NEW w \in Workers,
         \/ WorkerStep(w) \/ GuardFails(w) \/ AfterSendFails(w) \/ CatchFails(w)
         \/ Crash(w) \/ LockLost(w)
         \/ \E k \in Keys : Claim(w, k)
  PROVE  Typed'
<1> USE DEF accountVars, queueVars, workVars, scanVars, metaVars, histories, BeforeTheCall
<1>0. TypeOK /\ Busy /\ Placed
  BY PlacedTyping DEF Typed
<1>1. ASSUME Placed', job' \in [Keys -> Job], failed' \in Seq(Keys),
             status' \in Statuses, failures' \in 0..Threshold, open' \in BOOLEAN,
             used' \in 0..(Limit + 1), UNCHANGED <<scan, batch>>,
             log' \in [Messages -> SUBSET {"SENT", "FAILED", "RATE_LIMITED"}],
             calls' \in [Messages -> Nat], posts' \in [Messages -> Nat],
             spent' \in [Budget -> Nat]
      PROVE  Typed'
  BY <1>0, <1>1, WorkerMishaps DEF Typed, TypeOK, Placed, Steps
<1>2. /\ job \in [Keys -> Job] /\ failed \in Seq(Keys)
      /\ status \in Statuses /\ failures \in 0..Threshold /\ open \in BOOLEAN
      /\ used \in 0..(Limit + 1)
      /\ log \in [Messages -> SUBSET {"SENT", "FAILED", "RATE_LIMITED"}]
      /\ calls \in [Messages -> Nat] /\ posts \in [Messages -> Nat]
      /\ spent \in [Budget -> Nat]
  BY <1>0 DEF TypeOK
<1>3. CASE CheckBreaker(w)
  <2>1. CASE open
    BY <1>1, <1>2, <1>3, <2>1, ReleaseTyping, WriteTyping DEF CheckBreaker
  <2>2. CASE ~open
    BY <1>1, <1>2, <1>3, <2>2, GotoTyping, "limit" \in Steps DEF CheckBreaker, Steps
  <2>. QED BY <2>1, <2>2
<1>4. CASE Consume(w)
  <2>1. used' \in 0..(Limit + 1)
    BY <1>2, <1>4, SendingAssumption DEF Consume
  <2>2. CASE used' > Limit
    BY <1>1, <1>2, <1>4, <2>1, <2>2, ReleaseTyping, WriteTyping DEF Consume
  <2>3. CASE ~(used' > Limit)
    BY <1>1, <1>2, <1>4, <2>1, <2>3, GotoTyping, "credentials" \in Steps DEF Consume, Steps
  <2>. QED BY <2>2, <2>3
<1>5. CASE Credentials(w)
  <2>1. CASE status \in Blocked
    BY <1>1, <1>2, <1>5, <2>1, ReleaseTyping, WriteTyping DEF Credentials
  <2>2. CASE status \notin Blocked
    BY <1>1, <1>2, <1>5, <2>2, GotoTyping, "post" \in Steps DEF Credentials, Steps
  <2>. QED BY <2>1, <2>2
<1>6. ASSUME NEW o \in Outcomes, Post(w, o)
      PROVE  Typed'
  <2>1. PICK m, r : m = at[w][1] /\ r = Seen(o)
    OBVIOUS
  <2>2. m \in Messages
    BY <1>0, <1>6, <2>1 DEF Post, Busy, Keys
  <2>3. r \in {"ok", "limited", "answered", "unanswered"}
    BY <2>1, SendingAssumption DEF Seen, AllOutcomes
  <2>4. calls' \in [Messages -> Nat] /\ posts' \in [Messages -> Nat]
    <3>1. /\ calls' = [calls EXCEPT ![m] = calls[m] + 1]
          /\ posts' = [posts EXCEPT ![m] = posts[m] + 1] \/ posts' = posts
      BY <1>6, <2>1 DEF Post
    <3>. QED BY <1>2, <2>2, <3>1
  <2>5. result' = [result EXCEPT ![w] = r] /\ pc[w] # "idle"
        /\ \E step \in Steps : Goto(w, step)
    BY <1>6, <2>1 DEF Post, Steps
  <2>6. Placed'
    BY <2>3, <2>5, GotoTyping
  <2>. QED BY <1>1, <1>2, <1>6, <2>4, <2>6 DEF Post
<1>7. CASE LogSent(w)
  BY <1>1, <1>2, <1>7, GotoTyping, WriteTyping, "clear" \in Steps DEF LogSent, Steps
<1>8. CASE ClearBreaker(w)
  <2>1. Placed'
    BY <1>8, GotoTyping, "activate" \in Steps DEF ClearBreaker, Steps
  <2>2. 0 \in 0..Threshold
    BY SendingAssumption
  <2>. QED BY <1>1, <1>2, <1>8, <2>1, <2>2 DEF ClearBreaker
<1>9. CASE Activate(w)
  BY <1>1, <1>2, <1>9, ReleaseTyping DEF Activate, Statuses
<1>10. CASE CountFailure(w)
  <2>1. Placed'
    <3>1. \E step \in Steps : Goto(w, step)
      BY <1>10 DEF CountFailure, Steps
    <3>. QED BY <1>10, <3>1, GotoTyping DEF CountFailure
  <2>2. failures' \in 0..Threshold
    BY <1>2, <1>10, SendingAssumption DEF CountFailure
  <2>. QED BY <1>1, <1>2, <1>10, <2>1, <2>2 DEF CountFailure
<1>11. CASE TripBreaker(w)
  BY <1>1, <1>2, <1>11, GotoTyping, "flag" \in Steps DEF TripBreaker, Steps
<1>12. CASE FlagAccount(w)
  BY <1>1, <1>2, <1>12, GotoTyping, "logFailed" \in Steps DEF FlagAccount, Steps, Statuses
<1>13. CASE LogFailed(w)
  <2>1. \E row \in {"SENT", "FAILED", "RATE_LIMITED"} : Write(w, row)
    BY <1>13 DEF LogFailed
  <2>2. Finish(w) \/ Retry(w)
    BY <1>13 DEF LogFailed
  <2>. QED BY <1>1, <1>2, <1>13, <2>1, <2>2, ReleaseTyping, WriteTyping DEF LogFailed
<1>14. CASE GuardFails(w) \/ CatchFails(w)
  <2>1. spent' \in [Budget -> Nat]
    BY <1>0, <1>14, SpendTyping DEF GuardFails, CatchFails, Fault, Budget
  <2>. QED BY <1>1, <1>2, <1>14, <2>1, ReleaseTyping DEF GuardFails, CatchFails
<1>15. CASE AfterSendFails(w)
  <2>1. spent' \in [Budget -> Nat]
    BY <1>0, <1>15, SpendTyping DEF AfterSendFails, Fault, Budget
  <2>. QED BY <1>1, <1>2, <1>15, <2>1, GotoTyping, "count" \in Steps DEF AfterSendFails, Steps
<1>16. CASE Crash(w)
  <2>1. spent' \in [Budget -> Nat]
    BY <1>0, <1>16, SpendTyping DEF Crash, Fault, Budget
  <2>. QED BY <1>1, <1>2, <1>16, <2>1, ReleaseTyping, RestTyping DEF Crash
<1>17. CASE LockLost(w)
  <2>1. spent' \in [Budget -> Nat]
    BY <1>0, <1>17, SpendTyping DEF LockLost, Fault, Budget
  <2>2. Placed'
    BY <1>0, <1>17 DEF LockLost, Placed, Busy
  <2>. QED BY <1>1, <1>2, <1>17, <2>1, <2>2, ReleaseTyping DEF LockLost
<1>18. ASSUME NEW k \in Keys, Claim(w, k)
       PROVE  Typed'
  <2>1. job' \in [Keys -> Job]
    BY <1>2, <1>18, JobMoves DEF Claim
  <2>2. Placed'
    BY <1>0, <1>18 DEF Claim, Placed, Busy, Steps
  <2>. QED BY <1>1, <1>2, <1>18, <2>1, <2>2 DEF Claim
<1>. QED
  BY <1>3, <1>4, <1>5, <1>6, <1>7, <1>8, <1>9, <1>10, <1>11, <1>12, <1>13, <1>14, <1>15, <1>16,
     <1>17, <1>18 DEF WorkerStep

(* A list without its i-th element: the others, each where it was or one   *)
(* place earlier.                                                          *)
LEMMA RemoveAtProperties ==
  ASSUME NEW S, NEW s \in Seq(S), NEW i \in DOMAIN s
  PROVE  /\ RemoveAt(s, i) \in Seq(S) /\ DOMAIN RemoveAt(s, i) = 1..(Len(s) - 1)
         /\ \A j \in 1..(Len(s) - 1) :
              RemoveAt(s, i)[j] = IF j < i THEN s[j] ELSE s[j + 1]
<1>1. /\ Len(s) \in Nat /\ DOMAIN s = 1..Len(s) /\ i \in 1..Len(s) /\ i \in Int
      /\ i - 1 \in Int /\ i + 1 \in Int /\ 1 \in Int
  OBVIOUS
<1>2. PICK a, b : a = SubSeq(s, 1, i - 1) /\ b = SubSeq(s, i + 1, Len(s))
  OBVIOUS
<1>3. /\ a \in Seq(S) /\ Len(a) = i - 1
      /\ \A j \in 1..(i - 1) : a[j] = s[j]
  <2>1. \A j \in 1..(i - 1) : s[j] \in S
    BY <1>1
  <2>2. /\ a \in Seq(S) /\ Len(a) = (IF 1 <= i - 1 THEN (i - 1) - 1 + 1 ELSE 0)
        /\ \A j \in 1..((i - 1) - 1 + 1) : a[j] = s[1 + j - 1]
    BY <1>1, <1>2, <2>1, SubSeqProperties
  <2>3. Len(a) = i - 1
    BY <1>1, <2>2
  <2>4. ASSUME NEW j \in 1..(i - 1) PROVE a[j] = s[j]
    <3>1. j \in 1..((i - 1) - 1 + 1) /\ 1 + j - 1 = j
      BY <1>1
    <3>. QED BY <2>2, <3>1
  <2>. QED BY <2>2, <2>3, <2>4
<1>4. /\ b \in Seq(S) /\ Len(b) = Len(s) - i
      /\ \A j \in 1..(Len(s) - i) : b[j] = s[j + i]
  <2>1. \A j \in (i + 1)..Len(s) : s[j] \in S
    BY <1>1
  <2>2. /\ b \in Seq(S) /\ Len(b) = (IF i + 1 <= Len(s) THEN Len(s) - (i + 1) + 1 ELSE 0)
        /\ \A j \in 1..(Len(s) - (i + 1) + 1) : b[j] = s[(i + 1) + j - 1]
    BY <1>1, <1>2, <2>1, SubSeqProperties
  <2>3. Len(b) = Len(s) - i
    BY <1>1, <2>2
  <2>4. ASSUME NEW j \in 1..(Len(s) - i) PROVE b[j] = s[j + i]
    <3>1. j \in 1..(Len(s) - (i + 1) + 1) /\ (i + 1) + j - 1 = j + i
      BY <1>1
    <3>. QED BY <2>2, <3>1
  <2>. QED BY <2>2, <2>3, <2>4
<1>5. PICK c : c = a \o b
  OBVIOUS
<1>6. /\ c \in Seq(S) /\ Len(c) = Len(s) - 1
      /\ \A j \in 1..(Len(s) - 1) : c[j] = IF j <= i - 1 THEN a[j] ELSE b[j - (i - 1)]
  <2>1. /\ c \in Seq(S) /\ Len(c) = Len(a) + Len(b)
        /\ \A j \in 1..Len(a) + Len(b) : c[j] = IF j <= Len(a) THEN a[j] ELSE b[j - Len(a)]
    BY <1>3, <1>4, <1>5, ConcatProperties
  <2>2. Len(a) + Len(b) = Len(s) - 1
    BY <1>1, <1>3, <1>4
  <2>. QED BY <1>3, <2>1, <2>2
<1>7. ASSUME NEW j \in 1..(Len(s) - 1)
      PROVE  c[j] = IF j < i THEN s[j] ELSE s[j + 1]
  <2>1. CASE j < i
    <3>1. j \in 1..(i - 1) /\ j <= i - 1
      BY <1>1, <2>1
    <3>. QED BY <1>3, <1>6, <2>1, <3>1
  <2>2. CASE ~(j < i)
    <3>1. j - (i - 1) \in 1..(Len(s) - i) /\ ~(j <= i - 1) /\ (j - (i - 1)) + i = j + 1
      BY <1>1, <2>2
    <3>. QED BY <1>4, <1>6, <2>2, <3>1
  <2>. QED BY <2>1, <2>2
<1>8. DOMAIN c = 1..(Len(s) - 1)
  BY <1>6
<1>. QED BY <1>2, <1>5, <1>6, <1>7, <1>8 DEF RemoveAt

(* The head of the list the scan walks, and the rest of it.                *)
LEMMA BatchTyping ==
  ASSUME Typed, batch # <<>>
  PROVE  /\ Head(batch) = batch[1] /\ batch[1] \in Keys
         /\ Tail(batch) \in Seq(Keys) /\ 1 \in DOMAIN batch
         /\ \A i \in DOMAIN Tail(batch) : i + 1 \in DOMAIN batch /\ i + 1 # 1
                                          /\ Tail(batch)[i] = batch[i + 1]
<1>1. batch \in Seq(Keys) /\ batch # <<>>
  BY DEF Typed, TypeOK
<1>2. Len(batch) \in Nat \ {0} /\ DOMAIN batch = 1..Len(batch)
  BY <1>1
<1>3. /\ Head(batch) = batch[1] /\ Tail(batch) \in Seq(Keys)
      /\ DOMAIN Tail(batch) = 1..(Len(batch) - 1)
      /\ \A i \in 1..(Len(batch) - 1) : Tail(batch)[i] = batch[i + 1]
  BY <1>1, <1>2, HeadTailProperties
<1>. QED BY <1>1, <1>2, <1>3

(* The scan takes the front of the failed set.                             *)
LEMMA FrontTyping ==
  ASSUME Typed, ScanStart
  PROVE  /\ batch' \in Seq(Keys)
         /\ \A i \in DOMAIN batch' : i \in DOMAIN failed /\ batch'[i] = failed[i]
<1>1. failed \in Seq(Keys) /\ Len(failed) \in Nat /\ DOMAIN failed = 1..Len(failed)
  BY DEF Typed, TypeOK
<1>2. PICK n : n = IF BatchSize < Len(failed) THEN BatchSize ELSE Len(failed)
  OBVIOUS
<1>3. n \in 0..Len(failed) /\ n \in Int /\ 1 \in Int
  <2>1. BatchSize \in Nat
    BY SendingAssumption
  <2>2. PICK len : len = Len(failed)
    OBVIOUS
  <2>3. len \in Nat /\ n = IF BatchSize < len THEN BatchSize ELSE len
    BY <1>1, <1>2, <2>2
  <2>4. n \in 0..len
    BY <2>1, <2>3
  <2>. QED BY <2>2, <2>3, <2>4
<1>4. batch' = SubSeq(failed, 1, n)
  BY <1>2 DEF ScanStart
<1>5. \A i \in 1..n : failed[i] \in Keys
  BY <1>1, <1>3
<1>6. /\ batch' \in Seq(Keys) /\ Len(batch') = (IF 1 <= n THEN n - 1 + 1 ELSE 0)
      /\ \A i \in 1..(n - 1 + 1) : batch'[i] = failed[1 + i - 1]
  BY <1>3, <1>4, <1>5, SubSeqProperties
<1>7. DOMAIN batch' = 1..n
  BY <1>3, <1>6
<1>8. ASSUME NEW i \in 1..n PROVE i \in DOMAIN failed /\ batch'[i] = failed[i]
  <2>1. i \in 1..(n - 1 + 1) /\ 1 + i - 1 = i
    BY <1>3
  <2>. QED BY <1>1, <1>3, <1>6, <2>1
<1>. QED BY <1>6, <1>7, <1>8

(* The scan, time, the user and token renewal keep the types.              *)
LEMMA OtherTyping ==
  ASSUME Typed, scan = "add" => batch # <<>>,
         \/ ScanStep \/ ScanCrash \/ CloseBreaker \/ ForgetFailures \/ NewWindow \/ Reconnect
         \/ \E reason \in Blocked : Block(reason)
  PROVE  Typed'
<1> USE DEF accountVars, queueVars, workVars, scanVars, metaVars, histories, BeforeTheCall
<1>0. TypeOK /\ Busy
  BY DEF Typed
<1>1. ASSUME UNCHANGED <<accountVars, workVars, log, metaVars, mishaps>>,
             dropped' \subseteq Messages, spent' \in [Budget -> Nat],
             job' \in [Keys -> Job], failed' \in Seq(Keys), batch' \in Seq(Keys),
             scan' \in {"idle", "walk", "add"}
      PROVE  Typed'
  BY <1>0, <1>1 DEF Typed, TypeOK, Busy
<1>2. /\ job \in [Keys -> Job] /\ failed \in Seq(Keys) /\ batch \in Seq(Keys)
      /\ spent \in [Budget -> Nat] /\ <<>> \in Seq(Keys) /\ dropped \subseteq Messages
  BY <1>0 DEF TypeOK
<1>3. CASE ScanStart
  BY <1>1, <1>2, <1>3, FrontTyping DEF ScanStart
<1>4. CASE ScanSkip
  BY <1>0, <1>1, <1>2, <1>4, BatchTyping DEF ScanSkip, TypeOK
<1>5. CASE ScanRemove
  <2>1. failed' \in Seq(Keys)
    BY <1>2, <1>5, RemoveAtProperties DEF ScanRemove
  <2>2. NoJob \in Job
    BY SendingAssumption DEF NoJob, Job, JobStatus
  <2>3. job' \in [Keys -> Job]
    BY <1>2, <1>5, <2>2 DEF ScanRemove
  <2>. QED BY <1>1, <1>2, <1>5, <2>1, <2>3 DEF ScanRemove
<1>6. CASE ScanAdd
  <2>0. batch # <<>>
    BY <1>6 DEF ScanAdd
  <2>1. PICK k : k = <<Head(batch)[1], Head(batch)[2] + 1>>
    OBVIOUS
  <2>2. job' = [job EXCEPT ![k] = Added(job[k])]
    BY <1>6, <2>1 DEF ScanAdd
  <2>3. k \in Keys => Added(job[k]) \in Job
    BY <1>2, SendingAssumption DEF Added, NewJob, Job, JobStatus
  <2>4. job' \in [Keys -> Job]
    BY <1>2, <2>2, <2>3
  <2>. QED BY <1>1, <1>2, <1>6, <2>0, <2>4, BatchTyping DEF ScanAdd
<1>7. CASE ScanEnd
  BY <1>1, <1>2, <1>7 DEF ScanEnd
<1>8. CASE ScanCrash
  <2>1. spent' \in [Budget -> Nat]
    BY <1>0, <1>8, SpendTyping DEF ScanCrash, Fault, Budget
  <2>2. dropped' \subseteq Messages
    <3>1. scan = "add" => Head(batch) \in Keys
      BY <1>2, BatchTyping
    <3>2. scan = "add" => Head(batch)[1] \in Messages
      BY <3>1 DEF Keys
    <3>. QED BY <1>2, <1>8, <3>2 DEF ScanCrash
  <2>. QED BY <1>1, <1>2, <1>8, <2>1, <2>2 DEF ScanCrash
<1>9. CASE CloseBreaker \/ ForgetFailures \/ NewWindow \/ Reconnect
  <2>1. UNCHANGED <<queueVars, workVars, scanVars, log, metaVars, histories, spent>>
    BY <1>9 DEF CloseBreaker, ForgetFailures, NewWindow, Reconnect
  <2>2. /\ status' \in Statuses /\ failures' \in 0..Threshold
        /\ open' \in BOOLEAN /\ used' \in 0..(Limit + 1)
    <3>1. 0 \in 0..Threshold /\ 0 \in 0..(Limit + 1)
      BY SendingAssumption
    <3>. QED BY <1>0, <1>9, <3>1
             DEF CloseBreaker, ForgetFailures, NewWindow, Reconnect, TypeOK, Statuses
  <2>. QED BY <1>0, <2>1, <2>2 DEF Typed, TypeOK, Busy
<1>10. ASSUME NEW reason \in Blocked, Block(reason)
       PROVE  Typed'
  <2>1. spent' \in [Budget -> Nat]
    BY <1>0, <1>10, SpendTyping DEF Block, Budget
  <2>2. status' \in Statuses
    BY <1>10 DEF Block, Statuses
  <2>3. UNCHANGED <<failures, open, used, queueVars, workVars, scanVars, log, metaVars, histories>>
    BY <1>10 DEF Block
  <2>. QED BY <1>0, <2>1, <2>2, <2>3 DEF Typed, TypeOK, Busy
<1>. QED BY <1>3, <1>4, <1>5, <1>6, <1>7, <1>8, <1>9, <1>10 DEF ScanStep

-----------------------------------------------------------------------------
(* One job per message.                                                    *)

\* What every step but the scan's does to the queue: no job comes or goes, a
\* failed one stays failed, and one that fails goes in front of the failed set.
QueueMoves ==
  /\ \A k \in Keys : job'[k].status = "absent" <=> job[k].status = "absent"
  /\ \A k \in Keys : job[k].status = "failed" => job'[k].status = "failed"
  /\ \/ failed' = failed
     \/ \E k \in Keys : /\ job[k].status # "failed" /\ job'[k].status = "failed"
                        /\ failed' = <<k>> \o failed
  /\ UNCHANGED <<scan, batch>>

LEMMA ReleaseMoves ==
  ASSUME Typed, NEW w \in Workers, pc[w] # "idle",
         \/ Finish(w) \/ Retry(w) \/ (job' = Unlocked(w) /\ failed' = failed),
         UNCHANGED <<scan, batch>>
  PROVE  QueueMoves
<1>1. at[w] \in Keys /\ job \in [Keys -> Job]
  BY DEF Typed, TypeOK, Busy
<1>2. PICK k, j : k = at[w] /\ j = job[k]
  OBVIOUS
<1>3. j \in Job /\ k \in Keys
  BY <1>1, <1>2
<1>4. /\ j.lock = w => j.status = "active"
      /\ j.lock = w => Returned(j, w).status = "completed"
      /\ j.lock = w => Threw(j, w).status \in {"waiting", "failed"}
      /\ j.lock = w => Stalled(j).status = "waiting"
      /\ j.lock # w => Returned(j, w) = j /\ Threw(j, w) = j
  BY <1>3, JobMoves
<1>5. \E i \in {Returned(j, w), Threw(j, w), IF j.lock = w THEN Stalled(j) ELSE j} :
        job' = [job EXCEPT ![k] = i]
  BY <1>2 DEF Finish, Retry, Unlocked
<1>6. PICK i \in {Returned(j, w), Threw(j, w), IF j.lock = w THEN Stalled(j) ELSE j} :
        job' = [job EXCEPT ![k] = i]
  BY <1>5
<1>7. job'[k] = i /\ \A o \in Keys \ {k} : job'[o] = job[o]
  BY <1>1, <1>3, <1>6
<1>8. i.status = "absent" <=> j.status = "absent"
  BY <1>4, <1>6
<1>9. j.status = "failed" => i.status = "failed"
  BY <1>4, <1>6
<1>10. \/ failed' = failed
       \/ j.status # "failed" /\ i.status = "failed" /\ failed' = <<k>> \o failed
  <2>1. CASE Retry(w)
    BY <1>2, <1>4, <1>7, <2>1 DEF Retry
  <2>2. CASE ~Retry(w)
    BY <2>2 DEF Finish
  <2>. QED BY <2>1, <2>2
<1>. QED BY <1>2, <1>3, <1>7, <1>8, <1>9, <1>10 DEF QueueMoves

LEMMA WorkerMoves ==
  ASSUME Typed, NEW w \in Workers,
         \/ WorkerStep(w) \/ GuardFails(w) \/ AfterSendFails(w) \/ CatchFails(w)
         \/ Crash(w) \/ LockLost(w)
         \/ \E k \in Keys : Claim(w, k)
  PROVE  QueueMoves
<1> USE DEF accountVars, queueVars, workVars, scanVars, metaVars, histories, BeforeTheCall
<1>1. UNCHANGED <<queueVars, scanVars>> => QueueMoves
  BY DEF QueueMoves
<1>2. CASE CheckBreaker(w) \/ Consume(w) \/ Credentials(w)
  <2>1. pc[w] # "idle" /\ UNCHANGED <<scan, batch>>
        /\ (Retry(w) \/ Finish(w) \/ UNCHANGED <<queueVars, scanVars>>)
    BY <1>2 DEF CheckBreaker, Consume, Credentials
  <2>. QED BY <1>1, <2>1, ReleaseMoves
<1>3. CASE Activate(w) \/ LogFailed(w) \/ GuardFails(w) \/ CatchFails(w)
  <2>1. pc[w] # "idle" /\ UNCHANGED <<scan, batch>> /\ (Retry(w) \/ Finish(w))
    BY <1>3 DEF Activate, LogFailed, GuardFails, CatchFails
  <2>. QED BY <2>1, ReleaseMoves
<1>4. CASE Crash(w) \/ LockLost(w)
  <2>1. pc[w] # "idle" /\ UNCHANGED <<scan, batch>> /\ job' = Unlocked(w) /\ failed' = failed
    BY <1>4 DEF Crash, LockLost
  <2>. QED BY <2>1, ReleaseMoves
<1>5. CASE \/ \E o \in Outcomes : Post(w, o)
           \/ LogSent(w) \/ ClearBreaker(w) \/ CountFailure(w) \/ TripBreaker(w) \/ FlagAccount(w)
           \/ AfterSendFails(w)
  BY <1>1, <1>5
     DEF Post, LogSent, ClearBreaker, CountFailure, TripBreaker, FlagAccount, AfterSendFails
<1>6. ASSUME NEW k \in Keys, Claim(w, k)
      PROVE  QueueMoves
  <2>1. job \in [Keys -> Job]
    BY DEF Typed, TypeOK
  <2>2. PICK j : j = Claimed(job[k], w)
    OBVIOUS
  <2>3. job[k].status = "waiting" /\ j.status = "active"
    BY <1>6, <2>1, <2>2, JobMoves DEF Claim
  <2>4. job' = [job EXCEPT ![k] = j] /\ failed' = failed /\ UNCHANGED <<scan, batch>>
    BY <1>6, <2>2 DEF Claim
  <2>. QED BY <2>1, <2>3, <2>4 DEF QueueMoves
<1>. QED BY <1>2, <1>3, <1>4, <1>5, <1>6 DEF WorkerStep

LEMMA MovesKeepRequeueing ==
  ASSUME Typed, Requeueing, QueueMoves
  PROVE  Requeueing'
<1>1. failed \in Seq(Keys) /\ batch \in Seq(Keys)
  BY DEF Typed, TypeOK
<1>2. /\ \A k \in Keys : job'[k].status = "absent" <=> job[k].status = "absent"
      /\ \A k \in Keys : job[k].status = "failed" => job'[k].status = "failed"
      /\ UNCHANGED <<scan, batch>>
  BY DEF QueueMoves
<1>3. (\A i \in DOMAIN failed : failed[i] \in Keys) /\ (\A i \in DOMAIN batch : batch[i] \in Keys)
  BY <1>1
<1>4. Distinct(failed') /\ \A i \in DOMAIN failed' : job'[failed'[i]].status = "failed"
  <2>1. CASE failed' = failed
    BY <1>2, <1>3, <2>1 DEF Requeueing
  <2>2. ASSUME NEW k \in Keys, job[k].status # "failed", job'[k].status = "failed",
               failed' = <<k>> \o failed
        PROVE  Distinct(failed') /\ \A i \in DOMAIN failed' : job'[failed'[i]].status = "failed"
    <3>1. /\ Len(failed') = 1 + Len(failed) /\ failed' \in Seq(Keys) /\ Len(failed) \in Nat
          /\ \A i \in 1..(1 + Len(failed)) : failed'[i] = IF i <= 1 THEN k ELSE failed[i - 1]
      <4>1. <<k>> \in Seq(Keys) /\ Len(<<k>>) = 1 /\ <<k>>[1] = k
        OBVIOUS
      <4>2. /\ failed' \in Seq(Keys) /\ Len(failed') = Len(<<k>>) + Len(failed)
            /\ \A i \in 1..Len(<<k>>) + Len(failed) :
                 failed'[i] = IF i <= Len(<<k>>) THEN <<k>>[i] ELSE failed[i - Len(<<k>>)]
        BY <1>1, <2>2, <4>1, ConcatProperties
      <4>3. Len(failed) \in Nat
        BY <1>1
      <4>4. ASSUME NEW i \in 1..(1 + Len(failed))
            PROVE  failed'[i] = IF i <= 1 THEN k ELSE failed[i - 1]
        BY <4>1, <4>2, <4>3
      <4>. QED BY <4>1, <4>2, <4>3, <4>4
    <3>2. DOMAIN failed' = 1..(1 + Len(failed)) /\ DOMAIN failed = 1..Len(failed)
      BY <1>1, <3>1
    <3>3. \A i \in DOMAIN failed : failed[i] # k /\ job'[failed[i]].status = "failed"
      BY <1>2, <1>3, <2>2 DEF Requeueing
    <3>4. ASSUME NEW i \in DOMAIN failed', i # 1
          PROVE  i - 1 \in DOMAIN failed /\ failed'[i] = failed[i - 1]
      BY <3>1, <3>2, <3>4
    <3>5. failed'[1] = k
      BY <3>1
    <3>6. \A i \in DOMAIN failed' : job'[failed'[i]].status = "failed"
      BY <2>2, <3>3, <3>4, <3>5
    <3>7. ASSUME NEW i \in DOMAIN failed', NEW j \in DOMAIN failed', failed'[i] = failed'[j]
          PROVE  i = j
      <4>1. CASE i # 1 /\ j # 1
        <5>1. i - 1 = j - 1
          BY <3>4, <3>7, <4>1 DEF Requeueing, Distinct
        <5>. QED BY <3>2, <5>1
      <4>. QED BY <3>3, <3>4, <3>5, <3>7, <4>1
    <3>. QED BY <3>6, <3>7 DEF Distinct
  <2>. QED BY <2>1, <2>2 DEF QueueMoves
<1>5. \A m \in Messages, r \in Rounds : <<m, r>> \in Keys
  BY DEF Keys
<1>6. scan = "add" => batch[1] \in Keys
  BY <1>1, <1>3, BatchTyping DEF Requeueing
<1>7. scan = "add" => batch[1][1] \in Messages
  BY <1>6 DEF Keys
<1>. QED BY <1>2, <1>3, <1>4, <1>5, <1>7 DEF Requeueing

\* What the scan may assume of the list it walks, once it has dropped the head.
LEMMA TailWaits ==
  ASSUME Typed, Requeueing, batch # <<>>
  PROVE  /\ Distinct(Tail(batch))
         /\ \A i \in DOMAIN Tail(batch) : /\ job[Tail(batch)[i]].status = "failed"
                                          /\ Tail(batch)[i] \in Keys
<1>1. \A i \in DOMAIN Tail(batch) : i + 1 \in DOMAIN batch /\ i + 1 # 1
                                    /\ Tail(batch)[i] = batch[i + 1]
  BY BatchTyping
<1>2. Tail(batch) \in Seq(Keys) /\ DOMAIN Tail(batch) \subseteq Int
  BY BatchTyping
<1>3. ASSUME NEW i \in DOMAIN Tail(batch), NEW j \in DOMAIN Tail(batch),
             Tail(batch)[i] = Tail(batch)[j]
      PROVE  i = j
  <2>1. i + 1 = j + 1
    BY <1>1, <1>3 DEF Requeueing, Distinct
  <2>. QED BY <1>2, <2>1
<1>4. \A i \in DOMAIN Tail(batch) : job[Tail(batch)[i]].status = "failed"
  BY <1>1 DEF Requeueing
<1>. QED BY <1>2, <1>3, <1>4 DEF Distinct

\* A step of the scan that leaves the queue as it is.
LEMMA WalkKeepsRequeueing ==
  ASSUME Requeueing, job' = job, failed' = failed, scan' # "add",
         scan' = "idle" => batch' = <<>>,
         \A i, j \in DOMAIN batch' : batch'[i] = batch'[j] => i = j,
         \A i \in DOMAIN batch' : job[batch'[i]].status = "failed"
  PROVE  Requeueing'
<1>1. Distinct(failed)' /\ Distinct(batch)'
  BY DEF Requeueing, Distinct
<1>2. \A i \in DOMAIN failed' : job'[failed'[i]].status = "failed"
  BY DEF Requeueing
<1>3. \A i \in DOMAIN batch' : job'[batch'[i]].status = "failed"
  OBVIOUS
<1>4. \A m \in Messages : \A r, s \in Rounds :
        job'[<<m, r>>].status # "absent" /\ job'[<<m, s>>].status # "absent" => r = s
  BY DEF Requeueing
<1>. QED BY <1>1, <1>2, <1>3, <1>4 DEF Requeueing

(* The scan takes a job out before it adds its next round, and loses sight *)
(* of it when it stops in between.                                         *)
LEMMA ScanKeepsRequeueing ==
  ASSUME Typed, Requeueing, ScanStep \/ ScanCrash
  PROVE  Requeueing'
<1> USE DEF queueVars, scanVars
<1>1. failed \in Seq(Keys) /\ batch \in Seq(Keys) /\ job \in [Keys -> Job]
  BY DEF Typed, TypeOK
<1>2. \A m \in Messages, r \in Rounds : <<m, r>> \in Keys
  BY DEF Keys
<1>3. CASE ScanStart
  <2>1. UNCHANGED queueVars /\ scan' = "walk"
    BY <1>3 DEF ScanStart
  <2>2. \A i \in DOMAIN batch' : i \in DOMAIN failed /\ batch'[i] = failed[i]
    BY <1>3, FrontTyping
  <2>3. Distinct(batch') /\ \A i \in DOMAIN batch' : job[batch'[i]].status = "failed"
    BY <2>2 DEF Requeueing, Distinct
  <2>. QED BY <2>1, <2>3, WalkKeepsRequeueing DEF Distinct
<1>4. CASE ScanSkip
  <2>1. UNCHANGED queueVars /\ scan' = "walk" /\ batch # <<>> /\ batch' = Tail(batch)
    BY <1>4 DEF ScanSkip
  <2>. QED BY <2>1, TailWaits, WalkKeepsRequeueing DEF Distinct
<1>5. CASE ScanEnd \/ ScanCrash
  <2>1. UNCHANGED queueVars /\ scan' = "idle" /\ batch' = <<>>
    BY <1>5 DEF ScanEnd, ScanCrash
  <2>. QED BY <2>1 DEF Requeueing, Distinct
<1>6. CASE ScanRemove
  <2>1. /\ scan = "walk" /\ scan' = "add" /\ batch # <<>> /\ batch' = batch
        /\ Head(batch) = batch[1] /\ 1 \in DOMAIN batch /\ batch[1] \in Keys
    BY <1>6, BatchTyping DEF ScanRemove
  <2>2. PICK k, m, n : k = batch[1] /\ m = k[1] /\ n = k[2]
    OBVIOUS
  <2>3. k \in Keys /\ m \in Messages /\ n \in Rounds /\ k = <<m, n>> /\ n < MaxRounds
    BY <1>6, <2>1, <2>2 DEF Keys, ScanRemove, Requeueable
  <2>4. job[k].status = "failed"
    BY <2>1, <2>2 DEF Requeueing
  <2>5. /\ job' = [job EXCEPT ![k] = NoJob] /\ NoJob.status = "absent"
        /\ job'[k].status = "absent" /\ \A o \in Keys \ {k} : job'[o] = job[o]
    BY <1>1, <1>6, <2>1, <2>2, <2>3 DEF ScanRemove, NoJob
  <2>6. PICK i \in DOMAIN failed : failed[i] = k /\ failed' = RemoveAt(failed, i)
    BY <1>6, <2>1, <2>2 DEF ScanRemove
  <2>7. Distinct(failed') /\ \A j \in DOMAIN failed' : job'[failed'[j]].status = "failed"
    <3>1. /\ DOMAIN failed' = 1..(Len(failed) - 1) /\ DOMAIN failed = 1..Len(failed)
          /\ Len(failed) \in Nat /\ i \in Int
          /\ \A j \in 1..(Len(failed) - 1) :
               failed'[j] = IF j < i THEN failed[j] ELSE failed[j + 1]
      <4>1. Len(failed) \in Nat /\ DOMAIN failed = 1..Len(failed)
        BY <1>1
      <4>2. i \in Int
        BY <4>1
      <4>. QED BY <1>1, <2>6, <4>1, <4>2, RemoveAtProperties
    <3>2. PICK len : len = Len(failed)
      OBVIOUS
    <3>3. ASSUME NEW j \in 1..(len - 1)
          PROVE  /\ j < i => j \in DOMAIN failed /\ j # i /\ failed'[j] = failed[j]
                 /\ ~(j < i) => j + 1 \in DOMAIN failed /\ j + 1 # i /\ failed'[j] = failed[j + 1]
      BY <3>1, <3>2
    <3>4. \A j \in DOMAIN failed : j # i => /\ job'[failed[j]].status = "failed"
      <4>1. \A j \in DOMAIN failed : failed[j] \in Keys /\ job[failed[j]].status = "failed"
        BY <1>1 DEF Requeueing
      <4>2. \A j \in DOMAIN failed : j # i => failed[j] # k
        BY <2>6 DEF Requeueing, Distinct
      <4>. QED BY <2>5, <4>1, <4>2
    <3>5. \A j \in DOMAIN failed' : job'[failed'[j]].status = "failed"
      BY <3>1, <3>2, <3>3, <3>4
    <3>6. ASSUME NEW j \in DOMAIN failed', NEW l \in DOMAIN failed', failed'[j] = failed'[l]
          PROVE  j = l
      <4>1. j \in 1..(len - 1) /\ l \in 1..(len - 1) /\ j \in Int /\ l \in Int
        BY <3>1, <3>2
      <4>2. \A a, b \in DOMAIN failed : failed[a] = failed[b] => a = b
        BY DEF Requeueing, Distinct
      <4>3. CASE j < i /\ l < i
        BY <3>3, <3>6, <4>1, <4>2, <4>3
      <4>4. CASE ~(j < i) /\ ~(l < i)
        <5>1. j + 1 = l + 1
          BY <3>3, <3>6, <4>1, <4>2, <4>4
        <5>. QED BY <4>1, <5>1
      <4>5. CASE j < i /\ ~(l < i)
        <5>1. j = l + 1
          BY <3>3, <3>6, <4>1, <4>2, <4>5
        <5>. QED BY <3>1, <4>1, <4>5, <5>1
      <4>6. CASE ~(j < i) /\ l < i
        <5>1. j + 1 = l
          BY <3>3, <3>6, <4>1, <4>2, <4>6
        <5>. QED BY <3>1, <4>1, <4>6, <5>1
      <4>. QED BY <4>3, <4>4, <4>5, <4>6
    <3>. QED BY <3>5, <3>6 DEF Distinct
  <2>8. \A a \in Messages : \A r, s \in Rounds :
          job'[<<a, r>>].status # "absent" /\ job'[<<a, s>>].status # "absent" => r = s
    BY <1>2, <2>5 DEF Requeueing
  <2>9. \A r \in Rounds : job'[<<m, r>>].status = "absent"
    <3>1. \A r \in Rounds : r # n => job[<<m, r>>].status = "absent"
      BY <2>3, <2>4 DEF Requeueing
    <3>. QED BY <1>2, <2>3, <2>5, <3>1
  <2>10. \A j \in DOMAIN batch : j # 1 => job'[batch[j]].status = "failed"
    <3>1. \A j \in DOMAIN batch : batch[j] \in Keys
      BY <1>1
    <3>2. \A j \in DOMAIN batch : j # 1 => batch[j] # k /\ job[batch[j]].status = "failed"
      BY <2>1, <2>2 DEF Requeueing, Distinct
    <3>. QED BY <2>5, <3>1, <3>2
  <2>. QED BY <2>1, <2>2, <2>3, <2>7, <2>8, <2>9, <2>10 DEF Requeueing
<1>7. CASE ScanAdd
  <2>1. /\ scan = "add" /\ scan' = "walk" /\ batch # <<>> /\ batch' = Tail(batch)
        /\ Head(batch) = batch[1] /\ batch[1] \in Keys /\ failed' = failed
    BY <1>7, BatchTyping DEF ScanAdd, Requeueing
  <2>2. PICK m, r : m = batch[1][1] /\ r = batch[1][2] + 1
    OBVIOUS
  <2>3. m \in Messages /\ r \in Rounds
    <3>1. batch[1][2] \in 0..MaxRounds /\ batch[1][2] < MaxRounds /\ batch[1][1] \in Messages
      BY <2>1 DEF Requeueing, Keys, Rounds
    <3>. QED BY <2>2, <3>1, SendingAssumption DEF Rounds
  <2>4. PICK k : k = <<m, r>>
    OBVIOUS
  <2>5. k \in Keys /\ \A s \in Rounds : job[<<m, s>>].status = "absent"
    BY <1>2, <2>1, <2>2, <2>3, <2>4 DEF Requeueing
  <2>6. /\ job'[k].status = "waiting" /\ \A o \in Keys \ {k} : job'[o] = job[o]
    <3>1. job' = [job EXCEPT ![k] = Added(job[k])]
      BY <1>7, <2>1, <2>2, <2>4 DEF ScanAdd
    <3>2. job[k].status = "absent"
      BY <2>3, <2>4, <2>5
    <3>. QED BY <1>1, <2>5, <3>1, <3>2 DEF Added, NewJob
  <2>7. \A o \in Keys : job[o].status = "failed" => job'[o].status = "failed"
    BY <2>3, <2>4, <2>5, <2>6
  <2>8. \A i \in DOMAIN failed : job'[failed[i]].status = "failed"
    BY <1>1, <2>7 DEF Requeueing
  <2>9. \A a \in Messages : \A s, t \in Rounds :
          job'[<<a, s>>].status # "absent" /\ job'[<<a, t>>].status # "absent" => s = t
    <3>1. ASSUME NEW a \in Messages, NEW s \in Rounds, job'[<<a, s>>].status # "absent"
          PROVE  IF a = m THEN s = r ELSE job[<<a, s>>].status # "absent"
      BY <1>2, <2>4, <2>5, <2>6, <3>1
    <3>. QED BY <3>1 DEF Requeueing
  <2>10. Distinct(failed)' /\ Distinct(batch)'
    BY <2>1, TailWaits DEF Requeueing, Distinct
  <2>11. \A i \in DOMAIN batch' : job'[batch'[i]].status = "failed"
    <3>1. \A i \in DOMAIN Tail(batch) : job'[Tail(batch)[i]].status = "failed"
      BY <2>1, <2>7, TailWaits
    <3>. QED BY <2>1, <3>1
  <2>. QED BY <2>1, <2>8, <2>9, <2>10, <2>11 DEF Requeueing
<1>. QED BY <1>3, <1>4, <1>5, <1>6, <1>7 DEF ScanStep

(* Time, the user and token renewal do not touch the queue.                *)
LEMMA NextKeepsRequeueing ==
  ASSUME Typed, Requeueing, Next
  PROVE  Requeueing'
<1> USE DEF queueVars, scanVars
<1>1. CASE \E w \in Workers :
             \/ WorkerStep(w) \/ GuardFails(w) \/ AfterSendFails(w) \/ CatchFails(w)
             \/ Crash(w) \/ LockLost(w)
             \/ \E k \in Keys : Claim(w, k)
  BY <1>1, WorkerMoves, MovesKeepRequeueing
<1>2. CASE ScanStep \/ ScanCrash
  BY <1>2, ScanKeepsRequeueing
<1>3. CASE \/ CloseBreaker \/ ForgetFailures \/ NewWindow \/ Reconnect
           \/ \E reason \in Blocked : Block(reason)
  <2>1. UNCHANGED <<queueVars, scanVars>>
    BY <1>3 DEF CloseBreaker, ForgetFailures, NewWindow, Reconnect, Block
  <2>2. QueueMoves
    BY <2>1 DEF QueueMoves
  <2>. QED BY <2>2, MovesKeepRequeueing
<1>. QED BY <1>1, <1>2, <1>3 DEF Next

LEMMA NextTyping ==
  ASSUME Typed, Requeueing, Next
  PROVE  Typed'
<1>1. scan = "add" => batch # <<>>
  BY DEF Requeueing
<1>. QED BY <1>1, WorkerTyping, OtherTyping DEF Next

-----------------------------------------------------------------------------
(* What the log says of a finished job.                                    *)

\* Rows and posts only accumulate, and whoever completes a job or says that it
\* was sent has the row, or the post, to show for it.
LoggedMoves ==
  /\ \A m \in Messages : log[m] \subseteq log'[m] /\ (posts[m] > 0 => posts'[m] > 0)
  /\ \A m \in Messages : "SENT" \in log'[m] => "SENT" \in log[m] \/ posts'[m] > 0
  /\ \A k \in Keys : job'[k].status = "completed" =>
       job[k].status = "completed" \/ log'[k[1]] \cap {"SENT", "FAILED"} # {}
  /\ \A w \in Workers :
       \/ pc'[w] \notin {"logSent", "clear", "activate"}
       \/ pc'[w] = pc[w] /\ at'[w] = at[w]
       \/ pc'[w] = "logSent" /\ posts'[at'[w][1]] > 0
       \/ pc'[w] \in {"clear", "activate"} /\ "SENT" \in log'[at'[w][1]]

LEMMA MovesKeepLogged ==
  ASSUME Typed, Logged, LoggedMoves
  PROVE  Logged'
<1>1. \A w \in Workers : pc[w] # "idle" => at[w][1] \in Messages
  BY DEF Typed, Busy, Keys
<1>2. \A m \in Messages, r \in Rounds : <<m, r>> \in Keys /\ <<m, r>>[1] = m
  BY DEF Keys
<1>3. \A m \in Messages : "SENT" \in log'[m] => posts'[m] > 0
  BY DEF Logged, LoggedMoves
<1>4. ASSUME NEW m \in Messages, NEW r \in Rounds, job'[<<m, r>>].status = "completed"
      PROVE  log'[m] \cap {"SENT", "FAILED"} # {}
  <2>1. job[<<m, r>>].status = "completed" \/ log'[m] \cap {"SENT", "FAILED"} # {}
    BY <1>2, <1>4 DEF LoggedMoves
  <2>2. log[m] \subseteq log'[m]
    BY DEF LoggedMoves
  <2>. QED BY <2>1, <2>2 DEF Logged
<1>5. ASSUME NEW w \in Workers
      PROVE  /\ pc'[w] = "logSent" => posts'[at'[w][1]] > 0
             /\ pc'[w] \in {"clear", "activate"} => "SENT" \in log'[at'[w][1]]
  BY <1>1 DEF Logged, LoggedMoves
<1>. QED BY <1>3, <1>4, <1>5 DEF Logged

(* Only a handler that returns completes a job, and only its own.          *)
LEMMA OnlyFinishCompletes ==
  ASSUME Typed, NEW w \in Workers, pc[w] # "idle"
  PROVE  /\ Finish(w) => \A k \in Keys \ {at[w]} : job'[k] = job[k]
         /\ Retry(w) \/ job' = Unlocked(w) =>
              \A k \in Keys : job'[k].status = "completed" => job[k].status = "completed"
<1>1. at[w] \in Keys /\ job \in [Keys -> Job]
  BY DEF Typed, TypeOK, Busy
<1>2. PICK k, j : k = at[w] /\ j = job[k]
  OBVIOUS
<1>3. j \in Job /\ k \in Keys
  BY <1>1, <1>2
<1>4. /\ j.lock = w => Threw(j, w).status # "completed" /\ Stalled(j).status # "completed"
      /\ j.lock # w => Threw(j, w) = j
  BY <1>3, JobMoves
<1>5. Finish(w) => job' = [job EXCEPT ![k] = Returned(j, w)]
  BY <1>2 DEF Finish
<1>6. Retry(w) => job' = [job EXCEPT ![k] = Threw(j, w)]
  BY <1>2 DEF Retry
<1>7. Unlocked(w) = [job EXCEPT ![k] = IF j.lock = w THEN Stalled(j) ELSE j]
  BY <1>2 DEF Unlocked
<1>8. ASSUME Retry(w) \/ job' = Unlocked(w), NEW o \in Keys, job'[o].status = "completed"
      PROVE  job[o].status = "completed"
  BY <1>1, <1>2, <1>4, <1>6, <1>7, <1>8
<1>. QED BY <1>1, <1>2, <1>5, <1>8

LEMMA WorkerLogs ==
  ASSUME Typed, Logged, NEW w \in Workers,
         \/ WorkerStep(w) \/ GuardFails(w) \/ AfterSendFails(w) \/ CatchFails(w)
         \/ Crash(w) \/ LockLost(w)
         \/ \E k \in Keys : Claim(w, k)
  PROVE  LoggedMoves
<1> USE DEF accountVars, queueVars, workVars, scanVars, metaVars, histories, BeforeTheCall
<1>0. Typed'
  BY WorkerTyping
<1>1. pc[w] # "idle" => at[w] \in Keys /\ at[w][1] \in Messages
  BY DEF Typed, Busy, Keys
<1>2. job \in [Keys -> Job] /\ pc \in [Workers -> Steps] /\ posts \in [Messages -> Nat]
  BY DEF Typed, TypeOK, Steps
<1>3. ASSUME pc[w] # "idle", Finish(w), posts' = posts,
             log' = log \/ Write(w, "FAILED"),
             log'[at[w][1]] \cap {"SENT", "FAILED"} # {}
      PROVE  LoggedMoves
  <2>1. \A o \in Workers : pc'[o] = "idle" \/ (pc'[o] = pc[o] /\ at'[o] = at[o])
    BY <1>3, RestTyping DEF Finish
  <2>2. \A k \in Keys \ {at[w]} : job'[k] = job[k]
    BY <1>3, OnlyFinishCompletes
  <2>3. \A m \in Messages : log[m] \subseteq log'[m] /\ ("SENT" \in log'[m] => "SENT" \in log[m])
    BY <1>3, WriteTyping
  <2>. QED BY <1>1, <1>3, <2>1, <2>2, <2>3 DEF LoggedMoves
<1>4. ASSUME pc[w] # "idle", posts' = posts, Rest(w) \/ UNCHANGED <<pc, at>>,
             Retry(w) \/ job' = Unlocked(w),
             \/ log' = log
             \/ \E row \in {"FAILED", "RATE_LIMITED"} : Write(w, row)
      PROVE  LoggedMoves
  <2>1. \A o \in Workers : pc'[o] = "idle" \/ (pc'[o] = pc[o] /\ at'[o] = at[o])
    BY <1>4, RestTyping
  <2>2. \A k \in Keys : job'[k].status = "completed" => job[k].status = "completed"
    BY <1>4, OnlyFinishCompletes
  <2>3. \A m \in Messages : log[m] \subseteq log'[m] /\ ("SENT" \in log'[m] => "SENT" \in log[m])
    BY <1>4, WriteTyping
  <2>. QED BY <1>4, <2>1, <2>2, <2>3 DEF LoggedMoves
<1>5. ASSUME pc[w] # "idle", NEW step \in Steps \ {"logSent", "clear", "activate"},
             Goto(w, step), result' = result, UNCHANGED <<job, posts, log>>
      PROVE  LoggedMoves
  BY <1>2, <1>5 DEF Goto, LoggedMoves
<1>6. CASE CheckBreaker(w)
  <2>1. CASE open
    BY <1>4, <1>6, <2>1 DEF CheckBreaker, Retry
  <2>2. CASE ~open
    BY <1>5, <1>6, <2>2 DEF CheckBreaker, Steps
  <2>. QED BY <2>1, <2>2
<1>7. CASE Consume(w)
  <2>1. CASE used' > Limit
    BY <1>4, <1>7, <2>1 DEF Consume, Retry
  <2>2. CASE ~(used' > Limit)
    BY <1>5, <1>7, <2>2 DEF Consume, Steps
  <2>. QED BY <2>1, <2>2
<1>8. CASE Credentials(w)
  <2>1. CASE status \in Blocked
    <3>1. "FAILED" \in log'[at[w][1]]
      BY <1>8, <2>1, WriteTyping DEF Credentials
    <3>. QED BY <1>3, <1>8, <2>1, <3>1 DEF Credentials
  <2>2. CASE status \notin Blocked
    BY <1>5, <1>8, <2>2 DEF Credentials, Steps
  <2>. QED BY <2>1, <2>2
<1>9. ASSUME NEW o \in Outcomes, Post(w, o)
      PROVE  LoggedMoves
  <2>1. PICK m : m = at[w][1]
    OBVIOUS
  <2>2. m \in Messages /\ UNCHANGED <<job, log, at>>
    BY <1>1, <1>9, <2>1 DEF Post, Goto
  <2>3. posts' = IF o \in {"ok", "ambiguous", "lost"} THEN [posts EXCEPT ![m] = posts[m] + 1] ELSE posts
    BY <1>9, <2>1 DEF Post
  <2>4. pc' = [pc EXCEPT ![w] = IF o = "ok" THEN "logSent" ELSE "count"]
    BY <1>9 DEF Post, Goto
  <2>5. \A n \in Messages : posts[n] > 0 => posts'[n] > 0
    BY <1>2, <2>2, <2>3
  <2>6. o = "ok" => posts'[m] > 0
    BY <1>2, <2>2, <2>3
  <2>. QED BY <1>2, <2>1, <2>2, <2>4, <2>5, <2>6 DEF LoggedMoves
<1>10. CASE LogSent(w)
  <2>1. posts[at[w][1]] > 0 /\ pc[w] # "idle" /\ UNCHANGED <<job, posts, at>>
    BY <1>10 DEF LogSent, Logged, Goto
  <2>2. /\ log'[at[w][1]] = log[at[w][1]] \cup {"SENT"}
        /\ \A m \in Messages : m # at[w][1] => log'[m] = log[m]
    BY <1>10, <2>1, WriteTyping DEF LogSent
  <2>3. pc' = [pc EXCEPT ![w] = "clear"]
    BY <1>10 DEF LogSent, Goto
  <2>. QED BY <1>1, <1>2, <2>1, <2>2, <2>3 DEF LoggedMoves
<1>11. CASE ClearBreaker(w)
  <2>1. "SENT" \in log[at[w][1]] /\ UNCHANGED <<job, posts, log, at>>
    BY <1>11 DEF ClearBreaker, Logged, Goto
  <2>2. pc' = [pc EXCEPT ![w] = "activate"]
    BY <1>11 DEF ClearBreaker, Goto
  <2>. QED BY <1>2, <2>1, <2>2 DEF LoggedMoves
<1>12. CASE Activate(w)
  BY <1>3, <1>12 DEF Activate, Logged
<1>13. CASE AfterSendFails(w)
  <2>1. pc' = [pc EXCEPT ![w] = "count"] /\ UNCHANGED <<job, posts, log, at>>
    BY <1>13 DEF AfterSendFails, Goto
  <2>. QED BY <1>2, <2>1 DEF LoggedMoves
<1>14. CASE CountFailure(w) \/ TripBreaker(w) \/ FlagAccount(w)
  <2>1. \E step \in {"trip", "flag", "logFailed"} : Goto(w, step)
    BY <1>14 DEF CountFailure, TripBreaker, FlagAccount
  <2>2. pc[w] # "idle" /\ result' = result /\ UNCHANGED <<job, posts, log>>
    BY <1>14 DEF CountFailure, TripBreaker, FlagAccount
  <2>. QED BY <1>5, <2>1, <2>2 DEF Steps
<1>15. CASE LogFailed(w)
  <2>1. CASE result[w] = "answered"
    <3>1. Write(w, "FAILED") /\ Finish(w) /\ posts' = posts /\ pc[w] # "idle"
      BY <1>15, <2>1 DEF LogFailed
    <3>2. "FAILED" \in log'[at[w][1]]
      BY <3>1, WriteTyping
    <3>. QED BY <1>3, <3>1, <3>2
  <2>2. CASE result[w] # "answered"
    BY <1>4, <1>15, <2>2 DEF LogFailed, Retry
  <2>. QED BY <2>1, <2>2
<1>16. CASE GuardFails(w) \/ CatchFails(w)
  BY <1>4, <1>16 DEF GuardFails, CatchFails, Retry
<1>17. CASE Crash(w) \/ LockLost(w)
  BY <1>4, <1>17 DEF Crash, LockLost
<1>18. ASSUME NEW k \in Keys, Claim(w, k)
       PROVE  LoggedMoves
  <2>1. PICK j : j = Claimed(job[k], w)
    OBVIOUS
  <2>2. j.status = "active"
    BY <1>2, <1>18, <2>1, JobMoves DEF Claim
  <2>3. /\ job' = [job EXCEPT ![k] = j] /\ pc' = [pc EXCEPT ![w] = "breaker"]
        /\ at' = [at EXCEPT ![w] = k] /\ UNCHANGED <<log, posts>>
    BY <1>18, <2>1 DEF Claim
  <2>4. at \in [Workers -> Keys \cup {NoKey}]
    BY DEF Typed, TypeOK
  <2>. QED BY <1>2, <2>2, <2>3, <2>4 DEF LoggedMoves
<1>. QED
  BY <1>6, <1>7, <1>8, <1>9, <1>10, <1>11, <1>12, <1>13, <1>14, <1>15, <1>16, <1>17, <1>18
  DEF WorkerStep

LEMMA OtherLogs ==
  ASSUME Typed, Requeueing,
         \/ ScanStep \/ ScanCrash \/ CloseBreaker \/ ForgetFailures \/ NewWindow \/ Reconnect
         \/ \E reason \in Blocked : Block(reason)
  PROVE  LoggedMoves
<1> USE DEF accountVars, queueVars, workVars, scanVars, metaVars, histories, BeforeTheCall
<1>1. job \in [Keys -> Job]
  BY DEF Typed, TypeOK
<1>2. UNCHANGED <<pc, at, log, posts>>
  BY DEF ScanStep, ScanStart, ScanSkip, ScanRemove, ScanAdd, ScanEnd, ScanCrash,
         CloseBreaker, ForgetFailures, NewWindow, Reconnect, Block
<1>3. ASSUME \A k \in Keys : job'[k].status = "completed" => job[k].status = "completed"
      PROVE  LoggedMoves
  BY <1>2, <1>3 DEF LoggedMoves
<1>4. CASE ScanRemove
  <2>1. PICK k : k = Head(batch)
    OBVIOUS
  <2>2. job' = [job EXCEPT ![k] = NoJob] /\ NoJob.status = "absent"
    BY <1>4, <2>1 DEF ScanRemove, NoJob
  <2>. QED BY <1>1, <1>3, <2>2
<1>5. CASE ScanAdd
  <2>1. PICK k : k = <<Head(batch)[1], Head(batch)[2] + 1>>
    OBVIOUS
  <2>2. job' = [job EXCEPT ![k] = Added(job[k])]
    BY <1>5, <2>1 DEF ScanAdd
  <2>3. Added(job[k]) = job[k] \/ Added(job[k]).status = "waiting"
    BY DEF Added, NewJob
  <2>. QED BY <1>1, <1>3, <2>2, <2>3
<1>6. CASE ~ScanRemove /\ ~ScanAdd
  <2>1. job' = job
    BY <1>6 DEF ScanStep, ScanStart, ScanSkip, ScanEnd, ScanCrash,
                CloseBreaker, ForgetFailures, NewWindow, Reconnect, Block
  <2>. QED BY <1>3, <2>1
<1>. QED BY <1>4, <1>5, <1>6

-----------------------------------------------------------------------------
(* The induction.                                                          *)

LEMMA InitIInv == Init => IInv
<1> SUFFICES ASSUME Init PROVE IInv
  OBVIOUS
<1> USE SendingAssumption
<1>1. TypeOK
  <2>1. NewJob \in Job /\ NoJob \in Job
    BY DEF NewJob, NoJob, Job, JobStatus
  <2>2. <<>> \in Seq(Keys)
    OBVIOUS
  <2>3. job \in [Keys -> Job] /\ failed \in Seq(Keys) /\ batch \in Seq(Keys)
    BY <2>1, <2>2 DEF Init
  <2>4. 0 \in 0..Threshold /\ 0 \in 0..(Limit + 1)
    OBVIOUS
  <2>5. /\ status \in Statuses /\ failures \in 0..Threshold /\ open \in BOOLEAN
        /\ used \in 0..(Limit + 1) /\ scan \in {"idle", "walk", "add"}
    BY <2>4 DEF Init, Statuses
  <2>6. /\ pc \in [Workers -> {"idle"}] /\ at \in [Workers -> {NoKey}]
        /\ result \in [Workers -> {"none"}] /\ log \in [Messages -> {{}}]
        /\ calls \in [Messages -> Nat] /\ posts \in [Messages -> Nat]
        /\ mishaps \in [Messages -> Nat] /\ dropped \subseteq Messages
        /\ spent \in [Budget -> Nat]
    BY DEF Init
  <2>. QED BY <2>3, <2>5, <2>6 DEF TypeOK
<1>2. Busy
  BY DEF Init, Busy
<1>3. \A k \in Keys : job[k].status = (IF k[2] = 0 THEN "waiting" ELSE "absent")
  BY DEF Init, NewJob, NoJob
<1>4. \A m \in Messages, r \in Rounds : <<m, r>> \in Keys
  BY DEF Keys
<1>5. Requeueing
  BY <1>3, <1>4 DEF Init, Requeueing, Distinct
<1>6. Logged
  <2>1. \A m \in Messages, r \in Rounds : job[<<m, r>>].status # "completed"
    BY <1>3, <1>4
  <2>. QED BY <2>1 DEF Init, Logged
<1>. QED BY <1>1, <1>2, <1>5, <1>6 DEF IInv, Typed

LEMMA NextIInv == IInv /\ [Next]_vars => IInv'
<1> SUFFICES ASSUME IInv, [Next]_vars PROVE IInv'
  OBVIOUS
<1>1. Typed /\ Requeueing /\ Logged
  BY DEF IInv
<1>2. CASE Next
  <2>1. LoggedMoves
    BY <1>1, <1>2, WorkerLogs, OtherLogs DEF Next
  <2>. QED BY <1>1, <1>2, <2>1, NextTyping, NextKeepsRequeueing, MovesKeepLogged DEF IInv
<1>3. CASE UNCHANGED vars
  BY <1>1, <1>3
     DEF IInv, Typed, TypeOK, Busy, Requeueing, Distinct, Logged, vars, accountVars, queueVars,
         workVars, scanVars, metaVars, histories
<1>. QED BY <1>2, <1>3

THEOREM Inductive == Spec => []IInv
<1>. QED BY InitIInv, NextIInv, PTL DEF Spec

(* Every value of the state is one the code can produce: an account        *)
(* status, a counter within its limit, a job with an attempt in hand.      *)
THEOREM SendingTypes == Spec => []TypeOK
<1>1. IInv => TypeOK
  BY DEF IInv, Typed
<1>. QED BY <1>1, Inductive, PTL

(* However workers, crashes, lost locks and the dead-letter scan           *)
(* interleave, a finished job left a row that says how it ended, and SENT  *)
(* only for a message Meta carried out (send, recordLog).                  *)
THEOREM LogTellsTheEnd == Spec => []LoggedAsItEnded
<1>1. IInv => LoggedAsItEnded
  BY DEF IInv, Logged, LoggedAsItEnded
<1>. QED BY <1>1, Inductive, PTL

-----------------------------------------------------------------------------
(* No message lost but to a scan cut off.                                  *)

\* A message the scan does not hold has a job; one it was cut off with has
\* none, in the queue or between remove and add.
Present ==
  /\ \A m \in Messages : m \notin dropped /\ (scan = "add" => batch[1][1] # m)
                           => \E r \in Rounds : job[<<m, r>>].status # "absent"
  /\ \A m \in dropped : /\ scan = "add" => batch[1][1] # m
                        /\ \A r \in Rounds : job[<<m, r>>].status = "absent"

LEMMA NextKeepsPresent ==
  ASSUME IInv, Present, [Next]_vars
  PROVE  Present'
<1> USE DEF accountVars, queueVars, workVars, scanVars, metaVars, histories
<1>1. Typed /\ Requeueing /\ job \in [Keys -> Job] /\ dropped \subseteq Messages
  BY DEF IInv, Typed, TypeOK
<1>2. \A m \in Messages, r \in Rounds : <<m, r>> \in Keys
  BY DEF Keys
<1>3. ASSUME QueueMoves, dropped' = dropped PROVE Present'
  BY <1>1, <1>2, <1>3 DEF QueueMoves, Present
<1>4. ASSUME NEW w \in Workers,
             \/ WorkerStep(w) \/ GuardFails(w) \/ AfterSendFails(w) \/ CatchFails(w)
             \/ Crash(w) \/ LockLost(w)
             \/ \E k \in Keys : Claim(w, k)
      PROVE  Present'
  <2>1. QueueMoves
    BY <1>1, <1>4, WorkerMoves
  <2>2. dropped' = dropped
    BY <1>1, <1>4, WorkerMishaps
  <2>. QED BY <1>3, <2>1, <2>2
<1>5. CASE ScanStart \/ ScanSkip \/ ScanEnd
  <2>1. job' = job /\ scan # "add" /\ scan' # "add" /\ dropped' = dropped
    BY <1>5 DEF ScanStart, ScanSkip, ScanEnd
  <2>. QED BY <2>1 DEF Present
<1>6. CASE ScanRemove
  <2>1. /\ scan # "add" /\ scan' = "add" /\ batch' = batch /\ batch # <<>> /\ dropped' = dropped
        /\ Head(batch) = batch[1] /\ batch[1] \in Keys /\ 1 \in DOMAIN batch
    BY <1>1, <1>6, BatchTyping DEF ScanRemove
  <2>2. PICK k : k = batch[1]
    OBVIOUS
  <2>3. \A o \in Keys : o # k => job'[o] = job[o]
    BY <1>1, <1>6, <2>1, <2>2 DEF ScanRemove
  <2>4. \A m \in Messages, r \in Rounds : m # k[1] => <<m, r>> # k
    OBVIOUS
  <2>5. k[1] \notin dropped
    <3>1. job[k].status = "failed"
      BY <1>1, <2>1, <2>2 DEF Requeueing
    <3>2. k = <<k[1], k[2]>> /\ k[2] \in Rounds
      BY <2>1, <2>2 DEF Keys
    <3>. QED BY <3>1, <3>2 DEF Present
  <2>. QED BY <1>1, <1>2, <2>1, <2>2, <2>3, <2>4, <2>5 DEF Present
<1>7. CASE ScanAdd
  <2>1. /\ scan = "add" /\ scan' = "walk" /\ batch # <<>> /\ Head(batch) = batch[1]
        /\ batch[1] \in Keys /\ batch[1][2] < MaxRounds /\ dropped' = dropped
    BY <1>1, <1>7, BatchTyping DEF ScanAdd, Requeueing
  <2>2. PICK m, r : m = batch[1][1] /\ r = batch[1][2] + 1
    OBVIOUS
  <2>3. m \in Messages /\ r \in Rounds
    <3>1. batch[1][2] \in 0..MaxRounds /\ batch[1][1] \in Messages
      BY <2>1 DEF Keys, Rounds
    <3>. QED BY <2>1, <2>2, <3>1, SendingAssumption DEF Rounds
  <2>4. job' = [job EXCEPT ![<<m, r>>] = Added(job[<<m, r>>])]
    BY <1>7, <2>1, <2>2 DEF ScanAdd
  <2>5. Added(job[<<m, r>>]).status # "absent"
    BY DEF Added, NewJob
  <2>6. job'[<<m, r>>].status # "absent" /\ \A o \in Keys \ {<<m, r>>} : job'[o] = job[o]
    BY <1>1, <1>2, <2>3, <2>4, <2>5
  <2>7. ASSUME NEW n \in Messages, n \notin dropped
        PROVE  \E s \in Rounds : job'[<<n, s>>].status # "absent"
    <3>1. CASE n = m
      BY <2>3, <2>6, <3>1
    <3>2. CASE n # m
      <4>1. PICK s \in Rounds : job[<<n, s>>].status # "absent"
        BY <2>2, <2>7, <3>2 DEF Present
      <4>2. <<n, s>> \in Keys \ {<<m, r>>}
        BY <1>2, <3>2
      <4>. QED BY <2>6, <4>1, <4>2
    <3>. QED BY <3>1, <3>2
  <2>8. ASSUME NEW n \in dropped, NEW s \in Rounds
        PROVE  job'[<<n, s>>].status = "absent"
    <3>1. n # m /\ job[<<n, s>>].status = "absent" /\ n \in Messages
      BY <1>1, <2>1, <2>2 DEF Present
    <3>2. <<n, s>> \in Keys \ {<<m, r>>}
      BY <1>2, <3>1
    <3>. QED BY <2>6, <3>1, <3>2
  <2>. QED BY <2>1, <2>7, <2>8 DEF Present
<1>8. CASE ScanCrash
  <2>1. job' = job /\ scan' # "add"
    BY <1>8 DEF ScanCrash
  <2>2. CASE scan = "add"
    <3>1. batch # <<>> /\ Head(batch) = batch[1]
      BY <1>1, <2>2, BatchTyping DEF Requeueing
    <3>2. dropped' = dropped \cup {batch[1][1]}
      BY <1>8, <2>2, <3>1 DEF ScanCrash
    <3>. QED BY <1>1, <2>1, <2>2, <3>2 DEF Present, Requeueing
  <2>3. CASE scan # "add"
    <3>1. dropped' = dropped
      BY <1>8, <2>3 DEF ScanCrash
    <3>. QED BY <2>1, <2>3, <3>1 DEF Present
  <2>. QED BY <2>2, <2>3
<1>9. CASE \/ CloseBreaker \/ ForgetFailures \/ NewWindow \/ Reconnect
           \/ \E reason \in Blocked : Block(reason)
  <2>1. UNCHANGED <<queueVars, scanVars, histories>>
    BY <1>9 DEF CloseBreaker, ForgetFailures, NewWindow, Reconnect, Block
  <2>. QED BY <2>1 DEF Present
<1>10. CASE UNCHANGED vars
  BY <1>10 DEF Present, vars
<1>. QED BY <1>4, <1>5, <1>6, <1>7, <1>8, <1>9, <1>10 DEF Next, ScanStep

(* However workers, failures and the dead-letter scan interleave, a        *)
(* message is one job, but for the moment the scan moves it; a message is  *)
(* without a job for good only if a scan was cut off between its remove    *)
(* and its add, and then it never gets one again (requeueFailedJobs).      *)
THEOREM MessagesKeepTheirJob == Spec => []OneJobPerMessage
<1>1. Init => Present
  <2>1. ASSUME Init, NEW m \in Messages PROVE \E r \in Rounds : job[<<m, r>>].status # "absent"
    <3>1. 0 \in Rounds /\ <<m, 0>> \in Keys
      BY SendingAssumption DEF Rounds, Keys
    <3>2. job[<<m, 0>>].status = "waiting"
      BY <2>1, <3>1 DEF Init, NewJob
    <3>. QED BY <3>1, <3>2
  <2>2. Init => dropped = {}
    BY DEF Init
  <2>. QED BY <2>1, <2>2 DEF Present
<1>2. Present /\ IInv /\ [Next]_vars => Present'
  BY NextKeepsPresent
<1>3. IInv /\ Present => OneJobPerMessage
  <2> SUFFICES ASSUME IInv, Present, NEW m \in Messages
               PROVE  Cardinality(Known(m)) = (IF BetweenRounds(m) \/ m \in dropped THEN 0 ELSE 1)
    BY DEF OneJobPerMessage
  <2>1. Typed /\ Requeueing
    BY DEF IInv
  <2>2. BetweenRounds(m) <=> (scan = "add" /\ batch[1][1] = m)
    BY <2>1, BatchTyping DEF BetweenRounds, Requeueing
  <2>3. CASE BetweenRounds(m) \/ m \in dropped
    <3>1. Known(m) = {}
      BY <2>1, <2>2, <2>3 DEF Known, Requeueing, Present
    <3>. QED BY <2>3, <3>1, FS_EmptySet
  <2>4. CASE ~(BetweenRounds(m) \/ m \in dropped)
    <3>1. PICK r \in Rounds : job[<<m, r>>].status # "absent"
      BY <2>2, <2>4 DEF Present
    <3>2. Known(m) = {r}
      BY <2>1, <3>1 DEF Known, Requeueing
    <3>. QED BY <2>4, <3>2, FS_Singleton
  <2>. QED BY <2>3, <2>4
<1>. QED BY <1>1, <1>2, <1>3, Inductive, PTL DEF Spec

-----------------------------------------------------------------------------
(* No message posted more often than its mishaps explain.                  *)

\* The worker will still make the call for the message, or put its job back:
\* it is before the call, or holds the lock of a job whose call asks for another.
Engaged(w, m) ==
  /\ pc[w] # "idle" /\ at[w][1] = m
  /\ \/ pc[w] \in BeforeTheCall
     \/ /\ pc[w] \in {"count", "trip", "flag", "logFailed"} /\ result[w] # "answered"
        /\ job[at[w]].lock = w

\* A job of the message is there for the next worker, or for the next round.
Ready(m) ==
  \/ \E r \in Rounds : job[<<m, r>>].status \in {"waiting", "failed"}
  \/ scan = "add" /\ batch[1][1] = m

Crew(m) == {w \in Workers : Engaged(w, m)}
Will(w, m) == IF Engaged(w, m) THEN 1 ELSE 0
Waits(m) == IF Ready(m) THEN 1 ELSE 0

\* What was posted and what may still be posted is one, and one for each mishap.
Accounted ==
  \A m \in Messages : posts[m] + Cardinality(Crew(m)) + Waits(m) <= 1 + mishaps[m]

\* A step of w that adds no post, no worker and no job beyond what it gives up.
Even(w, m) ==
  posts'[m] + Will(w, m)' + Waits(m)' + mishaps[m] <= posts[m] + Will(w, m) + Waits(m) + mishaps'[m]

Balanced(w) ==
  /\ \A o \in Workers \ {w}, m \in Messages : Engaged(o, m)' <=> Engaged(o, m)
  /\ \A m \in Messages : Even(w, m)

(* The workers of a message are w, if it is one of them, and the others.   *)
LEMMA CrewCounts ==
  ASSUME NEW S \in SUBSET Workers, NEW w
  PROVE  /\ Cardinality(S) \in Nat /\ Cardinality(S \ {w}) \in Nat
         /\ Cardinality(S) = Cardinality(S \ {w}) + (IF w \in S THEN 1 ELSE 0)
<1>1. IsFiniteSet(S)
  BY SendingAssumption, FS_Subset
<1>2. IsFiniteSet(S \ {w}) /\ Cardinality(S \ {w}) = IF w \in S THEN Cardinality(S) - 1 ELSE Cardinality(S)
  BY <1>1, FS_RemoveElement
<1>3. Cardinality(S) \in Nat /\ Cardinality(S \ {w}) \in Nat
  BY <1>1, <1>2, FS_CardinalityType
<1>. QED BY <1>2, <1>3

LEMMA BalancedKeepsAccounted ==
  ASSUME Typed, Typed', Accounted, NEW w \in Workers, Balanced(w)
  PROVE  Accounted'
<1> SUFFICES ASSUME NEW m \in Messages
             PROVE  posts'[m] + Cardinality(Crew(m)') + Waits(m)' <= 1 + mishaps'[m]
  BY DEF Accounted
<1>1. PICK S, T : S = Crew(m) /\ T = Crew(m)'
  OBVIOUS
<1>2. /\ S \in SUBSET Workers /\ T \in SUBSET Workers
      /\ (w \in S <=> Engaged(w, m)) /\ (w \in T <=> Engaged(w, m)')
  BY <1>1 DEF Crew
<1>3. S \ {w} = T \ {w}
  BY <1>1 DEF Crew, Balanced
<1>4. PICK n \in Nat : n = Cardinality(S \ {w})
  BY <1>2, CrewCounts
<1>5. Cardinality(S) = n + Will(w, m) /\ Cardinality(T) = n + Will(w, m)'
  BY <1>2, <1>3, <1>4, CrewCounts DEF Will
<1>6. /\ posts[m] \in Nat /\ posts'[m] \in Nat /\ mishaps[m] \in Nat /\ mishaps'[m] \in Nat
      /\ Will(w, m) \in Nat /\ Will(w, m)' \in Nat /\ Waits(m) \in Nat /\ Waits(m)' \in Nat
  BY DEF Typed, TypeOK, Will, Waits
<1>7. posts[m] + Cardinality(S) + Waits(m) <= 1 + mishaps[m]
  BY <1>1 DEF Accounted
<1>8. Even(w, m)
  BY DEF Balanced
<1>9. PICK p, q, a, b, c, d, e, f \in Nat :
        /\ p = posts[m] /\ q = posts'[m] /\ a = mishaps[m] /\ b = mishaps'[m]
        /\ c = Will(w, m) /\ d = Will(w, m)' /\ e = Waits(m) /\ f = Waits(m)'
  BY <1>6
<1>10. q + (n + d) + f <= 1 + b
  <2>1. p + (n + c) + e <= 1 + a
    BY <1>5, <1>7, <1>9
  <2>2. q + d + f + a <= p + c + e + b
    BY <1>8, <1>9 DEF Even
  <2>. QED BY <2>1, <2>2
<1>. QED BY <1>1, <1>5, <1>9, <1>10

\* What a step of w leaves to the others: their steps, the jobs of other keys,
\* and the locks.
Local(w) ==
  /\ \A o \in Workers \ {w} : pc'[o] = pc[o] /\ at'[o] = at[o] /\ result'[o] = result[o]
  /\ pc'[w] = "idle" \/ at'[w] = at[w]
  /\ \A k \in Keys \ {at[w]} : job'[k] = job[k]
  /\ \A o \in Workers \ {w} : job'[at[w]].lock = o <=> job[at[w]].lock = o
  /\ \A m \in Messages \ {at[w][1]} : posts'[m] = posts[m] /\ mishaps'[m] = mishaps[m]
  /\ UNCHANGED <<scan, batch>>

LEMMA LocalBalances ==
  ASSUME Typed, NEW w \in Workers, pc[w] # "idle", Local(w), NEW n, n = at[w][1], Even(w, n)
  PROVE  Balanced(w)
<1>1. ASSUME NEW o \in Workers \ {w}, NEW m \in Messages
      PROVE  Engaged(o, m)' <=> Engaged(o, m)
  <2>1. pc'[o] = pc[o] /\ at'[o] = at[o] /\ result'[o] = result[o]
    BY DEF Local
  <2>2. pc[o] # "idle" => (job'[at[o]].lock = o <=> job[at[o]].lock = o)
    BY DEF Local, Typed, Busy
  <2>. QED BY <2>1, <2>2 DEF Engaged
<1>2. ASSUME NEW m \in Messages, m # n
      PROVE  Even(w, m)
  <2>1. ~Engaged(w, m) /\ ~Engaged(w, m)'
    BY <1>2 DEF Engaged, Local
  <2>2. \A r \in Rounds : <<m, r>> \in Keys /\ <<m, r>> # at[w]
    BY <1>2 DEF Keys
  <2>3. Ready(m)' <=> Ready(m)
    BY <2>2 DEF Ready, Local
  <2>4. posts'[m] = posts[m] /\ mishaps'[m] = mishaps[m] /\ posts[m] \in Nat /\ mishaps[m] \in Nat
    BY <1>2 DEF Local, Typed, TypeOK
  <2>. QED BY <2>1, <2>3, <2>4 DEF Even, Will, Waits
<1>. QED BY <1>1, <1>2 DEF Balanced

\* The ways a step balances.
LEMMA Balances ==
  ASSUME Typed, NEW w \in Workers, NEW m \in Messages,
         \/ /\ posts'[m] = posts[m] /\ mishaps'[m] = mishaps[m]
            /\ ~Engaged(w, m)' /\ (Ready(m)' => Ready(m) \/ Engaged(w, m))
         \/ /\ posts'[m] = posts[m] /\ mishaps'[m] = mishaps[m]
            /\ (Engaged(w, m)' => Engaged(w, m)) /\ (Ready(m)' => Ready(m))
         \/ /\ posts'[m] = posts[m] + 1 /\ mishaps'[m] = mishaps[m]
            /\ Engaged(w, m) /\ ~Engaged(w, m)' /\ (Ready(m)' => Ready(m))
         \/ /\ posts'[m] = posts[m] + 1 /\ mishaps'[m] = mishaps[m] + 1
            /\ Engaged(w, m) /\ (Ready(m)' => Ready(m))
         \/ /\ posts'[m] = posts[m] /\ mishaps'[m] = mishaps[m] + 1
            /\ (Ready(m)' => Ready(m)) \/ (Engaged(w, m)' => Engaged(w, m))
  PROVE  Even(w, m)
<1>1. posts[m] \in Nat /\ mishaps[m] \in Nat
  BY DEF Typed, TypeOK
<1>. QED BY <1>1 DEF Even, Will, Waits

(* What letting go of a job, or of its lock, leaves to the others; the job *)
(* is there for the next worker only if it went back with its lock.        *)
LEMMA ReleaseIsLocal ==
  ASSUME Typed, NEW w \in Workers, pc[w] # "idle", UNCHANGED <<scan, batch>>,
         \/ Finish(w) \/ Retry(w) \/ job' = Unlocked(w) \/ job' = job
  PROVE  /\ \A o \in Keys \ {at[w]} : job'[o] = job[o]
         /\ \A o \in Workers \ {w} : job'[at[w]].lock = o <=> job[at[w]].lock = o
         /\ \A m \in Messages : /\ Finish(w) \/ job' = job \/ job[at[w]].lock # w
                                /\ Ready(m)'
                                => Ready(m)
         /\ job' = Unlocked(w) => job'[at[w]].lock # w
<1>1. at[w] \in Keys /\ job \in [Keys -> Job] /\ NoWorker \notin Workers
  BY SendingAssumption DEF Typed, TypeOK, Busy
<1>2. PICK k, j : k = at[w] /\ j = job[k]
  OBVIOUS
<1>3. j \in Job /\ k \in Keys
  BY <1>1, <1>2
<1>4. /\ j.lock = w => Returned(j, w).status = "completed" /\ Returned(j, w).lock = NoWorker
      /\ j.lock = w => Threw(j, w).lock = NoWorker
      /\ j.lock = w => Stalled(j).lock = NoWorker
      /\ j.lock # w => Returned(j, w) = j /\ Threw(j, w) = j
  BY <1>3 DEF Returned, Threw, Stalled, Job
<1>5. PICK i \in {Returned(j, w), Threw(j, w), IF j.lock = w THEN Stalled(j) ELSE j, j} :
        /\ job' = [job EXCEPT ![k] = i]
        /\ Finish(w) => i = Returned(j, w)
        /\ job' = Unlocked(w) => i = IF j.lock = w THEN Stalled(j) ELSE j
        /\ job' = job => i = j
  <2>1. CASE Finish(w) /\ job' # job /\ job' # Unlocked(w)
    BY <1>2, <2>1 DEF Finish
  <2>2. CASE Retry(w) /\ ~Finish(w) /\ job' # job /\ job' # Unlocked(w)
    BY <1>2, <2>2 DEF Retry
  <2>3. CASE job' = Unlocked(w) /\ ~Finish(w) /\ job' # job
    BY <1>2, <2>3 DEF Unlocked
  <2>4. CASE job' = job \/ (Finish(w) /\ job' = Unlocked(w))
    <3>1. job' = job => job' = [job EXCEPT ![k] = j]
      BY <1>1, <1>2
    <3>2. job' = Unlocked(w) => job' = [job EXCEPT ![k] = IF j.lock = w THEN Stalled(j) ELSE j]
      BY <1>2 DEF Unlocked
    <3>3. Finish(w) => job' = [job EXCEPT ![k] = Returned(j, w)]
      BY <1>2 DEF Finish
    <3>4. /\ job' = job => job'[k] = j
          /\ job' = Unlocked(w) => job'[k] = IF j.lock = w THEN Stalled(j) ELSE j
          /\ Finish(w) => job'[k] = Returned(j, w)
      BY <1>1, <1>3, <3>1, <3>2, <3>3
    <3>. QED BY <2>4, <3>1, <3>2, <3>3, <3>4
  <2>. QED BY <2>1, <2>2, <2>3, <2>4
<1>6. job'[k] = i /\ \A o \in Keys \ {k} : job'[o] = job[o]
  BY <1>1, <1>3, <1>5
<1>7. \A o \in Workers \ {w} : i.lock = o <=> j.lock = o
  BY <1>1, <1>4, <1>5
<1>8. ASSUME NEW m \in Messages, Finish(w) \/ job' = job \/ j.lock # w, Ready(m)'
      PROVE  Ready(m)
  <2>1. i = j \/ i.status = "completed"
    BY <1>4, <1>5, <1>8
  <2>2. \A r \in Rounds : <<m, r>> \in Keys
    BY DEF Keys
  <2>3. \A r \in Rounds : job'[<<m, r>>].status \in {"waiting", "failed"}
                            => job[<<m, r>>].status \in {"waiting", "failed"}
    BY <1>2, <1>6, <2>1, <2>2
  <2>. QED BY <1>8, <2>3 DEF Ready
<1>9. job' = Unlocked(w) => i.lock # w
  BY <1>1, <1>4, <1>5
<1>. QED BY <1>2, <1>6, <1>7, <1>8, <1>9

LEMMA WorkerBalances ==
  ASSUME Typed, Typed', Requeueing, NEW w \in Workers,
         \/ WorkerStep(w) \/ GuardFails(w) \/ AfterSendFails(w) \/ CatchFails(w)
         \/ Crash(w) \/ LockLost(w)
         \/ \E k \in Keys : Claim(w, k)
  PROVE  Balanced(w)
<1> USE DEF accountVars, queueVars, workVars, scanVars, metaVars, histories
<1>1. /\ job \in [Keys -> Job] /\ pc \in [Workers -> Steps] /\ posts \in [Messages -> Nat]
      /\ mishaps \in [Messages -> Nat] /\ at \in [Workers -> Keys \cup {NoKey}]
      /\ result \in [Workers -> {"none", "ok", "limited", "answered", "unanswered"}]
  BY DEF Typed, TypeOK, Steps
<1>2. PICK n, k : n = at[w][1] /\ k = at[w]
  OBVIOUS
<1>3. pc[w] # "idle" => n \in Messages /\ k \in Keys
  BY <1>2 DEF Typed, Busy, Keys
<1>4. ASSUME pc[w] # "idle", UNCHANGED <<scan, batch, posts, mishaps>>, Finish(w)
      PROVE  Balanced(w)
  <2>1. Local(w) /\ pc'[w] = "idle" /\ (Ready(n)' => Ready(n))
    BY <1>2, <1>3, <1>4, RestTyping, ReleaseIsLocal DEF Finish, Local
  <2>2. Even(w, n)
    BY <1>3, <1>4, <2>1, Balances DEF Engaged
  <2>. QED BY <1>2, <1>4, <2>1, <2>2, LocalBalances
<1>5. ASSUME pc[w] # "idle", UNCHANGED <<scan, batch, posts, mishaps>>, Rest(w),
             Retry(w) \/ job' = Unlocked(w), job[k].lock = w => Engaged(w, n)
      PROVE  Balanced(w)
  <2>1. Local(w) /\ pc'[w] = "idle" /\ (Ready(n)' => Ready(n) \/ Engaged(w, n))
    BY <1>2, <1>3, <1>5, RestTyping, ReleaseIsLocal DEF Local
  <2>2. Even(w, n)
    BY <1>3, <1>5, <2>1, Balances DEF Engaged
  <2>. QED BY <1>2, <1>5, <2>1, <2>2, LocalBalances
<1>6. ASSUME pc[w] # "idle", UNCHANGED <<scan, batch, posts>>, Mishap(w),
             Rest(w) \/ UNCHANGED <<pc, at, result>>,
             Retry(w) \/ job' = Unlocked(w)
      PROVE  Balanced(w)
  <2>1. mishaps' = [mishaps EXCEPT ![n] = mishaps[n] + 1]
    BY <1>2, <1>6 DEF Mishap
  <2>2. mishaps'[n] = mishaps[n] + 1 /\ \A m \in Messages \ {n} : mishaps'[m] = mishaps[m]
    BY <1>1, <1>3, <1>6, <2>1
  <2>3. Local(w)
    BY <1>2, <1>6, <2>2, RestTyping, ReleaseIsLocal DEF Local
  <2>4. Engaged(w, n)' => Engaged(w, n)
    <3>1. CASE Rest(w)
      BY <3>1, RestTyping DEF Engaged
    <3>2. CASE ~Rest(w)
      <4>1. job'[at[w]].lock # w
        BY <1>6, <3>2, ReleaseIsLocal DEF Retry
      <4>. QED BY <1>6, <3>2, <4>1 DEF Engaged
    <3>. QED BY <3>1, <3>2
  <2>5. Even(w, n)
    BY <1>3, <1>6, <2>2, <2>4, Balances
  <2>. QED BY <1>2, <1>6, <2>3, <2>5, LocalBalances
<1>7. ASSUME pc[w] # "idle", UNCHANGED <<scan, batch, posts, mishaps, job, result>>,
             NEW step \in Steps, Goto(w, step),
             \/ step \in BeforeTheCall /\ pc[w] \in BeforeTheCall
             \/ step \in {"clear", "activate"}
             \/ /\ step \in {"trip", "flag", "logFailed"}
                /\ pc[w] \in {"count", "trip", "flag", "logFailed"}
      PROVE  Balanced(w)
  <2>1. pc'[w] = step /\ at' = at /\ \A o \in Workers \ {w} : pc'[o] = pc[o]
    BY <1>1, <1>7 DEF Goto
  <2>2. Local(w)
    BY <1>7, <2>1 DEF Local
  <2>3. Engaged(w, n)' => Engaged(w, n)
    <3>1. step \in {"clear", "activate"} => ~Engaged(w, n)'
      BY <2>1 DEF Engaged, BeforeTheCall
    <3>2. step \in BeforeTheCall /\ pc[w] \in BeforeTheCall => Engaged(w, n)
      BY <1>2, <1>7 DEF Engaged
    <3>3. /\ step \in {"trip", "flag", "logFailed"}
          /\ pc[w] \in {"count", "trip", "flag", "logFailed"}
          => (Engaged(w, n)' => Engaged(w, n))
      BY <1>7, <2>1 DEF Engaged, BeforeTheCall
    <3>. QED BY <1>7, <3>1, <3>2, <3>3
  <2>4. Ready(n)' => Ready(n)
    BY <1>7 DEF Ready
  <2>5. Even(w, n)
    BY <1>3, <1>7, <2>3, <2>4, Balances
  <2>. QED BY <1>2, <1>7, <2>2, <2>5, LocalBalances
<1>8. pc[w] \in BeforeTheCall => Engaged(w, n) /\ pc[w] # "idle"
  BY <1>2 DEF Engaged, BeforeTheCall
<1>9. CASE CheckBreaker(w)
  <2>1. pc[w] = "breaker" /\ UNCHANGED <<posts, scan, batch, mishaps>>
    BY <1>9 DEF CheckBreaker
  <2>2. CASE open
    BY <1>5, <1>8, <1>9, <2>1, <2>2 DEF CheckBreaker, BeforeTheCall, Retry
  <2>3. CASE ~open
    BY <1>7, <1>9, <2>1, <2>3 DEF CheckBreaker, BeforeTheCall, Steps
  <2>. QED BY <2>2, <2>3
<1>10. CASE Consume(w)
  <2>1. pc[w] = "limit" /\ UNCHANGED <<posts, scan, batch, mishaps>>
    BY <1>10 DEF Consume
  <2>2. CASE used' > Limit
    BY <1>5, <1>8, <1>10, <2>1, <2>2 DEF Consume, BeforeTheCall, Retry
  <2>3. CASE ~(used' > Limit)
    BY <1>7, <1>10, <2>1, <2>3 DEF Consume, BeforeTheCall, Steps
  <2>. QED BY <2>2, <2>3
<1>11. CASE Credentials(w)
  <2>1. pc[w] = "credentials" /\ UNCHANGED <<posts, scan, batch, mishaps>>
    BY <1>11 DEF Credentials
  <2>2. CASE status \in Blocked
    BY <1>4, <1>11, <2>1, <2>2 DEF Credentials
  <2>3. CASE status \notin Blocked
    BY <1>7, <1>11, <2>1, <2>3 DEF Credentials, BeforeTheCall, Steps
  <2>. QED BY <2>2, <2>3
<1>12. CASE GuardFails(w)
  BY <1>5, <1>8, <1>12 DEF GuardFails, BeforeTheCall, Retry
<1>13. ASSUME NEW x \in Outcomes, Post(w, x)
       PROVE  Balanced(w)
  <2>1. pc[w] = "post" /\ UNCHANGED <<job, at, scan, batch>> /\ n \in Messages
    BY <1>3, <1>13 DEF Post, Goto
  <2>2. PICK step, ending : step = (IF x = "ok" THEN "logSent" ELSE "count") /\ ending = Seen(x)
    OBVIOUS
  <2>3. /\ pc' = [pc EXCEPT ![w] = step] /\ result' = [result EXCEPT ![w] = ending]
        /\ posts' = IF x \in {"ok", "ambiguous", "lost"} THEN [posts EXCEPT ![n] = posts[n] + 1] ELSE posts
        /\ mishaps' = IF x = "lost" THEN [mishaps EXCEPT ![n] = mishaps[n] + 1] ELSE mishaps
    BY <1>2, <1>13, <2>2 DEF Post, Goto, Mishap
  <2>4. pc'[w] = step /\ result'[w] = ending
        /\ \A o \in Workers \ {w} : pc'[o] = pc[o] /\ result'[o] = result[o]
    BY <1>1, <2>3
  <2>5. \A m \in Messages \ {n} : posts'[m] = posts[m] /\ mishaps'[m] = mishaps[m]
    BY <1>1, <2>1, <2>3
  <2>6. Local(w)
    BY <1>2, <2>1, <2>4, <2>5 DEF Local
  <2>7. Engaged(w, n) /\ (Ready(n)' => Ready(n))
    BY <1>8, <2>1 DEF BeforeTheCall, Ready
  <2>8. x \in {"ok", "ambiguous"} => ~Engaged(w, n)'
    <3>1. x = "ok" => pc'[w] = "logSent"
      BY <2>2, <2>4
    <3>2. x = "ambiguous" => pc'[w] = "count" /\ result'[w] = "answered"
      BY <2>2, <2>4 DEF Seen
    <3>. QED BY <3>1, <3>2 DEF Engaged, BeforeTheCall
  <2>9. Even(w, n)
    <3>1. CASE x \in {"ok", "ambiguous"}
      <4>1. posts'[n] = posts[n] + 1 /\ mishaps'[n] = mishaps[n]
        BY <1>1, <2>1, <2>3, <3>1
      <4>. QED BY <2>1, <2>7, <2>8, <3>1, <4>1, Balances
    <3>2. CASE x = "lost"
      <4>1. posts'[n] = posts[n] + 1 /\ mishaps'[n] = mishaps[n] + 1
        BY <1>1, <2>1, <2>3, <3>2
      <4>. QED BY <2>1, <2>7, <4>1, Balances
    <3>3. CASE x \notin {"ok", "ambiguous", "lost"}
      <4>1. posts'[n] = posts[n] /\ mishaps'[n] = mishaps[n]
        BY <2>3, <3>3
      <4>. QED BY <2>1, <2>7, <4>1, Balances
    <3>. QED BY <3>1, <3>2, <3>3
  <2>. QED BY <1>2, <2>1, <2>6, <2>9, LocalBalances
<1>14. CASE LogSent(w) \/ ClearBreaker(w)
  BY <1>7, <1>14 DEF LogSent, ClearBreaker, Steps
<1>15. CASE Activate(w)
  BY <1>4, <1>15 DEF Activate
<1>16. CASE CountFailure(w) \/ TripBreaker(w) \/ FlagAccount(w)
  <2>1. /\ pc[w] \in {"count", "trip", "flag"}
        /\ UNCHANGED <<posts, scan, batch, mishaps, job, result>>
    BY <1>16 DEF CountFailure, TripBreaker, FlagAccount
  <2>2. \E step \in {"trip", "flag", "logFailed"} : Goto(w, step)
    BY <1>16 DEF CountFailure, TripBreaker, FlagAccount
  <2>. QED BY <1>7, <2>1, <2>2 DEF Steps
<1>17. ASSUME pc[w] \in {"count", "trip", "flag", "logFailed"}, result[w] # "answered",
              job[k].lock = w
       PROVE  Engaged(w, n)
  BY <1>2, <1>17 DEF Engaged
<1>18. CASE LogFailed(w)
  <2>1. pc[w] = "logFailed" /\ UNCHANGED <<posts, scan, batch, mishaps>>
    BY <1>18 DEF LogFailed
  <2>2. CASE result[w] = "answered"
    BY <1>4, <1>18, <2>1, <2>2 DEF LogFailed
  <2>3. CASE result[w] # "answered"
    <3>1. Retry(w) /\ Rest(w)
      BY <1>18, <2>3 DEF LogFailed, Retry
    <3>. QED BY <1>5, <1>17, <2>1, <2>3, <3>1
  <2>. QED BY <2>2, <2>3
<1>19. CASE CatchFails(w)
  <2>1. /\ pc[w] \in {"count", "trip", "flag", "logFailed"} /\ UNCHANGED <<posts, scan, batch>>
        /\ Retry(w) /\ Rest(w)
    BY <1>19 DEF CatchFails, Retry
  <2>2. CASE result[w] = "answered"
    BY <1>6, <1>19, <2>1, <2>2 DEF CatchFails
  <2>3. CASE result[w] # "answered"
    BY <1>5, <1>17, <1>19, <2>1, <2>3 DEF CatchFails
  <2>. QED BY <2>2, <2>3
<1>20. CASE Crash(w)
  <2>1. CASE pc[w] \in BeforeTheCall
    BY <1>5, <1>8, <1>20, <2>1 DEF Crash
  <2>2. CASE pc[w] \notin BeforeTheCall
    BY <1>6, <1>20, <2>2 DEF Crash
  <2>. QED BY <2>1, <2>2
<1>21. CASE LockLost(w)
  <2>1. pc[w] # "idle" /\ UNCHANGED <<scan, batch, posts, pc, at, result>> /\ Mishap(w)
        /\ job' = Unlocked(w)
    BY <1>21 DEF LockLost
  <2>. QED BY <1>6, <2>1
<1>22. CASE AfterSendFails(w)
  <2>1. pc[w] # "idle" /\ Goto(w, "count") /\ Mishap(w) /\ UNCHANGED <<posts, job, scan, batch>>
        /\ result' = [result EXCEPT ![w] = "unanswered"]
    BY <1>22 DEF AfterSendFails
  <2>2. mishaps' = [mishaps EXCEPT ![n] = mishaps[n] + 1]
    BY <1>2, <2>1 DEF Mishap
  <2>3. mishaps'[n] = mishaps[n] + 1 /\ \A m \in Messages \ {n} : mishaps'[m] = mishaps[m]
    BY <1>1, <1>3, <2>1, <2>2
  <2>4. at' = at /\ \A o \in Workers \ {w} : pc'[o] = pc[o] /\ result'[o] = result[o]
    BY <1>1, <2>1 DEF Goto
  <2>5. Local(w) /\ (Ready(n)' => Ready(n))
    BY <1>2, <2>1, <2>3, <2>4 DEF Local, Ready
  <2>6. Even(w, n)
    BY <1>3, <2>1, <2>3, <2>5, Balances
  <2>. QED BY <1>2, <2>1, <2>5, <2>6, LocalBalances
<1>23. ASSUME NEW c \in Keys, Claim(w, c)
       PROVE  Balanced(w)
  <2>1. PICK j, i : j = job[c] /\ i = Claimed(j, w)
    OBVIOUS
  <2>2. /\ j \in Job /\ j.status = "waiting" /\ pc[w] = "idle"
        /\ UNCHANGED <<posts, mishaps, scan, batch, result>>
        /\ job' = [job EXCEPT ![c] = i] /\ pc' = [pc EXCEPT ![w] = "breaker"]
        /\ at' = [at EXCEPT ![w] = c]
    BY <1>1, <1>23, <2>1 DEF Claim
  <2>3. i.status = "active" /\ i.lock = w /\ j.lock \notin Workers
    <3>1. \A o \in Workers : j.lock = o => j.status = "active"
      BY <2>2, JobMoves
    <3>. QED BY <2>1, <2>2, <3>1, JobMoves
  <2>4. /\ pc'[w] = "breaker" /\ at'[w] = c
        /\ \A o \in Workers \ {w} : pc'[o] = pc[o] /\ at'[o] = at[o]
    BY <1>1, <2>2
  <2>5. job'[c] = i /\ \A o \in Keys \ {c} : job'[o] = job[o]
    BY <1>1, <2>2
  <2>6. ASSUME NEW o \in Workers \ {w}, NEW m \in Messages
        PROVE  Engaged(o, m)' <=> Engaged(o, m)
    <3>1. pc[o] # "idle" => (job'[at[o]].lock = o <=> job[at[o]].lock = o)
      BY <2>1, <2>3, <2>5 DEF Typed, Busy
    <3>. QED BY <2>2, <2>4, <3>1 DEF Engaged
  <2>7. c = <<c[1], c[2]>> /\ c[1] \in Messages /\ c[2] \in Rounds
    BY DEF Keys
  <2>8. PICK q, r : q = c[1] /\ r = c[2]
    OBVIOUS
  <2>9. \A s \in Rounds : s # r => job[<<q, s>>].status = "absent"
    BY <2>1, <2>2, <2>7, <2>8 DEF Requeueing
  <2>10. ~Ready(q)'
    <3>1. \A s \in Rounds : s # r => <<q, s>> \in Keys \ {c}
      BY <2>7, <2>8 DEF Keys
    <3>2. \A s \in Rounds : job'[<<q, s>>].status \notin {"waiting", "failed"}
      BY <2>3, <2>5, <2>7, <2>8, <2>9, <3>1
    <3>3. scan = "add" => batch[1][1] # q
      BY <2>1, <2>2, <2>7, <2>8 DEF Requeueing
    <3>. QED BY <2>2, <3>2, <3>3 DEF Ready
  <2>11. Ready(q) /\ ~Engaged(w, q)
    BY <2>1, <2>2, <2>7, <2>8 DEF Ready, Engaged
  <2>12. ASSUME NEW m \in Messages PROVE Even(w, m)
    <3>1. posts[m] \in Nat /\ mishaps[m] \in Nat /\ posts'[m] = posts[m] /\ mishaps'[m] = mishaps[m]
      BY <1>1, <2>2
    <3>2. CASE m = q
      BY <2>10, <2>11, <3>1, <3>2 DEF Even, Will, Waits
    <3>3. CASE m # q
      <4>1. ~Engaged(w, m)'
        BY <2>4, <2>8, <3>3 DEF Engaged
      <4>2. \A s \in Rounds : <<m, s>> \in Keys \ {c}
        BY <2>7, <2>8, <3>3 DEF Keys
      <4>3. Ready(m)' => Ready(m)
        BY <2>2, <2>5, <4>2 DEF Ready
      <4>. QED BY <3>1, <4>1, <4>3, Balances
    <3>. QED BY <3>2, <3>3
  <2>. QED BY <2>6, <2>12 DEF Balanced
<1>. QED
  BY <1>9, <1>10, <1>11, <1>12, <1>13, <1>14, <1>15, <1>16, <1>18, <1>19, <1>20, <1>21, <1>22, <1>23
  DEF WorkerStep

(* The scan only moves a job that is to run again, and drops it at worst.  *)
LEMMA OtherKeepsAccounted ==
  ASSUME Typed, Typed', Requeueing, Accounted,
         \/ ScanStep \/ ScanCrash \/ CloseBreaker \/ ForgetFailures \/ NewWindow \/ Reconnect
         \/ \E reason \in Blocked : Block(reason)
  PROVE  Accounted'
<1> USE DEF accountVars, queueVars, workVars, scanVars, metaVars, histories
<1>1. /\ job \in [Keys -> Job] /\ posts \in [Messages -> Nat] /\ mishaps \in [Messages -> Nat]
      /\ UNCHANGED <<pc, at, result, posts, mishaps>>
  BY DEF Typed, TypeOK, ScanStep, ScanStart, ScanSkip, ScanRemove, ScanAdd, ScanEnd, ScanCrash,
         CloseBreaker, ForgetFailures, NewWindow, Reconnect, Block
<1>2. ASSUME \A k \in Keys, w \in Workers : job'[k].lock = w <=> job[k].lock = w,
             \A m \in Messages : Ready(m)' => Ready(m)
      PROVE  Accounted'
  <2>1. \A m \in Messages, w \in Workers : Engaged(w, m)' <=> Engaged(w, m)
    BY <1>1, <1>2 DEF Engaged, Typed, Busy
  <2>2. SUFFICES ASSUME NEW m \in Messages
                 PROVE  posts'[m] + Cardinality(Crew(m)') + Waits(m)' <= 1 + mishaps'[m]
    BY DEF Accounted
  <2>3. PICK S : S = Crew(m)
    OBVIOUS
  <2>4. Crew(m)' = S /\ S \in SUBSET Workers
    BY <2>1, <2>3 DEF Crew
  <2>5. Cardinality(S) \in Nat
    BY <2>4, CrewCounts
  <2>6. posts[m] + Cardinality(S) + Waits(m) <= 1 + mishaps[m]
    BY <2>3 DEF Accounted
  <2>. QED BY <1>1, <1>2, <2>4, <2>5, <2>6 DEF Waits
<1>3. CASE job' = job /\ scan' # "add"
  BY <1>2, <1>3 DEF Ready
<1>4. CASE UNCHANGED <<job, scan, batch>>
  BY <1>2, <1>4 DEF Ready
<1>5. ASSUME NEW k \in Keys, NEW j \in Job, job' = [job EXCEPT ![k] = j],
             j.status # "active", job[k].status # "active"
      PROVE  /\ \A o \in Keys, w \in Workers : job'[o].lock = w <=> job[o].lock = w
             /\ job'[k] = j /\ \A o \in Keys \ {k} : job'[o] = job[o]
  <2>1. job'[k] = j /\ \A o \in Keys \ {k} : job'[o] = job[o]
    BY <1>1, <1>5
  <2>2. PICK i : i = job[k]
    OBVIOUS
  <2>3. i \in Job /\ i.status # "active"
    BY <1>1, <1>5, <2>2
  <2>4. \A w \in Workers : i.lock # w /\ j.lock # w
    BY <1>5, <2>3, JobMoves
  <2>. QED BY <2>1, <2>2, <2>4
<1>6. CASE ScanRemove
  <2>1. /\ batch # <<>> /\ batch' = batch /\ scan # "add" /\ Head(batch) = batch[1]
        /\ batch[1] \in Keys /\ 1 \in DOMAIN batch /\ scan' = "add"
    BY <1>6, BatchTyping DEF ScanRemove
  <2>2. PICK k : k = batch[1]
    OBVIOUS
  <2>3. job[k].status = "failed" /\ k \in Keys /\ NoJob \in Job /\ NoJob.status = "absent"
    BY <2>1, <2>2, SendingAssumption DEF Requeueing, NoJob, Job, JobStatus
  <2>4. job' = [job EXCEPT ![k] = NoJob]
    BY <1>6, <2>1, <2>2 DEF ScanRemove
  <2>5. /\ \A o \in Keys, w \in Workers : job'[o].lock = w <=> job[o].lock = w
        /\ \A o \in Keys \ {k} : job'[o] = job[o]
    BY <1>5, <2>3, <2>4
  <2>6. ASSUME NEW m \in Messages, Ready(m)' PROVE Ready(m)
    <3>1. k = <<k[1], k[2]>> /\ k[1] \in Messages /\ k[2] \in Rounds
      BY <2>3 DEF Keys
    <3>2. CASE m = k[1]
      BY <2>3, <3>1, <3>2 DEF Ready
    <3>3. CASE m # k[1]
      <4>1. \A r \in Rounds : <<m, r>> \in Keys \ {k}
        BY <3>1, <3>3 DEF Keys
      <4>. QED BY <2>1, <2>2, <2>5, <2>6, <3>3, <4>1 DEF Ready
    <3>. QED BY <3>2, <3>3
  <2>. QED BY <1>2, <2>5, <2>6
<1>7. CASE ScanAdd
  <2>1. /\ batch # <<>> /\ scan = "add" /\ scan' = "walk" /\ Head(batch) = batch[1]
        /\ batch[1] \in Keys /\ batch[1][2] < MaxRounds
    BY <1>7, BatchTyping DEF ScanAdd, Requeueing
  <2>2. PICK m, r, k : m = batch[1][1] /\ r = batch[1][2] + 1 /\ k = <<m, r>>
    OBVIOUS
  <2>3. m \in Messages /\ r \in Rounds
    <3>1. batch[1][2] \in 0..MaxRounds /\ batch[1][1] \in Messages
      BY <2>1 DEF Keys, Rounds
    <3>. QED BY <2>1, <2>2, <3>1, SendingAssumption DEF Rounds
  <2>4. k \in Keys /\ job[k].status = "absent"
    BY <2>1, <2>2, <2>3 DEF Keys, Requeueing
  <2>5. Added(job[k]) = NewJob /\ NewJob \in Job /\ NewJob.status = "waiting"
    BY <2>4, SendingAssumption DEF Added, NewJob, Job, JobStatus
  <2>6. job' = [job EXCEPT ![k] = NewJob]
    BY <1>7, <2>1, <2>2, <2>5 DEF ScanAdd
  <2>7. /\ \A o \in Keys, w \in Workers : job'[o].lock = w <=> job[o].lock = w
        /\ \A o \in Keys \ {k} : job'[o] = job[o]
    BY <1>5, <2>4, <2>5, <2>6
  <2>8. ASSUME NEW o \in Messages, Ready(o)' PROVE Ready(o)
    <3>1. CASE o = m
      BY <2>1, <2>2, <3>1 DEF Ready
    <3>2. CASE o # m
      <4>1. \A s \in Rounds : <<o, s>> \in Keys \ {k}
        BY <2>2, <2>3, <2>8, <3>2 DEF Keys
      <4>. QED BY <2>1, <2>7, <2>8, <4>1 DEF Ready
    <3>. QED BY <3>1, <3>2
  <2>. QED BY <1>2, <2>7, <2>8
<1>8. \/ job' = job /\ scan' # "add"
      \/ UNCHANGED <<job, scan, batch>>
      \/ ScanRemove \/ ScanAdd
  BY DEF ScanStep, ScanStart, ScanSkip, ScanEnd, ScanCrash,
         CloseBreaker, ForgetFailures, NewWindow, Reconnect, Block
<1>. QED BY <1>3, <1>4, <1>6, <1>7, <1>8

(* However often a send is retried, requeued and run by two workers, Meta  *)
(* carries it out once, and at most once more for each answer lost, each   *)
(* write that failed after an answer, each worker that stopped after the   *)
(* call and each lock lost (send's catch block, requeueFailedJobs).        *)
THEOREM SentAtMostOnce == Spec => []PostedAtMostOnce
<1>1. Init => Accounted
  <2> SUFFICES ASSUME Init, NEW m \in Messages
               PROVE  posts[m] + Cardinality(Crew(m)) + Waits(m) <= 1 + mishaps[m]
    BY DEF Accounted
  <2>1. Crew(m) = {}
    BY DEF Init, Crew, Engaged
  <2>2. Cardinality(Crew(m)) = 0
    BY <2>1, FS_EmptySet
  <2>3. posts[m] = 0 /\ mishaps[m] = 0
    BY DEF Init
  <2>. QED BY <2>2, <2>3 DEF Waits
<1>2. IInv /\ IInv' /\ Accounted /\ [Next]_vars => Accounted'
  <2> SUFFICES ASSUME IInv, IInv', Accounted, [Next]_vars PROVE Accounted'
    OBVIOUS
  <2>1. Typed /\ Typed' /\ Requeueing
    BY DEF IInv
  <2>2. CASE \E w \in Workers :
               \/ WorkerStep(w) \/ GuardFails(w) \/ AfterSendFails(w) \/ CatchFails(w)
               \/ Crash(w) \/ LockLost(w)
               \/ \E k \in Keys : Claim(w, k)
    BY <2>1, <2>2, WorkerBalances, BalancedKeepsAccounted
  <2>3. CASE \/ ScanStep \/ ScanCrash \/ CloseBreaker \/ ForgetFailures \/ NewWindow \/ Reconnect
             \/ \E reason \in Blocked : Block(reason)
    BY <2>1, <2>3, OtherKeepsAccounted
  <2>4. CASE UNCHANGED vars
    BY <2>4 DEF Accounted, Crew, Waits, Engaged, Ready, vars, accountVars, queueVars, workVars,
                scanVars, metaVars, histories
  <2>. QED BY <2>2, <2>3, <2>4 DEF Next
<1>3. IInv /\ Accounted => PostedAtMostOnce
  <2> SUFFICES ASSUME IInv, Accounted, NEW m \in Messages PROVE posts[m] <= 1 + mishaps[m]
    BY DEF PostedAtMostOnce
  <2>1. PICK S : S = Crew(m)
    OBVIOUS
  <2>2. Cardinality(S) \in Nat
    BY <2>1, CrewCounts DEF Crew
  <2>3. posts[m] + Cardinality(S) + Waits(m) <= 1 + mishaps[m]
    BY <2>1 DEF Accounted
  <2>4. posts[m] \in Nat /\ mishaps[m] \in Nat /\ Waits(m) \in {0, 1}
    BY DEF IInv, Typed, TypeOK, Waits
  <2>. QED BY <2>2, <2>3, <2>4
<1>. QED BY <1>1, <1>2, <1>3, Inductive, PTL DEF Spec

=============================================================================
