------------------------------- MODULE BullMQ -------------------------------
(***************************************************************************)
(* The job records of a BullMQ queue, as src/ relies on them: BullMQ is a  *)
(* library, so these operators are external.  What src/ decides is the     *)
(* job options (queues/queue.module.ts, lines 30-35): MaxAttempts          *)
(* attempts, failed jobs kept for ever, completed ones removed later.      *)
(*                                                                         *)
(* A job is identified by its custom jobId; a queue is a function from     *)
(* job ids to job records.  "lock" names the worker that holds the job's   *)
(* lock, and is NoWorker for a job nobody is processing.                   *)
(***************************************************************************)
EXTENDS Naturals

CONSTANTS
  MaxAttempts,   \* defaultJobOptions.attempts (5 in the source)
  Workers,       \* worker slots: worker.ts runs in N replicas
  NoWorker       \* the lock of an unclaimed job

JobStatus == {"absent", "waiting", "active", "completed", "failed"}

(* Exactly the active jobs are locked, and a job that may still run has an *)
(* attempt left.                                                           *)
Job ==
  {j \in [status : JobStatus, attempts : 0..MaxAttempts, lock : Workers \cup {NoWorker}] :
     /\ j.status = "active" <=> j.lock # NoWorker
     /\ j.status \in {"waiting", "active"} => j.attempts < MaxAttempts}

NoJob == [status |-> "absent", attempts |-> 0, lock |-> NoWorker]

NewJob == [status |-> "waiting", attempts |-> 0, lock |-> NoWorker]

(* queue.add with a custom jobId: a no-op while that id is known in any    *)
(* state, which is the idempotency the code builds on.                     *)
Added(j) == IF j.status = "absent" THEN NewJob ELSE j

(* A worker takes a waiting job and its lock.                              *)
Claimed(j, w) == [j EXCEPT !.status = "active", !.lock = w]

(* The handler returned.  A worker whose lock was lost changes nothing:    *)
(* the job is no longer its own.                                           *)
Returned(j, w) ==
  IF j.lock = w THEN [j EXCEPT !.status = "completed", !.lock = NoWorker] ELSE j

(* The handler threw: another attempt while the budget lasts, else the     *)
(* failed set, where the job stays (removeOnFail: false).                  *)
Threw(j, w) ==
  IF j.lock = w
    THEN [status   |-> IF j.attempts + 1 < MaxAttempts THEN "waiting" ELSE "failed",
          attempts |-> j.attempts + 1,
          lock     |-> NoWorker]
    ELSE j

(* The lock expired (worker dead, or its event loop blocked): the job goes *)
(* back to the queue without spending an attempt.                          *)
Stalled(j) == [j EXCEPT !.status = "waiting", !.lock = NoWorker]
=============================================================================
