------------------------------- MODULE TradeJobs -------------------------------
(***************************************************************************)
(* The durable job queue of the API (trade_jobs/service.py): transactions  *)
(* that enqueue a job under its idempotency key, the one worker thread     *)
(* that claims, runs and finalises jobs, the immediate strategy run that   *)
(* retires its delayed fallback (strategies/auto_runner.py), the death of  *)
(* the worker thread, and the crash and restart of the process.            *)
(*                                                                         *)
(* The session neither flushes early nor locks what it reads, and the ORM  *)
(* writes the columns that differ from what it loaded: a transaction reads *)
(* a row in one action and merges its columns into a possibly newer row in *)
(* another.  Payloads are left out: a key determines its payload.          *)
(***************************************************************************)
EXTENDS Naturals, FiniteSets

CONSTANTS
    Keys,         \* idempotency keys
    Coalesced,    \* keys enqueued with reactivate_completed: risk recomputes
    Fallback,     \* keys of delayed strategy runs
    Notify,       \* keys of push notifications
    Callers,      \* threads of the API whose transactions enqueue
    MaxAttempts,  \* trade_job_max_attempts
    MaxRequests,  \* bound: transactions that enqueue one key
    MaxCrashes,   \* bound: crashes of the API or of its worker thread
    QuickRestart, \* BOOLEAN: may the API be back before a lock is stale?
    StaleEnqueue  \* BOOLEAN: may the row change between an enqueuer's read
                  \* and its commit?

NoKey == "no key"

ASSUME KeysAssumption ==
    /\ NoKey \notin Keys
    /\ Coalesced \subseteq Keys /\ Fallback \subseteq Keys /\ Notify \subseteq Keys
    /\ Coalesced \cap (Fallback \cup Notify) = {} /\ Fallback \cap Notify = {}
ASSUME BoundsAssumption ==
    /\ MaxAttempts \in Nat \ {0} /\ MaxRequests \in Nat /\ MaxCrashes \in Nat
    /\ QuickRestart \in BOOLEAN /\ StaleEnqueue \in BOOLEAN

\* Enqueued once per order, position or candle, and finished for good.
Plain == Keys \ (Coalesced \cup Fallback)

JobStatus == {"none", "PENDING", "RUNNING", "RETRY", "COMPLETED", "FAILED"}
Pending == {"PENDING", "RETRY"}
Rows == [status : JobStatus, attempts : Nat, rerun : BOOLEAN]

VARIABLES
    job,      \* the committed row of every key: [status, attempts, rerun]
    caller,   \* an enqueuing transaction: [key, read, new], key in Keys if open
    fast,     \* the immediate run of a Fallback key: [pc, read]
    worker,   \* the worker thread: [pc, key, saw, read]; pc "dead" if it died alone
    up,       \* the API process runs
    wanted,   \* committed transactions that asked for the job
    served,   \* how many of them the last finished run had seen
    pushes,   \* push notifications sent
    crashes   \* crashes so far, of the process or of the worker thread

vars == <<job, caller, fast, worker, up, wanted, served, pushes, crashes>>
workVars == <<served, pushes>>

NoRow == [status |-> "none", attempts |-> 0, rerun |-> FALSE]
Idle == [key |-> NoKey, read |-> NoRow, new |-> NoRow]
NoRun == [pc |-> "none", read |-> NoRow]
IdleWorker == [pc |-> "idle", key |-> NoKey, saw |-> 0, read |-> NoRow]

Init ==
    /\ job = [k \in Keys |-> NoRow]
    /\ caller = [c \in Callers |-> Idle]
    /\ fast = [k \in Keys |-> NoRun]
    /\ worker = IdleWorker
    /\ up = TRUE
    /\ wanted = [k \in Keys |-> 0]
    /\ served = [k \in Keys |-> 0]
    /\ pushes = [k \in Keys |-> 0]
    /\ crashes = 0

\* Mutant: every assigned column is written, changed or not.
MergeAllColumns(row, read, new) == new

\* The UPDATE of a flush: the columns of new that differ from what was read.
Merge(row, read, new) ==
    [c \in {"status", "attempts", "rerun"} |-> IF new[c] = read[c] THEN row[c] ELSE new[c]]

Save(k, read, new) == job' = [job EXCEPT ![k] = Merge(job[k], read, new)]

-----------------------------------------------------------------------------
(* Transactions that enqueue.                                              *)

\* Mutant: a finished job is reactivated whoever asks.
RequestedAgain(k, row) ==
    CASE row.status \in Pending -> row
      [] row.status = "RUNNING" -> [row EXCEPT !.rerun = (k \in Coalesced) \/ @]
      [] OTHER -> [NoRow EXCEPT !.status = "PENDING"]

\* What enqueue_trade_job makes of the row it finds.
Requested(k, row) ==
    CASE row.status = "none" -> [NoRow EXCEPT !.status = "PENDING"]
      [] row.status = "RUNNING" /\ k \in Coalesced -> [row EXCEPT !.rerun = TRUE]
      [] row.status \in {"COMPLETED", "FAILED"} /\ k \in Coalesced
            -> [NoRow EXCEPT !.status = "PENDING"]
      [] OTHER -> row

\* enqueue_trade_job.  A second insert of one key waits for the first, fails on
\* it and reads the row again, which is this action taken later.
Enqueue(c, k) ==
    /\ up
    /\ caller[c].key = NoKey
    /\ wanted[k] < MaxRequests
    /\ \A d \in Callers : job[k].status = "none" => caller[d].key # k
    /\ caller' = [caller EXCEPT ![c] =
                     [key |-> k, read |-> job[k], new |-> Requested(k, job[k])]]
    /\ UNCHANGED <<job, fast, worker, up, wanted, workVars, crashes>>

\* The caller's commit, of what it did and of the job; the router starts the
\* immediate run of a strategy job.
Commit(c, k) ==
    /\ caller[c].key = k
    /\ StaleEnqueue \/ job[k] = caller[c].read
    /\ Save(k, caller[c].read, caller[c].new)
    /\ wanted' = [wanted EXCEPT ![k] = @ + 1]
    /\ fast' = IF k \in Fallback THEN [fast EXCEPT ![k] = [NoRun EXCEPT !.pc = "running"]]
                                 ELSE fast
    /\ caller' = [caller EXCEPT ![c] = Idle]
    /\ UNCHANGED <<worker, up, workVars, crashes>>

Rollback(c) ==
    /\ caller[c].key # NoKey
    /\ caller' = [caller EXCEPT ![c] = Idle]
    /\ UNCHANGED <<job, fast, worker, up, wanted, workVars, crashes>>

-----------------------------------------------------------------------------
(* run_torum_v1_with_durable_fallback: the immediate run of a strategy job.*)

\* The immediate run evaluates the candle, or fails and keeps the fallback.
RunFast(k) ==
    /\ fast[k].pc = "running"
    /\ \/ /\ served' = [served EXCEPT ![k] = wanted[k]]
          /\ fast' = [fast EXCEPT ![k].pc = "succeeded"]
       \/ fast' = [fast EXCEPT ![k] = NoRun] /\ UNCHANGED served
    /\ UNCHANGED <<job, caller, worker, up, wanted, pushes, crashes>>

\* The fallback is read; one the worker has claimed is left alone.
RetireRead(k) ==
    /\ fast[k].pc = "succeeded"
    /\ fast' = [fast EXCEPT ![k] = IF job[k].status \in Pending
                                   THEN [pc |-> "retiring", read |-> job[k]] ELSE NoRun]
    /\ UNCHANGED <<job, caller, worker, up, wanted, workVars, crashes>>

RetireCommit(k) ==
    /\ fast[k].pc = "retiring"
    /\ Save(k, fast[k].read, [fast[k].read EXCEPT !.status = "COMPLETED"])
    /\ fast' = [fast EXCEPT ![k] = NoRun]
    /\ UNCHANGED <<caller, worker, up, wanted, workVars, crashes>>

-----------------------------------------------------------------------------
(* The worker thread.                                                      *)

Working(step, k) == worker.pc = step /\ worker.key = k

Claimed(k) ==
    /\ job[k].status \in Pending
    /\ job' = [job EXCEPT ![k].status = "RUNNING", ![k].attempts = @ + 1]

\* _claim_one
Claim(k) ==
    /\ up
    /\ worker.pc = "idle"
    /\ Claimed(k)
    /\ worker' = [IdleWorker EXCEPT !.pc = "claimed", !.key = k]
    /\ UNCHANGED <<caller, fast, up, wanted, workVars, crashes>>

\* _dispatch_job: what it reads is what is committed now.  A push goes out at
\* once and a strategy run commits by itself; the rest waits for Finish.  The
\* mark of a push that _notify_order sets is never saved: it changes in place a
\* JSON value whose column is not tracked, and assigns the same object again.
Run(k) ==
    /\ Working("claimed", k)
    /\ \/ /\ worker' = [worker EXCEPT !.pc = "ran", !.saw = wanted[k]]
          /\ served' = IF k \in Fallback THEN [served EXCEPT ![k] = wanted[k]] ELSE served
          /\ pushes' = IF k \in Notify THEN [pushes EXCEPT ![k] = @ + 1] ELSE pushes
       \/ worker' = [worker EXCEPT !.pc = "failed"] /\ UNCHANGED <<served, pushes>>
    /\ UNCHANGED <<job, caller, fast, up, wanted, crashes>>

\* Mutant: a follow-up asked for during the run is forgotten.
FinishedForgetful(row) == [row EXCEPT !.status = "COMPLETED", !.rerun = FALSE]

Finished(row) ==
    IF row.rerun THEN [row EXCEPT !.status = "PENDING", !.rerun = FALSE]
                 ELSE [row EXCEPT !.status = "COMPLETED"]

\* The row is locked and loaded again, and committed with the job's work.
Finish(k) ==
    /\ Working("ran", k)
    /\ job' = [job EXCEPT ![k] = Finished(@)]
    /\ served' = [served EXCEPT ![k] = IF worker.saw > @ THEN worker.saw ELSE @]
    /\ worker' = IdleWorker
    /\ UNCHANGED <<caller, fast, up, wanted, pushes, crashes>>

\* The transaction of the job fails and its work is rolled back.
FinishFails(k) ==
    /\ Working("ran", k)
    /\ worker' = [worker EXCEPT !.pc = "failed"]
    /\ UNCHANGED <<job, caller, fast, up, wanted, workVars, crashes>>

\* The except block of _execute reads the row in a session of its own.
FailRead(k) ==
    /\ Working("failed", k)
    /\ worker' = [worker EXCEPT !.pc = "failing", !.read = job[k]]
    /\ UNCHANGED <<job, caller, fast, up, wanted, workVars, crashes>>

\* Mutant: the failure handler writes a status that nobody reads.
FailedUnknown(row) == [row EXCEPT !.rerun = FALSE, !.status = "RETRYING"]

\* Mutant: failures are not counted.
FailedForEver(row) == [row EXCEPT !.rerun = FALSE, !.status = "RETRY"]

Failed(row) ==
    [row EXCEPT !.rerun = FALSE,
                !.status = IF row.attempts >= MaxAttempts THEN "FAILED" ELSE "RETRY"]

FailCommit(k) ==
    /\ Working("failing", k)
    /\ Save(k, worker.read, Failed(worker.read))
    /\ worker' = IdleWorker
    /\ UNCHANGED <<caller, fast, up, wanted, workVars, crashes>>

(***************************************************************************)
(* _run has no try: what the database raises in _claim_one, or in the      *)
(* session of the except block of _execute, ends the only worker thread,   *)
(* before the commit or after it.  The API stays up, and nothing starts    *)
(* another one until it is restarted.                                      *)
(***************************************************************************)
ThreadDies ==
    /\ up /\ crashes < MaxCrashes
    /\ \/ worker.pc \in {"idle", "failed", "failing"} /\ UNCHANGED job
       \/ worker.pc = "idle" /\ \E k \in Keys : Claimed(k)
       \/ worker.pc = "failing" /\ Save(worker.key, worker.read, Failed(worker.read))
    /\ worker' = [IdleWorker EXCEPT !.pc = "dead"]
    /\ crashes' = crashes + 1
    /\ UNCHANGED <<caller, fast, up, wanted, workVars>>

-----------------------------------------------------------------------------
(* Crash and restart.                                                      *)

\* The process dies, or is restarted because its worker did: transactions roll
\* back, background runs are lost.
Crash ==
    /\ up
    /\ crashes < MaxCrashes \/ worker.pc = "dead"
    /\ crashes' = crashes + 1
    /\ up' = FALSE
    /\ caller' = [c \in Callers |-> Idle]
    /\ fast' = [k \in Keys |-> NoRun]
    /\ worker' = IdleWorker
    /\ UNCHANGED <<job, wanted, workVars>>

\* Mutant: the recovery takes a stale job for a finished one.
RecoveredAsDone(row) == [row EXCEPT !.status = "COMPLETED", !.rerun = FALSE]

Recovered(row) == [row EXCEPT !.status = "RETRY", !.rerun = FALSE]

\* Mutant: no recovery.
RecoverableNone == {{}}

\* _recover_stale_jobs picks the RUNNING jobs locked five minutes ago.
Recoverable ==
    LET running == {k \in Keys : job[k].status = "RUNNING"}
    IN  IF QuickRestart THEN SUBSET running ELSE {running}

Restart ==
    /\ ~ up
    /\ up' = TRUE
    /\ \E stale \in Recoverable :
          job' = [k \in Keys |-> IF k \in stale THEN Recovered(job[k]) ELSE job[k]]
    /\ UNCHANGED <<caller, fast, worker, wanted, workVars, crashes>>

-----------------------------------------------------------------------------
WorkerStep(k) == Run(k) \/ Finish(k) \/ FailRead(k) \/ FailCommit(k)

Next ==
    \/ \E c \in Callers, k \in Keys : Enqueue(c, k) \/ Commit(c, k)
    \/ \E c \in Callers : Rollback(c)
    \/ \E k \in Keys : \/ RunFast(k) \/ RetireRead(k) \/ RetireCommit(k)
                       \/ Claim(k) \/ WorkerStep(k) \/ FinishFails(k)
    \/ ThreadDies \/ Crash \/ Restart

Spec == Init /\ [][Next]_vars

(***************************************************************************)
(* Fairness: the worker thread, while it lives, runs and takes due jobs    *)
(* oldest first, so that no due job waits for ever; a dead process is      *)
(* restarted, a live one whose worker died is not.                         *)
(***************************************************************************)
Fairness ==
    /\ \A k \in Keys : SF_vars(Claim(k)) /\ WF_vars(WorkerStep(k))
    /\ WF_vars(Restart)

FairSpec == Spec /\ Fairness

-----------------------------------------------------------------------------
TypeOK ==
    /\ job \in [Keys -> Rows]
    /\ caller \in [Callers -> [key : Keys \cup {NoKey}, read : Rows, new : Rows]]
    /\ fast \in [Keys -> [pc : {"none", "running", "succeeded", "retiring"}, read : Rows]]
    /\ worker \in [pc : {"idle", "claimed", "ran", "failed", "failing", "dead"},
                   key : Keys \cup {NoKey}, saw : Nat, read : Rows]
    /\ up \in BOOLEAN
    /\ wanted \in [Keys -> Nat] /\ served \in [Keys -> Nat]
    /\ pushes \in [Keys -> Nat]
    /\ crashes \in Nat

(***************************************************************************)
(* A job is COMPLETED only when its work was carried out at least once, by *)
(* the worker or by the immediate run, whatever crashed or was merged into *)
(* its row meanwhile.                                                      *)
(***************************************************************************)
CompletedMeansDone == \A k \in Keys : job[k].status = "COMPLETED" => served[k] > 0

(***************************************************************************)
(* While the worker has a plain job its row says RUNNING: no enqueuer that *)
(* read the row earlier makes it claimable a second time.                  *)
(***************************************************************************)
WorkerOwnsItsJob ==
    worker.key \in Plain => job[worker.key].status = "RUNNING"

(***************************************************************************)
(* A plain job fails at most MaxAttempts runs; only a crash or the death   *)
(* of the worker thread during a run adds one.                             *)
(***************************************************************************)
AttemptsBounded ==
    \A k \in Plain : job[k].attempts <= MaxAttempts + crashes

(***************************************************************************)
(* A plain job that is completed is never run again, however often its key *)
(* is enqueued.                                                            *)
(***************************************************************************)
CompletedIsFinal ==
    [][\A k \in Plain : job[k].status = "COMPLETED" => job'[k].status = "COMPLETED"]_vars

(***************************************************************************)
(* A coalesced job rests only when its last run saw every request: one that*)
(* arrives during the run causes a follow-up run.                          *)
(***************************************************************************)
FollowUpNotLost ==
    \A k \in Coalesced : job[k].status = "COMPLETED" => served[k] = wanted[k]

(***************************************************************************)
(* A job that is due or running ends, completed or failed, over failures,  *)
(* crashes and restarts, unless the worker thread dies and leaves it; when *)
(* the API is restarted after that, the job is due again and ends.         *)
(***************************************************************************)
JobEnds ==
    \A k \in Keys : job[k].status \in {"PENDING", "RUNNING", "RETRY"}
                       ~> \/ job[k].status \in {"COMPLETED", "FAILED"}
                          \/ worker.pc = "dead"

(***************************************************************************)
(* The retirement of a fallback never touches one the worker has claimed.  *)
(***************************************************************************)
FallbackNotStolen ==
    worker.key \in Fallback => job[worker.key].status = "RUNNING"

(***************************************************************************)
(* An order is announced by one push notification.                         *)
(***************************************************************************)
PushedOnce == \A k \in Notify : pushes[k] <= 1
=============================================================================
