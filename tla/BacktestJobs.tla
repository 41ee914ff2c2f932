---------------------------- MODULE BacktestJobs ----------------------------
(* The queue of backtests in the memory of the API: the requests that start   *)
(* and cancel a job, the worker threads, and the pruning of ended jobs.       *)
EXTENDS Integers, Sequences, FiniteSets, FiniteSetsExt

CONSTANTS
  MaxJobs,       \* bound: jobs that are started, numbered in that order
  Workers,       \* threads of the pool
  MaxRetained,   \* jobs kept before ended ones are pruned
  MaxProgress    \* bound: how often a backtest reports its progress

ASSUME JobsAssumption ==
  {MaxJobs, MaxRetained, MaxProgress} \subseteq Nat

Ids == 1..MaxJobs

VARIABLES
  started,    \* jobs started so far
  jobs,       \* _jobs: the job of an id, status "ABSENT" when there is none
  queue,      \* ids submitted to the pool
  worker,     \* the job of a thread and where it is
  configs,    \* the strategy configuration exists
  expired     \* ended jobs that are older than the time to live
jobVars == <<started, jobs, queue, worker, configs, expired>>

Terminal == {"COMPLETED", "FAILED", "CANCELLED"}
Active == {"QUEUED", "RUNNING", "CANCELLING"}
NoJob == [status |-> "ABSENT", stage |-> "ABSENT", cancel |-> FALSE, result |-> FALSE, end |-> 0]
NewJob == [NoJob EXCEPT !.status = "QUEUED", !.stage = "QUEUED"]
Resting == [job |-> 0, at |-> "idle", progress |-> 0]
Kept == {i \in Ids : jobs[i] # NoJob}
Ended == {i \in Ids : jobs[i].status \in Terminal}

JobsInit == /\ started = 0 /\ jobs = [i \in Ids |-> NoJob] /\ queue = <<>> /\ configs = TRUE
            /\ worker = [w \in Workers |-> Resting] /\ expired = {}

----------------------------------------------------------------------------
(* Requests. *)

\* _prune: expired jobs go, and of more than MaxRetained those that ended first.
PrunedByNumber ==   \* (a mutant: a job that has not ended goes as well)
  expired \cup {i \in Kept \ expired : Cardinality({k \in Kept \ expired : k < i})
                                            < Cardinality(Kept \ expired) - MaxRetained}
Pruned ==
  LET kept == Kept \ expired
      before(i) == {k \in Ended \ expired : jobs[k].end < jobs[i].end}
  IN expired \cup {i \in Ended \ expired : Cardinality(before(i)) < Cardinality(kept) - MaxRetained}

Start ==
  /\ started < MaxJobs /\ started' = started + 1
  /\ jobs' = [i \in Ids |-> IF i = started' THEN NewJob ELSE IF i \in Pruned THEN NoJob ELSE jobs[i]]
  /\ queue' = Append(queue, started') /\ expired' = expired \ Pruned
  /\ UNCHANGED <<worker, configs>>

Cancel(i) ==
  /\ jobs[i].status \in Active \ {"CANCELLING"}
  /\ jobs' = [jobs EXCEPT ![i].cancel = TRUE, ![i].status = "CANCELLING", ![i].stage = "CANCELLING"]
  /\ UNCHANGED <<started, queue, worker, configs, expired>>

DeleteConfig == configs /\ configs' = FALSE /\ UNCHANGED <<started, jobs, queue, worker, expired>>

Expire(i) ==
  /\ i \in Ended \ expired /\ expired' = expired \cup {i}
  /\ UNCHANGED <<started, jobs, queue, worker, configs>>

----------------------------------------------------------------------------
(* A thread of the pool. *)

Settled(i, status) ==
  [jobs EXCEPT ![i].status = status, ![i].stage = status, ![i].result = (status = "COMPLETED"),
               ![i].end = 1 + Max({jobs[k].end : k \in Ids})]
Goes(w, at) == worker' = [worker EXCEPT ![w].at = at]
Rests(w) == worker' = [worker EXCEPT ![w] = Resting]

\* _run: a job that was cancelled in the queue, or pruned, is not run.
Take(w) ==
  LET i == Head(queue)
  IN /\ worker[w] = Resting /\ queue # <<>> /\ queue' = Tail(queue)
     /\ IF jobs[i] = NoJob \/ jobs[i].cancel
        THEN /\ jobs' = IF jobs[i] = NoJob THEN jobs ELSE Settled(i, "CANCELLED")
             /\ UNCHANGED worker
        ELSE /\ jobs' = [jobs EXCEPT ![i].status = "RUNNING", ![i].stage = "PREPARING"]
             /\ worker' = [worker EXCEPT ![w] = [job |-> i, at |-> "loading", progress |-> 0]]
     /\ UNCHANGED <<started, configs, expired>>

Load(w) ==
  /\ worker[w].at = "loading" /\ Goes(w, IF configs THEN "computing" ELSE "failing")
  /\ UNCHANGED <<started, jobs, queue, configs, expired>>

\* The engine asks for a cancellation, then reports: the stage of a job that
\* is being cancelled in between is that of the report.
Ask(w) ==
  /\ worker[w].at = "computing" /\ worker[w].progress < MaxProgress
  /\ Goes(w, IF jobs[worker[w].job].cancel THEN "cancelled" ELSE "reporting")
  /\ UNCHANGED <<started, jobs, queue, configs, expired>>

Report(w) ==
  /\ worker[w].at = "reporting"
  /\ worker' = [worker EXCEPT ![w].at = "computing", ![w].progress = @ + 1]
  /\ jobs' = IF jobs[worker[w].job].status \in Terminal THEN jobs
             ELSE [jobs EXCEPT ![worker[w].job].stage = "COMPUTING"]
  /\ UNCHANGED <<started, queue, configs, expired>>

Compute(w) ==
  /\ worker[w].at = "computing" /\ \E at \in {"done", "failing"} : Goes(w, at)
  /\ UNCHANGED <<started, jobs, queue, configs, expired>>

VerdictOfTheEngine(i, at) ==   \* (a mutant: the late cancellation is not looked at)
  CASE at = "failing" -> "FAILED" [] at = "cancelled" -> "CANCELLED" [] at = "done" -> "COMPLETED"
Verdict(i, at) ==
  CASE at = "failing" -> "FAILED"
    [] at = "cancelled" -> "CANCELLED"
    [] at = "done" -> IF jobs[i].cancel THEN "CANCELLED" ELSE "COMPLETED"

Settle(w) ==
  /\ worker[w].at \in {"failing", "cancelled", "done"} /\ Rests(w)
  /\ jobs' = Settled(worker[w].job, Verdict(worker[w].job, worker[w].at))
  /\ UNCHANGED <<started, queue, configs, expired>>

----------------------------------------------------------------------------
WorkerStep(w) == Take(w) \/ Load(w) \/ Ask(w) \/ Report(w) \/ Compute(w) \/ Settle(w)
JobsNext ==
  \/ Start \/ DeleteConfig
  \/ \E i \in Ids : Cancel(i) \/ Expire(i)
  \/ \E w \in Workers : WorkerStep(w)

(* A client that was answered CANCELLING is never given a result.             *)
NoResultAfterCancel ==
  [][\A i \in Ids : jobs[i].cancel /\ jobs'[i] # NoJob => jobs'[i].cancel /\ ~jobs'[i].result]_jobVars
(* Every job that was accepted ends, and is there to be asked for when it does. *)
AcceptedJobEnds == \A i \in Ids : (jobs[i].status \in Active) ~> (jobs[i].status \in Terminal)
=============================================================================
