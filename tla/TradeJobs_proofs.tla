---------------------------- MODULE TradeJobs_proofs ----------------------------
(***************************************************************************)
(* What the job queue guarantees for any keys, threads, requests, crashes  *)
(* and attempts, although its transactions write rows they read earlier.   *)
(*                                                                         *)
(* The argument: what an enqueuing transaction has in hand either repeats  *)
(* the columns it read or inserts a row nobody else can insert, so that no *)
(* merge takes a plain job away from the worker; and whoever completes a   *)
(* job has evidence that its work was done.                                *)
(***************************************************************************)
EXTENDS TradeJobs, TLAPS

\* A transaction that enqueues leaves the status alone or makes it PENDING; on
\* a plain key it changes nothing unless it inserts the row.
CallersAreHarmless ==
    \A c \in Callers : caller[c].key \in Keys =>
        /\ caller[c].new.status \in {caller[c].read.status, "PENDING"}
        /\ caller[c].new.status # "none"
        /\ caller[c].key \in Plain =>
              \/ /\ caller[c].new.status = caller[c].read.status
                 /\ caller[c].new.attempts = caller[c].read.attempts
              \/ /\ job[caller[c].key].status = "none"
                 /\ caller[c].new.attempts = 0

\* Only coalesced jobs are asked to run again.
PlainNeverReruns ==
    \A k \in Plain : /\ ~ job[k].rerun
                     /\ \A c \in Callers : caller[c].key = k => ~ caller[c].new.rerun

\* Only one transaction holds the insert of a key.
InsertsAlone ==
    \A c, d \in Callers : c # d /\ caller[c].key \in Keys /\ caller[c].key = caller[d].key
                             => job[caller[c].key].status # "none"

\* Immediate runs exist for fallback keys; one that succeeded did the work.
FastIsFallback ==
    \A k \in Keys : /\ fast[k].pc # "none" => k \in Fallback /\ wanted[k] > 0
                    /\ fast[k].pc \in {"succeeded", "retiring"} => served[k] > 0

\* A job exists, and is run, only after a committed request.
RunsAreWanted ==
    /\ \A k \in Keys : job[k].status # "none" => wanted[k] > 0
    /\ worker.key \in Keys => wanted[worker.key] > 0
    /\ worker.pc = "ran" => worker.saw > 0
    /\ worker.pc \in {"idle", "dead"} <=> worker.key = NoKey

\* A run that fails knows its row: nobody else changes it.
FailureIsCurrent ==
    worker.key \in Plain /\ worker.pc = "failing" =>
        /\ worker.read.status = "RUNNING"
        /\ worker.read.attempts = job[worker.key].attempts

\* Attempts already made, by where the job is.
AttemptsInHand ==
    \A k \in Plain :
        /\ job[k].attempts <= MaxAttempts + crashes
        /\ job[k].status \in {"none", "PENDING", "RETRY", "RUNNING"} /\ worker.key # k
              => job[k].attempts < MaxAttempts + crashes

\* A dead process runs no job.
WorkerIsUp == ~ up => worker.key = NoKey

IInv == /\ TypeOK /\ CallersAreHarmless /\ PlainNeverReruns /\ InsertsAlone
        /\ FastIsFallback /\ RunsAreWanted /\ FailureIsCurrent /\ AttemptsInHand
        /\ WorkerIsUp /\ WorkerOwnsItsJob /\ CompletedMeansDone

LEMMA IdleValues ==
    /\ NoRow \in Rows
    /\ Idle \in [key : Keys \cup {NoKey}, read : Rows, new : Rows] /\ Idle.key = NoKey
    /\ NoRun \in [pc : {"none", "running", "succeeded", "retiring"}, read : Rows]
    /\ NoRun.pc = "none"
    /\ IdleWorker \in [pc : {"idle", "claimed", "ran", "failed", "failing", "dead"},
                       key : Keys \cup {NoKey}, saw : Nat, read : Rows]
    /\ IdleWorker.pc = "idle" /\ IdleWorker.key = NoKey
  BY DEF NoRow, Rows, JobStatus, Idle, NoRun, IdleWorker

LEMMA SaveEffect ==
    ASSUME TypeOK, NEW k \in Keys, NEW read \in Rows, NEW new \in Rows, Save(k, read, new)
    PROVE  /\ job' \in [Keys -> Rows]
           /\ \A j \in Keys : j # k => job'[j] = job[j]
           /\ job'[k].status = IF new.status = read.status THEN job[k].status ELSE new.status
           /\ job'[k].attempts = IF new.attempts = read.attempts THEN job[k].attempts
                                                                 ELSE new.attempts
           /\ ~ job[k].rerun /\ ~ new.rerun => ~ job'[k].rerun
<1>1. job[k] \in Rows
  BY DEF TypeOK
<1>2. Merge(job[k], read, new) \in Rows
  BY <1>1 DEF Merge, Rows
<1>3. job' = [job EXCEPT ![k] = Merge(job[k], read, new)]
  BY DEF Save
<1>. QED BY <1>2, <1>3 DEF TypeOK, Merge

LEMMA RequestedType ==
    ASSUME NEW k \in Keys, NEW row \in Rows
    PROVE  /\ Requested(k, row) \in Rows
           /\ Requested(k, row).status \in {row.status, "PENDING"} \ {"none"}
           /\ k \in Plain => /\ row.status # "none" => Requested(k, row) = row
                             /\ row.status = "none" => Requested(k, row).attempts = 0
                             /\ ~ row.rerun => ~ Requested(k, row).rerun
  BY DEF Requested, Rows, NoRow, JobStatus, Plain

LEMMA EnqueueKeeps ==
    ASSUME NEW c \in Callers, NEW k \in Keys, IInv, Enqueue(c, k)
    PROVE  IInv'
<1>1. /\ up /\ caller[c].key = NoKey
      /\ \A d \in Callers : job[k].status = "none" => caller[d].key # k
      /\ caller' = [caller EXCEPT ![c] =
                       [key |-> k, read |-> job[k], new |-> Requested(k, job[k])]]
      /\ UNCHANGED <<job, fast, worker, up, wanted, served, pushes, crashes>>
  BY DEF Enqueue, workVars
<1>2. job[k] \in Rows
  BY DEF IInv, TypeOK
<1>3. /\ Requested(k, job[k]) \in Rows
      /\ Requested(k, job[k]).status \in {job[k].status, "PENDING"} \ {"none"}
      /\ k \in Plain => /\ job[k].status # "none" => Requested(k, job[k]) = job[k]
                        /\ job[k].status = "none" => Requested(k, job[k]).attempts = 0
                        /\ ~ job[k].rerun => ~ Requested(k, job[k]).rerun
  BY <1>2, RequestedType
<1>4. /\ caller' \in [Callers -> [key : Keys \cup {NoKey}, read : Rows, new : Rows]]
      /\ caller'[c].key = k /\ caller'[c].read = job[k]
      /\ caller'[c].new = Requested(k, job[k])
      /\ \A d \in Callers : d # c => caller'[d] = caller[d]
  BY <1>1, <1>2, <1>3 DEF IInv, TypeOK
<1>5. TypeOK'
  BY <1>1, <1>4 DEF IInv, TypeOK
<1>6. CallersAreHarmless'
  BY <1>1, <1>3, <1>4 DEF IInv, CallersAreHarmless
<1>7. PlainNeverReruns'
  BY <1>1, <1>3, <1>4 DEF IInv, PlainNeverReruns, Plain
<1>8. InsertsAlone'
  BY <1>1, <1>4 DEF IInv, InsertsAlone
<1>9. UNCHANGED <<FastIsFallback, RunsAreWanted, FailureIsCurrent, AttemptsInHand,
                  WorkerIsUp, WorkerOwnsItsJob, CompletedMeansDone>>
  BY <1>1 DEF FastIsFallback, RunsAreWanted, FailureIsCurrent, AttemptsInHand,
              WorkerIsUp, WorkerOwnsItsJob, CompletedMeansDone
<1>. QED BY <1>5, <1>6, <1>7, <1>8, <1>9 DEF IInv

LEMMA CommitKeeps ==
    ASSUME NEW c \in Callers, NEW k \in Keys, IInv, Commit(c, k)
    PROVE  IInv'
<1>. DEFINE read == caller[c].read
            new == caller[c].new
<1>1. /\ caller[c].key = k /\ Save(k, read, new)
      /\ wanted' = [wanted EXCEPT ![k] = @ + 1]
      /\ caller' = [caller EXCEPT ![c] = Idle]
      /\ UNCHANGED <<worker, up, served, pushes, crashes>>
  BY DEF Commit, workVars
<1>2. read \in Rows /\ new \in Rows
  BY DEF IInv, TypeOK
<1>3. /\ job' \in [Keys -> Rows]
      /\ \A j \in Keys : j # k => job'[j] = job[j]
      /\ job'[k].status = IF new.status = read.status THEN job[k].status ELSE new.status
      /\ job'[k].attempts = IF new.attempts = read.attempts THEN job[k].attempts
                                                            ELSE new.attempts
      /\ ~ job[k].rerun /\ ~ new.rerun => ~ job'[k].rerun
  BY <1>1, <1>2, SaveEffect DEF IInv
<1>4. job'[k].status \in {job[k].status, "PENDING"}
  BY <1>1, <1>3 DEF IInv, CallersAreHarmless
<1>5. k \in Plain =>
         \/ job'[k].status = job[k].status /\ job'[k].attempts = job[k].attempts
         \/ job[k].status = "none" /\ job'[k].attempts \in {0, job[k].attempts}
  BY <1>1, <1>3 DEF IInv, CallersAreHarmless
<1>6. /\ wanted' \in [Keys -> Nat] /\ wanted'[k] > 0
      /\ \A j \in Keys : wanted[j] > 0 => wanted'[j] > 0
  BY <1>1 DEF IInv, TypeOK
<1>7. /\ caller' \in [Callers -> [key : Keys \cup {NoKey}, read : Rows, new : Rows]]
      /\ caller'[c].key = NoKey
      /\ \A d \in Callers : d # c => caller'[d] = caller[d]
  BY <1>1 DEF IInv, TypeOK, Idle, NoRow, Rows, JobStatus
<1>8. /\ fast' \in [Keys -> [pc : {"none", "running", "succeeded", "retiring"}, read : Rows]]
      /\ \A j \in Keys : \/ fast'[j] = fast[j]
                         \/ j = k /\ k \in Fallback /\ fast'[k].pc = "running"
  BY DEF Commit, IInv, TypeOK, NoRun, NoRow, Rows, JobStatus
<1>6a. k \in Plain => ~ job'[k].rerun
  BY <1>1, <1>3 DEF IInv, PlainNeverReruns
<1>. HIDE DEF read, new
<1>9. TypeOK'
  BY <1>1, <1>3, <1>6, <1>7, <1>8 DEF IInv, TypeOK
<1>10. CallersAreHarmless' /\ PlainNeverReruns' /\ InsertsAlone'
  BY <1>1, <1>3, <1>4, <1>6a, <1>7, KeysAssumption
     DEF IInv, CallersAreHarmless, PlainNeverReruns, InsertsAlone, Plain
<1>11. FastIsFallback' /\ RunsAreWanted'
  BY <1>1, <1>3, <1>6, <1>8 DEF IInv, FastIsFallback, RunsAreWanted
<1>12. FailureIsCurrent' /\ WorkerOwnsItsJob'
  BY <1>1, <1>3, <1>5 DEF IInv, FailureIsCurrent, WorkerOwnsItsJob, Plain
<1>13. AttemptsInHand'
  <2>1. ASSUME NEW j \in Plain
        PROVE  /\ job'[j].attempts <= MaxAttempts + crashes
               /\ job'[j].status \in {"none", "PENDING", "RETRY", "RUNNING"} /\ worker.key # j
                     => job'[j].attempts < MaxAttempts + crashes
    <3>1. CASE j # k
      BY <1>3, <3>1 DEF IInv, AttemptsInHand, Plain
    <3>2. CASE j = k
      <4>1. /\ job[k].attempts \in Nat /\ MaxAttempts + crashes \in Nat /\ MaxAttempts > 0
            /\ crashes \in Nat
        BY BoundsAssumption DEF IInv, TypeOK, Rows
      <4>2. /\ job[k].attempts <= MaxAttempts + crashes
            /\ job[k].status \in {"none", "PENDING", "RETRY", "RUNNING"} /\ worker.key # k
                  => job[k].attempts < MaxAttempts + crashes
        BY <3>2 DEF IInv, AttemptsInHand
      <4>3. CASE job'[k].status = job[k].status /\ job'[k].attempts = job[k].attempts
        BY <3>2, <4>2, <4>3
      <4>4. CASE job[k].status = "none" /\ job'[k].attempts \in {0, job[k].attempts}
        <5>1. worker.key # k
          BY <3>2, <4>4 DEF IInv, WorkerOwnsItsJob
        <5>. QED BY <3>2, <4>1, <4>2, <4>4, <5>1
      <4>. QED BY <1>5, <3>2, <4>3, <4>4
    <3>. QED BY <3>1, <3>2
  <2>. QED BY <1>1, <2>1 DEF AttemptsInHand
<1>14. CompletedMeansDone'
  BY <1>1, <1>3, <1>4 DEF IInv, CompletedMeansDone
<1>20. WorkerIsUp'
  BY <1>1 DEF IInv, WorkerIsUp
<1>. QED BY <1>9, <1>10, <1>11, <1>12, <1>13, <1>14, <1>20 DEF IInv

LEMMA RollbackKeeps ==
    ASSUME NEW c \in Callers, IInv, Rollback(c)
    PROVE  IInv'
<1>1. /\ caller' = [caller EXCEPT ![c] = Idle]
      /\ UNCHANGED <<job, fast, worker, up, wanted, served, pushes, crashes>>
  BY DEF Rollback, workVars
<1>2. /\ caller' \in [Callers -> [key : Keys \cup {NoKey}, read : Rows, new : Rows]]
      /\ caller'[c].key = NoKey
      /\ \A d \in Callers : d # c => caller'[d] = caller[d]
  BY <1>1, IdleValues DEF IInv, TypeOK
<1>3. TypeOK'
  BY <1>1, <1>2 DEF IInv, TypeOK
<1>4. CallersAreHarmless' /\ PlainNeverReruns' /\ InsertsAlone'
  BY <1>1, <1>2, KeysAssumption
     DEF IInv, CallersAreHarmless, PlainNeverReruns, InsertsAlone, Plain
<1>5. UNCHANGED <<FastIsFallback, RunsAreWanted, FailureIsCurrent, AttemptsInHand,
                  WorkerIsUp, WorkerOwnsItsJob, CompletedMeansDone>>
  BY <1>1 DEF FastIsFallback, RunsAreWanted, FailureIsCurrent, AttemptsInHand,
              WorkerIsUp, WorkerOwnsItsJob, CompletedMeansDone
<1>. QED BY <1>3, <1>4, <1>5 DEF IInv

LEMMA RunFastKeeps ==
    ASSUME NEW k \in Keys, IInv, RunFast(k)
    PROVE  IInv'
<1>1. /\ fast[k].pc = "running"
      /\ UNCHANGED <<job, caller, worker, up, wanted, pushes, crashes>>
  BY DEF RunFast
<1>2. k \in Fallback /\ wanted[k] > 0
  BY <1>1 DEF IInv, FastIsFallback
<1>3. /\ served' \in [Keys -> Nat]
      /\ \A j \in Keys : served[j] > 0 => served'[j] > 0
      /\ served'[k] > 0 \/ fast'[k].pc = "none"
  <2>1. /\ wanted \in [Keys -> Nat] /\ served \in [Keys -> Nat]
        /\ fast \in [Keys -> [pc : {"none", "running", "succeeded", "retiring"}, read : Rows]]
    BY DEF IInv, TypeOK
  <2>2. CASE /\ served' = [served EXCEPT ![k] = wanted[k]]
             /\ fast' = [fast EXCEPT ![k].pc = "succeeded"]
    BY <1>2, <2>1, <2>2
  <2>3. CASE fast' = [fast EXCEPT ![k] = NoRun] /\ served' = served
    BY <2>1, <2>3, IdleValues
  <2>. QED BY <2>2, <2>3 DEF RunFast
<1>4. /\ fast' \in [Keys -> [pc : {"none", "running", "succeeded", "retiring"}, read : Rows]]
      /\ \A j \in Keys : j # k => fast'[j] = fast[j]
  <2>1. fast \in [Keys -> [pc : {"none", "running", "succeeded", "retiring"}, read : Rows]]
    BY DEF IInv, TypeOK
  <2>2. CASE fast' = [fast EXCEPT ![k].pc = "succeeded"]
    BY <2>1, <2>2
  <2>3. CASE fast' = [fast EXCEPT ![k] = NoRun]
    BY <2>1, <2>3, IdleValues
  <2>. QED BY <2>2, <2>3 DEF RunFast
<1>5. TypeOK'
  BY <1>1, <1>3, <1>4 DEF IInv, TypeOK
<1>6. CallersAreHarmless' /\ PlainNeverReruns' /\ InsertsAlone'
  BY <1>1 DEF IInv, CallersAreHarmless, PlainNeverReruns, InsertsAlone, Plain
<1>7. FastIsFallback' /\ RunsAreWanted'
  BY <1>1, <1>2, <1>3, <1>4 DEF IInv, FastIsFallback, RunsAreWanted
<1>8. FailureIsCurrent' /\ WorkerOwnsItsJob' /\ AttemptsInHand'
  BY <1>1 DEF IInv, FailureIsCurrent, WorkerOwnsItsJob, AttemptsInHand
<1>9. CompletedMeansDone'
  BY <1>1, <1>3 DEF IInv, CompletedMeansDone
<1>20. WorkerIsUp'
  BY <1>1 DEF IInv, WorkerIsUp
<1>. QED BY <1>5, <1>6, <1>7, <1>8, <1>9, <1>20 DEF IInv

LEMMA RetireReadKeeps ==
    ASSUME NEW k \in Keys, IInv, RetireRead(k)
    PROVE  IInv'
<1>1. /\ fast[k].pc = "succeeded"
      /\ fast' = [fast EXCEPT ![k] = IF job[k].status \in Pending
                                     THEN [pc |-> "retiring", read |-> job[k]] ELSE NoRun]
      /\ UNCHANGED <<job, caller, worker, up, wanted, served, pushes, crashes>>
  BY DEF RetireRead, workVars
<1>2. /\ fast' \in [Keys -> [pc : {"none", "running", "succeeded", "retiring"}, read : Rows]]
      /\ \A j \in Keys : j # k => fast'[j] = fast[j]
  <2>1. job[k] \in Rows /\ fast \in [Keys -> [pc : {"none", "running", "succeeded", "retiring"},
                                              read : Rows]]
    BY DEF IInv, TypeOK
  <2>. QED BY <1>1, <2>1, IdleValues
<1>3. TypeOK'
  BY <1>1, <1>2 DEF IInv, TypeOK
<1>4. FastIsFallback'
  BY <1>1, <1>2 DEF IInv, FastIsFallback
<1>5. UNCHANGED <<CallersAreHarmless, PlainNeverReruns, InsertsAlone, RunsAreWanted,
                  FailureIsCurrent, AttemptsInHand, WorkerIsUp, WorkerOwnsItsJob,
                  CompletedMeansDone>>
  BY <1>1 DEF CallersAreHarmless, PlainNeverReruns, InsertsAlone, RunsAreWanted,
              FailureIsCurrent, AttemptsInHand, WorkerIsUp, WorkerOwnsItsJob,
              CompletedMeansDone
<1>. QED BY <1>3, <1>4, <1>5 DEF IInv

LEMMA RetireCommitKeeps ==
    ASSUME NEW k \in Keys, IInv, RetireCommit(k)
    PROVE  IInv'
<1>. DEFINE read == fast[k].read
            new == [read EXCEPT !.status = "COMPLETED"]
<1>1. /\ fast[k].pc = "retiring"
      /\ Save(k, read, new)
      /\ fast' = [fast EXCEPT ![k] = NoRun]
      /\ UNCHANGED <<caller, worker, up, wanted, served, pushes, crashes>>
  BY DEF RetireCommit, workVars
<1>2. read \in Rows /\ new \in Rows /\ new.status = "COMPLETED"
  BY DEF IInv, TypeOK, Rows, JobStatus
<1>5. k \notin Plain /\ wanted[k] > 0 /\ served[k] > 0
  BY <1>1 DEF IInv, FastIsFallback, Plain
<1>6. /\ fast' \in [Keys -> [pc : {"none", "running", "succeeded", "retiring"}, read : Rows]]
      /\ fast'[k].pc = "none" /\ \A j \in Keys : j # k => fast'[j] = fast[j]
  BY <1>1, IdleValues DEF IInv, TypeOK
<1>. HIDE DEF read, new
<1>3. /\ job' \in [Keys -> Rows]
      /\ \A j \in Keys : j # k => job'[j] = job[j]
      /\ job'[k].status = IF new.status = read.status THEN job[k].status ELSE new.status
  BY <1>1, <1>2, SaveEffect DEF IInv
<1>4. job'[k].status \in {job[k].status, "COMPLETED"}
  BY <1>2, <1>3
<1>7. TypeOK'
  BY <1>1, <1>3, <1>6 DEF IInv, TypeOK
<1>8. CallersAreHarmless' /\ PlainNeverReruns' /\ InsertsAlone'
  BY <1>1, <1>3, <1>4, <1>5 DEF IInv, CallersAreHarmless, PlainNeverReruns, InsertsAlone, Plain
<1>9. FastIsFallback' /\ RunsAreWanted'
  BY <1>1, <1>3, <1>5, <1>6 DEF IInv, FastIsFallback, RunsAreWanted
<1>10. FailureIsCurrent' /\ WorkerOwnsItsJob' /\ AttemptsInHand'
  BY <1>1, <1>3, <1>5 DEF IInv, FailureIsCurrent, WorkerOwnsItsJob, AttemptsInHand, Plain
<1>11. CompletedMeansDone'
  BY <1>1, <1>3, <1>5 DEF IInv, CompletedMeansDone
<1>20. WorkerIsUp'
  BY <1>1 DEF IInv, WorkerIsUp
<1>. QED BY <1>7, <1>8, <1>9, <1>10, <1>11, <1>20 DEF IInv

LEMMA ClaimKeeps ==
    ASSUME NEW k \in Keys, IInv, Claim(k)
    PROVE  IInv'
<1>1. /\ job[k].status \in {"PENDING", "RETRY"} /\ worker.pc = "idle"
      /\ UNCHANGED <<caller, fast, up, wanted, served, pushes, crashes>>
  BY DEF Claim, Claimed, Pending, workVars
<1>2. /\ job' \in [Keys -> Rows]
      /\ job'[k].status = "RUNNING" /\ job'[k].attempts = job[k].attempts + 1
      /\ ~ job[k].rerun => ~ job'[k].rerun
      /\ \A j \in Keys : j # k => job'[j] = job[j]
  BY DEF Claim, Claimed, IInv, TypeOK, Rows, JobStatus
<1>3. /\ worker'.pc = "claimed" /\ worker'.key = k
      /\ worker' \in [pc : {"idle", "claimed", "ran", "failed", "failing", "dead"},
                      key : Keys \cup {NoKey}, saw : Nat, read : Rows]
  BY DEF Claim, Claimed, IdleWorker, NoRow, Rows, JobStatus
<1>4. worker.key = NoKey
  BY <1>1 DEF IInv, RunsAreWanted
<1>5. TypeOK'
  BY <1>1, <1>2, <1>3 DEF IInv, TypeOK
<1>6. CallersAreHarmless' /\ PlainNeverReruns' /\ InsertsAlone'
  BY <1>1, <1>2 DEF IInv, CallersAreHarmless, PlainNeverReruns, InsertsAlone, Plain
<1>7. FastIsFallback' /\ RunsAreWanted'
  BY <1>1, <1>2, <1>3, KeysAssumption DEF IInv, FastIsFallback, RunsAreWanted
<1>8. FailureIsCurrent' /\ WorkerOwnsItsJob'
  BY <1>2, <1>3 DEF FailureIsCurrent, WorkerOwnsItsJob
<1>9. AttemptsInHand'
  <2>1. ASSUME NEW j \in Plain
        PROVE  /\ job'[j].attempts <= MaxAttempts + crashes
               /\ job'[j].status \in {"none", "PENDING", "RETRY", "RUNNING"} /\ worker'.key # j
                     => job'[j].attempts < MaxAttempts + crashes
    <3>1. CASE j # k
      BY <1>2, <1>4, <3>1, KeysAssumption DEF IInv, AttemptsInHand, Plain
    <3>2. CASE j = k
      <4>1. job[k].attempts < MaxAttempts + crashes
        BY <1>1, <1>4, <3>2, KeysAssumption DEF IInv, AttemptsInHand, Plain
      <4>2. job[k].attempts \in Nat /\ MaxAttempts + crashes \in Nat
        BY BoundsAssumption DEF IInv, TypeOK, Rows
      <4>. QED BY <1>2, <1>3, <3>2, <4>1, <4>2
    <3>. QED BY <3>1, <3>2
  <2>. QED BY <1>1, <2>1 DEF AttemptsInHand
<1>10. CompletedMeansDone'
  BY <1>1, <1>2 DEF IInv, CompletedMeansDone
<1>20. WorkerIsUp'
  BY DEF Claim, Claimed, WorkerIsUp
<1>. QED BY <1>5, <1>6, <1>7, <1>8, <1>9, <1>10, <1>20 DEF IInv

LEMMA RunKeeps ==
    ASSUME NEW k \in Keys, IInv, Run(k)
    PROVE  IInv'
<1>1. /\ worker.pc = "claimed" /\ worker.key = k
      /\ UNCHANGED <<job, caller, fast, up, wanted, crashes>>
  BY DEF Run, Working
<1>2. wanted[k] > 0 /\ wanted[k] \in Nat
  BY <1>1 DEF IInv, RunsAreWanted, TypeOK
<1>3. /\ worker' \in [pc : {"idle", "claimed", "ran", "failed", "failing", "dead"},
                      key : Keys \cup {NoKey}, saw : Nat, read : Rows]
      /\ worker'.key = k /\ worker'.pc \in {"ran", "failed"}
      /\ worker'.pc = "ran" => worker'.saw > 0
  BY <1>1, <1>2 DEF Run, IInv, TypeOK
<1>4. /\ served' \in [Keys -> Nat]
      /\ \A j \in Keys : served[j] > 0 => served'[j] > 0
  BY <1>2 DEF Run, IInv, TypeOK
<1>5. pushes' \in [Keys -> Nat]
  <2>1. pushes \in [Keys -> Nat]
    BY DEF IInv, TypeOK
  <2>2. pushes' = pushes \/ pushes' = [pushes EXCEPT ![k] = @ + 1]
    BY DEF Run
  <2>. QED BY <2>1, <2>2
<1>6. TypeOK'
  BY <1>1, <1>3, <1>4, <1>5 DEF IInv, TypeOK
<1>7. CallersAreHarmless' /\ PlainNeverReruns' /\ InsertsAlone'
  BY <1>1 DEF IInv, CallersAreHarmless, PlainNeverReruns, InsertsAlone, Plain
<1>8. FastIsFallback' /\ RunsAreWanted'
  BY <1>1, <1>2, <1>3, <1>4, KeysAssumption DEF IInv, FastIsFallback, RunsAreWanted
<1>9. FailureIsCurrent' /\ WorkerOwnsItsJob' /\ AttemptsInHand'
  BY <1>1, <1>3 DEF IInv, FailureIsCurrent, WorkerOwnsItsJob, AttemptsInHand
<1>10. CompletedMeansDone'
  BY <1>1, <1>4 DEF IInv, CompletedMeansDone
<1>20. WorkerIsUp'
  BY <1>1, KeysAssumption DEF IInv, WorkerIsUp
<1>. QED BY <1>6, <1>7, <1>8, <1>9, <1>10, <1>20 DEF IInv

LEMMA FinishKeeps ==
    ASSUME NEW k \in Keys, IInv, Finish(k)
    PROVE  IInv'
<1>1. /\ worker.pc = "ran" /\ worker.key = k /\ worker' = IdleWorker
      /\ UNCHANGED <<caller, fast, up, wanted, pushes, crashes>>
  BY DEF Finish, Working
<1>2. /\ job' \in [Keys -> Rows]
      /\ job'[k].status \in {"PENDING", "COMPLETED"}
      /\ job'[k].attempts = job[k].attempts
      /\ k \in Plain => job'[k].status = "COMPLETED" /\ ~ job'[k].rerun
      /\ \A j \in Keys : j # k => job'[j] = job[j]
  <2>1. job[k] \in Rows
    BY DEF IInv, TypeOK
  <2>2. /\ Finished(job[k]) \in Rows
        /\ Finished(job[k]).status \in {"PENDING", "COMPLETED"}
        /\ Finished(job[k]).attempts = job[k].attempts
        /\ ~ job[k].rerun => Finished(job[k]).status = "COMPLETED" /\ ~ Finished(job[k]).rerun
    BY <2>1 DEF Finished, Rows, JobStatus
  <2>. QED BY <2>2 DEF Finish, IInv, TypeOK, PlainNeverReruns
<1>3. /\ served' \in [Keys -> Nat] /\ served'[k] > 0
      /\ \A j \in Keys : served[j] > 0 => served'[j] > 0
  <2>1. worker.saw > 0 /\ worker.saw \in Nat /\ served \in [Keys -> Nat]
    BY <1>1 DEF IInv, RunsAreWanted, TypeOK
  <2>. QED BY <2>1 DEF Finish
<1>5. /\ worker'.pc = "idle" /\ worker'.key = NoKey
      /\ worker' \in [pc : {"idle", "claimed", "ran", "failed", "failing", "dead"},
                      key : Keys \cup {NoKey}, saw : Nat, read : Rows]
  BY <1>1 DEF IdleWorker, NoRow, Rows, JobStatus
<1>6. TypeOK'
  BY <1>1, <1>2, <1>3, <1>5 DEF IInv, TypeOK
<1>7. CallersAreHarmless' /\ PlainNeverReruns' /\ InsertsAlone'
  <2>1. job[k].status # "none" \/ k \notin Plain
    BY <1>1 DEF IInv, WorkerOwnsItsJob
  <2>. QED BY <1>1, <1>2, <2>1
           DEF IInv, CallersAreHarmless, PlainNeverReruns, InsertsAlone, Plain
<1>8. FastIsFallback' /\ RunsAreWanted'
  BY <1>1, <1>2, <1>3, <1>5, KeysAssumption DEF IInv, FastIsFallback, RunsAreWanted
<1>9. FailureIsCurrent' /\ WorkerOwnsItsJob'
  BY <1>5, KeysAssumption DEF FailureIsCurrent, WorkerOwnsItsJob, Plain
<1>10. AttemptsInHand'
  BY <1>1, <1>2, <1>5 DEF IInv, AttemptsInHand, Plain
<1>11. CompletedMeansDone'
  BY <1>1, <1>2, <1>3 DEF IInv, CompletedMeansDone
<1>20. WorkerIsUp'
  BY <1>5 DEF WorkerIsUp
<1>. QED BY <1>6, <1>7, <1>8, <1>9, <1>10, <1>11, <1>20 DEF IInv

LEMMA FinishFailsKeeps ==
    ASSUME NEW k \in Keys, IInv, FinishFails(k)
    PROVE  IInv'
<1>1. /\ worker.key = k
      /\ worker' = [worker EXCEPT !.pc = "failed"]
      /\ UNCHANGED <<job, caller, fast, up, wanted, served, pushes, crashes>>
  BY DEF FinishFails, Working, workVars
<1>2. /\ worker' \in [pc : {"idle", "claimed", "ran", "failed", "failing", "dead"},
                      key : Keys \cup {NoKey}, saw : Nat, read : Rows]
      /\ worker'.key = k /\ worker'.pc = "failed"
  BY <1>1 DEF IInv, TypeOK
<1>3. TypeOK'
  BY <1>1, <1>2 DEF IInv, TypeOK
<1>4. RunsAreWanted' /\ WorkerIsUp' /\ WorkerOwnsItsJob'
  BY <1>1, <1>2, KeysAssumption DEF IInv, RunsAreWanted, WorkerIsUp, WorkerOwnsItsJob
<1>5. FailureIsCurrent'
  BY <1>1, <1>2 DEF IInv, FailureIsCurrent
<1>6. AttemptsInHand'
  BY <1>1, <1>2 DEF IInv, AttemptsInHand
<1>7. UNCHANGED <<CallersAreHarmless, PlainNeverReruns, InsertsAlone, FastIsFallback,
                  CompletedMeansDone>>
  BY <1>1 DEF CallersAreHarmless, PlainNeverReruns, InsertsAlone, FastIsFallback,
              CompletedMeansDone
<1>. QED BY <1>3, <1>4, <1>5, <1>6, <1>7 DEF IInv

LEMMA FailReadKeeps ==
    ASSUME NEW k \in Keys, IInv, FailRead(k)
    PROVE  IInv'
<1>1. /\ worker.key = k
      /\ worker' = [worker EXCEPT !.pc = "failing", !.read = job[k]]
      /\ UNCHANGED <<job, caller, fast, up, wanted, served, pushes, crashes>>
  BY DEF FailRead, Working, workVars
<1>2. /\ worker' \in [pc : {"idle", "claimed", "ran", "failed", "failing", "dead"},
                      key : Keys \cup {NoKey}, saw : Nat, read : Rows]
      /\ worker'.key = k /\ worker'.pc = "failing" /\ worker'.read = job[k]
  BY <1>1 DEF IInv, TypeOK
<1>3. TypeOK'
  BY <1>1, <1>2 DEF IInv, TypeOK
<1>4. RunsAreWanted' /\ WorkerIsUp' /\ WorkerOwnsItsJob'
  BY <1>1, <1>2, KeysAssumption DEF IInv, RunsAreWanted, WorkerIsUp, WorkerOwnsItsJob
<1>5. FailureIsCurrent'
  BY <1>1, <1>2 DEF IInv, FailureIsCurrent, WorkerOwnsItsJob
<1>6. AttemptsInHand'
  BY <1>1, <1>2 DEF IInv, AttemptsInHand
<1>7. UNCHANGED <<CallersAreHarmless, PlainNeverReruns, InsertsAlone, FastIsFallback,
                  CompletedMeansDone>>
  BY <1>1 DEF CallersAreHarmless, PlainNeverReruns, InsertsAlone, FastIsFallback,
              CompletedMeansDone
<1>. QED BY <1>3, <1>4, <1>5, <1>6, <1>7 DEF IInv

LEMMA FailCommitKeeps ==
    ASSUME NEW k \in Keys, IInv, FailCommit(k)
    PROVE  IInv'
<1>. DEFINE new == Failed(worker.read)
<1>1. /\ worker.pc = "failing" /\ worker.key = k /\ worker' = IdleWorker
      /\ Save(k, worker.read, new)
      /\ UNCHANGED <<caller, fast, up, wanted, served, pushes, crashes>>
  BY DEF FailCommit, Working, workVars
<1>2. /\ worker.read \in Rows /\ new \in Rows /\ ~ new.rerun
      /\ new.status = IF worker.read.attempts >= MaxAttempts THEN "FAILED" ELSE "RETRY"
      /\ new.attempts = worker.read.attempts
  BY DEF IInv, TypeOK, Failed, Rows, JobStatus
<1>3. /\ job' \in [Keys -> Rows]
      /\ \A j \in Keys : j # k => job'[j] = job[j]
      /\ job'[k].status = IF new.status = worker.read.status THEN job[k].status ELSE new.status
      /\ job'[k].attempts = job[k].attempts
      /\ ~ job[k].rerun => ~ job'[k].rerun
  BY <1>1, <1>2, SaveEffect DEF IInv
<1>4. job'[k].status \in {job[k].status, "FAILED", "RETRY"}
  BY <1>2, <1>3
<1>5. k \in Plain => job'[k].status = "FAILED" \/ job'[k].attempts < MaxAttempts
  <2>1. k \in Plain => worker.read.status = "RUNNING" /\ worker.read.attempts = job[k].attempts
    BY <1>1 DEF IInv, FailureIsCurrent
  <2>2. job[k].attempts \in Nat /\ MaxAttempts \in Nat
    BY BoundsAssumption DEF IInv, TypeOK, Rows
  <2>. QED BY <1>2, <1>3, <2>1, <2>2
<1>6. /\ worker'.pc = "idle" /\ worker'.key = NoKey
      /\ worker' \in [pc : {"idle", "claimed", "ran", "failed", "failing", "dead"},
                      key : Keys \cup {NoKey}, saw : Nat, read : Rows]
  BY <1>1 DEF IdleWorker, NoRow, Rows, JobStatus
<1>. HIDE DEF new
<1>7. TypeOK'
  BY <1>1, <1>3, <1>6 DEF IInv, TypeOK
<1>8. CallersAreHarmless' /\ PlainNeverReruns' /\ InsertsAlone'
  <2>1. job[k].status # "none" \/ k \notin Plain
    BY <1>1 DEF IInv, WorkerOwnsItsJob
  <2>. QED BY <1>1, <1>3, <1>4, <2>1
           DEF IInv, CallersAreHarmless, PlainNeverReruns, InsertsAlone, Plain
<1>9. FastIsFallback' /\ RunsAreWanted'
  BY <1>1, <1>3, <1>4, <1>6, KeysAssumption DEF IInv, FastIsFallback, RunsAreWanted
<1>10. FailureIsCurrent' /\ WorkerOwnsItsJob'
  BY <1>6, KeysAssumption DEF FailureIsCurrent, WorkerOwnsItsJob, Plain
<1>11. AttemptsInHand'
  <2>1. job[k].attempts \in Nat /\ MaxAttempts \in Nat /\ crashes \in Nat
    BY BoundsAssumption DEF IInv, TypeOK, Rows
  <2>2. k \in Plain => /\ job'[k].attempts <= MaxAttempts + crashes
                       /\ job'[k].status = "FAILED" \/ job'[k].attempts < MaxAttempts + crashes
    BY <1>3, <1>5, <2>1 DEF IInv, AttemptsInHand
  <2>. QED BY <1>1, <1>3, <1>6, <2>2 DEF IInv, AttemptsInHand, Plain
<1>12. CompletedMeansDone'
  BY <1>1, <1>3, <1>4 DEF IInv, CompletedMeansDone
<1>20. WorkerIsUp'
  BY <1>6 DEF WorkerIsUp
<1>. QED BY <1>7, <1>8, <1>9, <1>10, <1>11, <1>12, <1>20 DEF IInv

\* The worker thread ends with its claim or its failure written, or not.
LEMMA ThreadDiesKeeps ==
    ASSUME IInv, ThreadDies
    PROVE  IInv'
<1>1. /\ crashes' = crashes + 1 /\ worker' = [IdleWorker EXCEPT !.pc = "dead"]
      /\ UNCHANGED <<caller, fast, up, wanted, served, pushes>>
  BY DEF ThreadDies, workVars
<1>2. /\ worker'.pc = "dead" /\ worker'.key = NoKey
      /\ worker' \in [pc : {"idle", "claimed", "ran", "failed", "failing", "dead"},
                      key : Keys \cup {NoKey}, saw : Nat, read : Rows]
  BY <1>1 DEF IdleWorker, NoRow, Rows, JobStatus
<1>3. /\ job' \in [Keys -> Rows]
      /\ \A j \in Keys :
            /\ job'[j].status \notin {"none", "COMPLETED"} \/ job'[j].status = job[j].status
            /\ ~ job[j].rerun => ~ job'[j].rerun
            /\ job[j].status = "none" => job'[j] = job[j] \/ worker.key = j
            /\ j \in Plain => job'[j].attempts <= MaxAttempts + crashes
  <2>1. \A j \in Keys : job[j] \in Rows
    BY DEF IInv, TypeOK
  <2>2. MaxAttempts \in Nat \ {0} /\ crashes \in Nat
    BY BoundsAssumption DEF IInv, TypeOK
  <2>3. CASE UNCHANGED job
    BY <2>3 DEF IInv, TypeOK, AttemptsInHand
  <2>4. CASE worker.pc = "idle" /\ \E k \in Keys : Claimed(k)
    <3>1. PICK k \in Keys : Claimed(k)
      BY <2>4
    <3>2. /\ job' \in [Keys -> Rows]
          /\ \A j \in Keys : j # k => job'[j] = job[j]
          /\ job'[k].status = "RUNNING" /\ job'[k].attempts = job[k].attempts + 1
          /\ job'[k].rerun = job[k].rerun /\ job[k].status \in Pending
      BY <2>1, <3>1 DEF Claimed, IInv, TypeOK, Rows, JobStatus
    <3>3. k \in Plain => job[k].attempts < MaxAttempts + crashes
      BY <2>4, <3>2, KeysAssumption DEF IInv, AttemptsInHand, RunsAreWanted, Pending
    <3>4. k \in Plain => job'[k].attempts <= MaxAttempts + crashes
      BY <2>1, <2>2, <3>2, <3>3 DEF Rows
    <3>5. \A j \in Plain : j # k => job'[j].attempts <= MaxAttempts + crashes
      BY <3>2 DEF IInv, AttemptsInHand, Plain
    <3>. QED BY <3>2, <3>4, <3>5 DEF Pending
  <2>5. CASE worker.pc = "failing" /\ Save(worker.key, worker.read, Failed(worker.read))
    <3>. DEFINE k == worker.key
                new == Failed(worker.read)
    <3>1. k \in Keys /\ worker.read \in Rows
      BY <2>5 DEF IInv, TypeOK, RunsAreWanted
    <3>2. /\ new \in Rows /\ ~ new.rerun /\ new.status \in {"FAILED", "RETRY"}
          /\ new.attempts = worker.read.attempts
      BY <3>1 DEF Failed, Rows, JobStatus
    <3>3. Save(k, worker.read, new)
      BY <2>5
    <3>. HIDE DEF new, k
    <3>4. /\ job' \in [Keys -> Rows]
          /\ \A j \in Keys : j # k => job'[j] = job[j]
          /\ job'[k].status \in {job[k].status, "FAILED", "RETRY"}
          /\ job'[k].attempts = job[k].attempts
          /\ ~ job[k].rerun => ~ job'[k].rerun
      BY <3>1, <3>2, <3>3, SaveEffect DEF IInv
    <3>5. \A j \in Plain : job'[j].attempts = job[j].attempts
      BY <3>4 DEF Plain
    <3>6. \A j \in Plain : job'[j].attempts <= MaxAttempts + crashes
      BY <3>5 DEF IInv, AttemptsInHand
    <3>. QED BY <3>4, <3>6 DEF k
  <2>. QED BY <2>3, <2>4, <2>5 DEF ThreadDies
<1>4. TypeOK'
  BY <1>1, <1>2, <1>3 DEF IInv, TypeOK
<1>5. CallersAreHarmless' /\ PlainNeverReruns' /\ InsertsAlone'
  <2>1. \A j \in Plain : job[j].status = "none" => job'[j] = job[j]
    BY <1>3 DEF IInv, WorkerOwnsItsJob, Plain
  <2>2. \A j \in Keys : job[j].status # "none" => job'[j].status # "none"
    BY <1>3
  <2>. QED BY <1>1, <1>3, <2>1, <2>2
           DEF IInv, CallersAreHarmless, PlainNeverReruns, InsertsAlone, Plain
<1>6. FastIsFallback' /\ RunsAreWanted'
  <2>1. \A j \in Keys : wanted[j] > 0 \/ job'[j].status = "none"
    BY <1>3 DEF IInv, RunsAreWanted
  <2>. QED BY <1>1, <1>2, <2>1, KeysAssumption DEF IInv, FastIsFallback, RunsAreWanted
<1>7. FailureIsCurrent' /\ WorkerOwnsItsJob' /\ WorkerIsUp'
  BY <1>2, KeysAssumption DEF FailureIsCurrent, WorkerOwnsItsJob, WorkerIsUp, Plain
<1>8. AttemptsInHand'
  <2>1. ASSUME NEW j \in Plain
        PROVE  job'[j].attempts < MaxAttempts + crashes'
    <3>1. /\ job'[j].attempts \in Nat /\ MaxAttempts \in Nat /\ crashes \in Nat
          /\ job'[j].attempts <= MaxAttempts + crashes
      BY <1>3, BoundsAssumption DEF IInv, TypeOK, Rows, Plain
    <3>. QED BY <1>1, <3>1
  <2>2. \A j \in Plain : job'[j].attempts \in Nat
    BY <1>3 DEF Rows, Plain
  <2>3. MaxAttempts + crashes' \in Nat
    BY <1>1, BoundsAssumption DEF IInv, TypeOK
  <2>. QED BY <2>1, <2>2, <2>3 DEF AttemptsInHand
<1>9. CompletedMeansDone'
  BY <1>1, <1>3 DEF IInv, CompletedMeansDone
<1>. QED BY <1>4, <1>5, <1>6, <1>7, <1>8, <1>9 DEF IInv

LEMMA CrashKeeps ==
    ASSUME IInv, Crash
    PROVE  IInv'
<1>1. /\ up' = FALSE /\ crashes' = crashes + 1
      /\ caller' = [c \in Callers |-> Idle] /\ fast' = [k \in Keys |-> NoRun]
      /\ worker' = IdleWorker
      /\ UNCHANGED <<job, wanted, served, pushes>>
  BY DEF Crash, workVars
<1>3. TypeOK'
  <2>1. /\ caller' \in [Callers -> [key : Keys \cup {NoKey}, read : Rows, new : Rows]]
        /\ fast' \in [Keys -> [pc : {"none", "running", "succeeded", "retiring"}, read : Rows]]
        /\ worker' \in [pc : {"idle", "claimed", "ran", "failed", "failing", "dead"},
                        key : Keys \cup {NoKey}, saw : Nat, read : Rows]
    BY <1>1, IdleValues
  <2>2. crashes' \in Nat
    BY <1>1 DEF IInv, TypeOK
  <2>3. up' \in BOOLEAN
    BY <1>1, Zenon
  <2>. QED BY <1>1, <2>1, <2>2, <2>3 DEF IInv, TypeOK
<1>4. CallersAreHarmless' /\ PlainNeverReruns' /\ InsertsAlone' /\ FastIsFallback'
  BY <1>1, KeysAssumption DEF IInv, CallersAreHarmless, PlainNeverReruns, InsertsAlone,
                              FastIsFallback, Idle, NoRun, Plain
<1>5. RunsAreWanted' /\ FailureIsCurrent' /\ WorkerOwnsItsJob'
  BY <1>1, KeysAssumption DEF IInv, RunsAreWanted, FailureIsCurrent, WorkerOwnsItsJob,
                              IdleWorker, Plain
<1>6. AttemptsInHand'
  <2>1. ASSUME NEW k \in Plain
        PROVE  job[k].attempts < MaxAttempts + crashes'
    <3>1. job[k].attempts \in Nat /\ MaxAttempts \in Nat /\ crashes \in Nat
      BY BoundsAssumption DEF IInv, TypeOK, Rows, Plain
    <3>. QED BY <1>1, <3>1 DEF IInv, AttemptsInHand
  <2>2. \A k \in Plain : job[k].attempts \in Nat
    BY DEF IInv, TypeOK, Rows, Plain
  <2>3. MaxAttempts + crashes' \in Nat
    BY <1>1, BoundsAssumption DEF IInv, TypeOK
  <2>. QED BY <1>1, <2>1, <2>2, <2>3 DEF AttemptsInHand
<1>7. CompletedMeansDone'
  BY <1>1 DEF IInv, CompletedMeansDone
<1>20. WorkerIsUp'
  BY <1>1 DEF WorkerIsUp, IdleWorker
<1>. QED BY <1>3, <1>4, <1>5, <1>6, <1>7, <1>20 DEF IInv

LEMMA RestartKeeps ==
    ASSUME IInv, Restart
    PROVE  IInv'
<1>1. up' = TRUE /\ UNCHANGED <<caller, fast, worker, wanted, served, pushes, crashes>>
  BY DEF Restart, workVars
<1>2. PICK stale \in SUBSET {k \in Keys : job[k].status = "RUNNING"} :
         job' = [k \in Keys |-> IF k \in stale THEN Recovered(job[k]) ELSE job[k]]
  BY DEF Restart, Recoverable
<1>3. /\ job' \in [Keys -> Rows]
      /\ \A k \in Keys : /\ \/ job'[k] = job[k]
                            \/ job[k].status = "RUNNING" /\ job'[k].status = "RETRY"
                         /\ job'[k].attempts = job[k].attempts
                         /\ ~ job[k].rerun => ~ job'[k].rerun
  <2>1. ASSUME NEW row \in Rows
        PROVE  /\ Recovered(row) \in Rows
               /\ Recovered(row).status = "RETRY"
               /\ Recovered(row).attempts = row.attempts
               /\ ~ Recovered(row).rerun
    BY DEF Recovered, Rows, JobStatus
  <2>. QED BY <1>2, <2>1 DEF IInv, TypeOK
<1>4. worker.key = NoKey
  BY DEF Restart, IInv, WorkerIsUp
<1>5. TypeOK'
  BY <1>1, <1>3 DEF IInv, TypeOK
<1>6. CallersAreHarmless' /\ PlainNeverReruns' /\ InsertsAlone'
  BY <1>1, <1>3 DEF IInv, CallersAreHarmless, PlainNeverReruns, InsertsAlone, Plain
<1>7. FastIsFallback' /\ RunsAreWanted'
  BY <1>1, <1>3 DEF IInv, FastIsFallback, RunsAreWanted
<1>8. FailureIsCurrent' /\ WorkerOwnsItsJob' /\ WorkerIsUp'
  BY <1>1, <1>4, KeysAssumption DEF FailureIsCurrent, WorkerOwnsItsJob, WorkerIsUp, Plain
<1>9. AttemptsInHand'
  BY <1>1, <1>3 DEF IInv, AttemptsInHand, Plain
<1>10. CompletedMeansDone'
  BY <1>1, <1>3 DEF IInv, CompletedMeansDone
<1>. QED BY <1>5, <1>6, <1>7, <1>8, <1>9, <1>10 DEF IInv

LEMMA InitIInv ==
    Init => IInv
<1>. SUFFICES ASSUME Init PROVE IInv
  OBVIOUS
<1>1. TypeOK
  BY IdleValues DEF Init, TypeOK
<1>2. CallersAreHarmless /\ PlainNeverReruns /\ InsertsAlone /\ FastIsFallback
  BY IdleValues, KeysAssumption DEF Init, CallersAreHarmless, PlainNeverReruns,
                                    InsertsAlone, FastIsFallback, NoRow, Plain
<1>3. RunsAreWanted /\ FailureIsCurrent /\ WorkerIsUp /\ WorkerOwnsItsJob /\ CompletedMeansDone
  BY IdleValues, KeysAssumption DEF Init, RunsAreWanted, FailureIsCurrent, WorkerIsUp,
                                    WorkerOwnsItsJob, CompletedMeansDone, NoRow, Plain
<1>4. AttemptsInHand
  BY BoundsAssumption DEF Init, AttemptsInHand, NoRow, Plain
<1>. QED BY <1>1, <1>2, <1>3, <1>4 DEF IInv

LEMMA StutterKeeps ==
    IInv /\ UNCHANGED vars => IInv'
  BY DEF vars, IInv, TypeOK, CallersAreHarmless, PlainNeverReruns, InsertsAlone,
         FastIsFallback, RunsAreWanted, FailureIsCurrent, AttemptsInHand, WorkerIsUp,
         WorkerOwnsItsJob, CompletedMeansDone

LEMMA NextKeeps ==
    IInv /\ Next => IInv'
<1>. SUFFICES ASSUME IInv, Next PROVE IInv'
  OBVIOUS
<1>1. ASSUME NEW c \in Callers, NEW k \in Keys, Enqueue(c, k) \/ Commit(c, k)
      PROVE  IInv'
  BY <1>1, EnqueueKeeps, CommitKeeps
<1>2. ASSUME NEW c \in Callers, Rollback(c)
      PROVE  IInv'
  BY <1>2, RollbackKeeps
<1>3. ASSUME NEW k \in Keys, RunFast(k) \/ RetireRead(k) \/ RetireCommit(k)
      PROVE  IInv'
  BY <1>3, RunFastKeeps, RetireReadKeeps, RetireCommitKeeps
<1>4. ASSUME NEW k \in Keys, Claim(k) \/ WorkerStep(k) \/ FinishFails(k)
      PROVE  IInv'
  BY <1>4, ClaimKeeps, RunKeeps, FinishKeeps, FinishFailsKeeps, FailReadKeeps, FailCommitKeeps
     DEF WorkerStep
<1>. QED BY <1>1, <1>2, <1>3, <1>4, ThreadDiesKeeps, CrashKeeps, RestartKeeps DEF Next

LEMMA Inductive ==
    Spec => []IInv
<1>1. IInv /\ [Next]_vars => IInv'
  BY NextKeeps, StutterKeeps
<1>. QED BY InitIInv, <1>1, PTL DEF Spec

\* A completed plain job stays completed: nobody writes its row any more.
LEMMA NextKeepsCompleted ==
    ASSUME IInv, IInv', Next, NEW k \in Plain, job[k].status = "COMPLETED"
    PROVE  job'[k].status = "COMPLETED"
<1>1. k \in Keys /\ worker.key # k
  BY DEF IInv, WorkerOwnsItsJob, Plain
<1>2. ASSUME NEW c \in Callers, NEW j \in Keys, Enqueue(c, j) \/ Rollback(c)
      PROVE  job' = job
  BY <1>2 DEF Enqueue, Rollback
<1>3. ASSUME NEW c \in Callers, NEW j \in Keys, Commit(c, j)
      PROVE  job'[k].status = "COMPLETED"
  <2>1. /\ caller[c].key = j /\ Save(j, caller[c].read, caller[c].new)
        /\ caller[c].read \in Rows /\ caller[c].new \in Rows
    BY <1>3 DEF Commit, IInv, TypeOK
  <2>2. /\ \A i \in Keys : i # j => job'[i] = job[i]
        /\ job'[j].status = IF caller[c].new.status = caller[c].read.status
                            THEN job[j].status ELSE caller[c].new.status
    BY <2>1, SaveEffect DEF IInv
  <2>3. j = k => caller[c].new.status = caller[c].read.status
    BY <2>1 DEF IInv, CallersAreHarmless
  <2>. QED BY <1>1, <2>2, <2>3
<1>4. ASSUME NEW j \in Keys,
             RunFast(j) \/ RetireRead(j) \/ Run(j) \/ FinishFails(j) \/ FailRead(j)
      PROVE  job' = job
  BY <1>4 DEF RunFast, RetireRead, Run, FinishFails, FailRead
<1>5. ASSUME NEW j \in Keys, RetireCommit(j)
      PROVE  job'[k] = job[k]
  <2>1. j # k
    BY <1>5 DEF RetireCommit, IInv, FastIsFallback, Plain
  <2>. QED BY <1>1, <1>5, <2>1 DEF RetireCommit, Save, IInv, TypeOK
<1>6. ASSUME NEW j \in Keys, Claim(j)
      PROVE  job'[k] = job[k]
  <2>1. j # k
    BY <1>6 DEF Claim, Claimed, Pending
  <2>. QED BY <1>1, <1>6, <2>1 DEF Claim, Claimed, IInv, TypeOK
<1>7. ASSUME NEW j \in Keys, Finish(j) \/ FailCommit(j)
      PROVE  job'[k] = job[k]
  <2>1. j # k
    BY <1>1, <1>7 DEF Finish, FailCommit, Working
  <2>. QED BY <1>1, <1>7, <2>1 DEF Finish, FailCommit, Save, IInv, TypeOK
<1>8. ASSUME Restart
      PROVE  job'[k] = job[k]
  BY <1>1, <1>8 DEF Restart, Recoverable
<1>9. ASSUME Crash
      PROVE  job' = job
  BY <1>9 DEF Crash
<1>11. ASSUME ThreadDies
       PROVE  job'[k].status = "COMPLETED"
  <2>1. CASE UNCHANGED job
    BY <2>1
  <2>2. CASE worker.pc = "idle" /\ \E j \in Keys : Claimed(j)
    BY <1>1, <2>2 DEF Claimed, Pending, IInv, TypeOK
  <2>3. CASE worker.pc = "failing" /\ Save(worker.key, worker.read, Failed(worker.read))
    BY <1>1, <2>3 DEF Save, IInv, TypeOK
  <2>. QED BY <1>11, <2>1, <2>2, <2>3 DEF ThreadDies
<1>10. \/ ThreadDies \/ Crash \/ Restart
       \/ \E c \in Callers, j \in Keys : Enqueue(c, j) \/ Commit(c, j) \/ Rollback(c)
       \/ \E j \in Keys : \/ RunFast(j) \/ RetireRead(j) \/ RetireCommit(j) \/ Claim(j)
                          \/ Run(j) \/ Finish(j) \/ FailRead(j) \/ FailCommit(j)
                          \/ FinishFails(j)
  BY <1>1 DEF Next, WorkerStep
<1>. QED BY <1>2, <1>3, <1>4, <1>5, <1>6, <1>7, <1>8, <1>9, <1>10, <1>11

-----------------------------------------------------------------------------
\* The columns of the queue have their types, in whatever order transactions,
\* the worker and crashes write them (trade_jobs/models.py).
THEOREM QueueTypeOK == Spec => []TypeOK
<1>1. IInv => TypeOK
  BY DEF IInv
<1>. QED BY <1>1, Inductive, PTL

\* A job that is COMPLETED was carried out at least once: neither a stale
\* enqueuer nor the retirement of a fallback completes one that was not
\* (_execute, run_torum_v1_with_durable_fallback).
THEOREM CompletedIsDone == Spec => []CompletedMeansDone
<1>1. IInv => CompletedMeansDone
  BY DEF IInv
<1>. QED BY <1>1, Inductive, PTL

\* The worker's plain job stays RUNNING in the table until the worker itself
\* writes it (_claim_one, enqueue_trade_job).
THEOREM JobsStayOwned == Spec => []WorkerOwnsItsJob
<1>1. IInv => WorkerOwnsItsJob
  BY DEF IInv
<1>. QED BY <1>1, Inductive, PTL

\* The attempts of a plain job stay within the limit and one per crash.
THEOREM AttemptsAreBounded == Spec => []AttemptsBounded
<1>1. IInv => AttemptsBounded
  BY DEF IInv, AttemptsInHand, AttemptsBounded
<1>. QED BY <1>1, Inductive, PTL

\* A completed plain job is never run again, however often it is enqueued.
THEOREM CompletedStays == Spec => CompletedIsFinal
<1>1. IInv /\ IInv' /\ [Next]_vars
         => [\A k \in Plain : job[k].status = "COMPLETED" => job'[k].status = "COMPLETED"]_vars
  BY NextKeepsCompleted
<1>. QED BY <1>1, Inductive, PTL DEF Spec, CompletedIsFinal
=============================================================================
