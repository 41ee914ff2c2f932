-------------------------- MODULE Operations_proofs --------------------------
(* Three promises of the operations that no interleaving may break: a         *)
(* cancelled backtest is never given a result, the calendar loses no event    *)
(* that its sources still have or the user has entered, and a restart that is *)
(* recorded as done has renewed what it is for.                               *)
EXTENDS BacktestJobs, Watchdog, NewsCalendar, SequenceTheorems, TLAPS

JobsSpec == JobsInit /\ [][JobsNext]_jobVars
NewsSpec == NewsInit /\ [][NewsNext]_newsVars

----------------------------------------------------------------------------
(* The backtests.  That a cancelled job has no result is not inductive: a job *)
(* could be taken out of the queue again after it has ended, and a thread     *)
(* could settle a job that waits.  The invariant says that an id is in the    *)
(* queue once and without a result, that a job a thread works at is not in    *)
(* the queue, and that only a completed job has a result.                     *)

Fields == {"status", "stage", "cancel", "result", "end"}
IsJob(j) == DOMAIN j = Fields /\ j.cancel \in BOOLEAN /\ j.result \in BOOLEAN

JobShape ==
  /\ jobs = [i \in Ids |-> jobs[i]] /\ \A i \in Ids : IsJob(jobs[i])
  /\ worker = [w \in Workers |-> worker[w]]
  /\ \A w \in Workers : DOMAIN worker[w] = {"job", "at", "progress"}
  /\ started \in 0..MaxJobs /\ queue \in Seq(Ids)
NotStarted == \A i \in Ids : i > started => jobs[i] = NoJob
ResultIsTheLast ==
  \A i \in Ids : jobs[i].result => jobs[i].status = "COMPLETED" /\ ~jobs[i].cancel
QueuedOnce ==
  /\ \A n \in 1..Len(queue) : queue[n] <= started /\ ~jobs[queue[n]].result
  /\ \A n, m \in 1..Len(queue) : n # m => queue[n] # queue[m]
Taken ==
  \A w \in Workers : worker[w].at # "idle" =>
    /\ worker[w].job \in 1..started
    /\ \A n \in 1..Len(queue) : queue[n] # worker[w].job
JobsInv == JobShape /\ NotStarted /\ ResultIsTheLast /\ QueuedOnce /\ Taken

\* NoResultAfterCancel and NothingElseIsErased as actions.
LateCancel ==
  \A i \in Ids : jobs[i].cancel /\ jobs'[i] # NoJob => jobs'[i].cancel /\ ~jobs'[i].result

\* The invariant holds at the start.
LEMMA JobsStart == JobsInit => JobsInv
<1> SUFFICES ASSUME JobsInit PROVE JobsInv
  OBVIOUS
<1>1. JobShape
  <2>1. IsJob(NoJob) /\ DOMAIN Resting = {"job", "at", "progress"}
    BY DEF IsJob, Fields, NoJob, Resting
  <2>2. jobs = [i \in Ids |-> NoJob] /\ worker = [w \in Workers |-> Resting]
    BY DEF JobsInit
  <2>3. started \in 0..MaxJobs /\ queue \in Seq(Ids)
    BY JobsAssumption DEF JobsInit
  <2>4. /\ jobs = [i \in Ids |-> jobs[i]] /\ worker = [w \in Workers |-> worker[w]]
        /\ \A i \in Ids : jobs[i] = NoJob
        /\ \A w \in Workers : worker[w] = Resting
    BY <2>2
  <2> QED BY <2>1, <2>3, <2>4 DEF JobShape
<1>2. NotStarted /\ ResultIsTheLast
  BY DEF JobsInit, NotStarted, ResultIsTheLast, NoJob
<1>3. QueuedOnce /\ Taken
  BY DEF JobsInit, QueuedOnce, Taken, Resting
<1> QED BY <1>1, <1>2, <1>3 DEF JobsInv

\* A new job is the last of the queue; what is pruned is gone.
LEMMA StartKeeps == ASSUME JobsInv, Start PROVE JobsInv' /\ LateCancel
<1>1. /\ started' \in Ids /\ started' = started + 1 /\ started' \in 0..MaxJobs
      /\ queue' = Append(queue, started') /\ queue \in Seq(Ids) /\ worker' = worker
  BY JobsAssumption DEF Start, JobsInv, JobShape, Ids
<1>2. /\ queue' \in Seq(Ids) /\ Len(queue') = Len(queue) + 1 /\ queue'[Len(queue')] = started'
      /\ \A n \in 1..Len(queue) : queue'[n] = queue[n] /\ queue[n] \in Ids
  BY <1>1
<1>3. /\ jobs' = [i \in Ids |-> jobs'[i]] /\ jobs'[started'] = NewJob
      /\ \A i \in Ids : i # started' => jobs'[i] = NoJob \/ jobs'[i] = jobs[i]
  BY <1>1 DEF Start
<1>4. /\ IsJob(NoJob) /\ IsJob(NewJob) /\ ~NoJob.cancel /\ ~NoJob.result
      /\ ~NewJob.cancel /\ ~NewJob.result
  BY DEF IsJob, Fields, NewJob, NoJob
<1>5. JobShape'
  <2>1. \A i \in Ids : IsJob(jobs'[i])
    BY <1>3, <1>4 DEF JobsInv, JobShape
  <2> QED BY <1>1, <1>2, <1>3, <2>1 DEF JobsInv, JobShape, IsJob
<1>6. NotStarted'
  BY <1>1, <1>3 DEF JobsInv, NotStarted, JobShape, Ids
<1>7. ResultIsTheLast'
  BY <1>3, <1>4 DEF JobsInv, ResultIsTheLast
<1>8. QueuedOnce'
  <2>1. \A n \in 1..Len(queue) : queue[n] <= started /\ queue[n] # started'
    BY <1>1, <1>2 DEF JobsInv, QueuedOnce, JobShape, Ids
  <2>2. \A n \in 1..Len(queue') : n = Len(queue') \/ n \in 1..Len(queue)
    BY <1>1, <1>2
  <2>3. \A n \in 1..Len(queue') : queue'[n] <= started' /\ ~jobs'[queue'[n]].result
    BY <1>1, <1>2, <1>3, <1>4, <2>1, <2>2 DEF JobsInv, QueuedOnce, JobShape, Ids
  <2>4. \A n, m \in 1..Len(queue') : n # m => queue'[n] # queue'[m]
    BY <1>1, <1>2, <2>1, <2>2 DEF JobsInv, QueuedOnce
  <2> QED BY <2>3, <2>4 DEF QueuedOnce
<1>9. Taken'
  BY <1>1, <1>2 DEF JobsInv, Taken, JobShape, Ids
<1>10. LateCancel
  <2>1. ~jobs[started'].cancel
    BY <1>1, <1>4 DEF JobsInv, JobShape, NotStarted
  <2> QED BY <1>1, <1>3, <1>4, <2>1 DEF JobsInv, LateCancel, ResultIsTheLast
<1> QED BY <1>5, <1>6, <1>7, <1>8, <1>9, <1>10 DEF JobsInv

\* What a step does to one job, when it starts none: it keeps the cancellation
\* of the job, and its result goes with the end.
Touches(i) ==
  /\ i \in 1..started /\ \A k \in Ids : k # i => jobs'[k] = jobs[k]
  /\ jobs' = [k \in Ids |-> jobs'[k]] /\ IsJob(jobs'[i])
  /\ jobs[i].cancel => jobs'[i].cancel
  /\ jobs'[i].result => jobs'[i].status = "COMPLETED" /\ ~jobs'[i].cancel

\* What follows of all jobs when one is touched.
LEMMA TouchedJobs == ASSUME JobsInv, NEW i, Touches(i), started' = started
  PROVE /\ NotStarted' /\ ResultIsTheLast' /\ LateCancel
        /\ jobs' = [k \in Ids |-> jobs'[k]] /\ \A k \in Ids : IsJob(jobs'[k])
<1>1. i \in Ids /\ started \in 0..MaxJobs
  BY JobsAssumption DEF Touches, JobsInv, JobShape, Ids
<1> USE DEF Touches, JobsInv
<1>2. NotStarted'
  BY <1>1 DEF NotStarted, Ids
<1>3. ResultIsTheLast'
  BY <1>1 DEF ResultIsTheLast
<1>4. LateCancel
  BY <1>1 DEF LateCancel, ResultIsTheLast
<1>5. \A k \in Ids : IsJob(jobs'[k])
  BY <1>1 DEF JobShape
<1> QED BY <1>2, <1>3, <1>4, <1>5

\* A request that cancels a job finds it without a result.
LEMMA CancelKeeps == ASSUME JobsInv, NEW i \in Ids, Cancel(i) PROVE JobsInv' /\ LateCancel
<1>1. i \in 1..started
  BY JobsAssumption DEF JobsInv, JobShape, NotStarted, NoJob, Cancel, Active, Ids
<1>2. ~jobs[i].result
  BY DEF JobsInv, ResultIsTheLast, Cancel, Active
<1>3. /\ jobs' = [k \in Ids |-> jobs'[k]] /\ \A k \in Ids : k # i => jobs'[k] = jobs[k]
      /\ IsJob(jobs'[i]) /\ jobs'[i].cancel /\ jobs'[i].result = jobs[i].result
  BY DEF Cancel, JobsInv, JobShape, IsJob, Fields
<1>4. Touches(i) /\ ~jobs'[i].result
  BY <1>1, <1>2, <1>3 DEF Touches
<1>5. UNCHANGED <<started, queue, worker>>
  BY DEF Cancel
<1>6. JobShape' /\ NotStarted' /\ ResultIsTheLast' /\ LateCancel
  BY <1>4, <1>5, TouchedJobs DEF JobShape, JobsInv, IsJob
<1>7. QueuedOnce' /\ Taken'
  BY <1>4, <1>5 DEF QueuedOnce, Taken, JobsInv, JobShape, Touches
<1> QED BY <1>6, <1>7 DEF JobsInv

\* The fields of a thread after a step that only moves it.
LEMMA ThreadMoves ==
  ASSUME JobsInv, NEW w \in Workers, worker[w].at # "idle", NEW at,
         worker' = [worker EXCEPT ![w].at = at], UNCHANGED <<started, queue, jobs>>
  PROVE JobsInv' /\ LateCancel
<1>1. /\ worker' = [v \in Workers |-> worker'[v]]
      /\ \A v \in Workers : DOMAIN worker'[v] = {"job", "at", "progress"}
      /\ worker'[w].job = worker[w].job /\ \A v \in Workers : v # w => worker'[v] = worker[v]
  BY DEF JobsInv, JobShape
<1>2. JobShape' /\ Taken'
  BY <1>1 DEF JobsInv, JobShape, Taken
<1>3. NotStarted' /\ ResultIsTheLast' /\ QueuedOnce'
  BY DEF JobsInv, NotStarted, ResultIsTheLast, QueuedOnce
<1>4. LateCancel
  BY DEF JobsInv, ResultIsTheLast, LateCancel
<1> QED BY <1>2, <1>3, <1>4 DEF JobsInv

\* A step that changes no job, no thread and not the queue keeps the invariant.
LEMMA OthersKeep ==
  ASSUME JobsInv, UNCHANGED <<started, queue, jobs, worker>> PROVE JobsInv' /\ LateCancel
BY DEF JobsInv, JobShape, NotStarted, ResultIsTheLast, QueuedOnce, Taken, LateCancel

\* A report of the engine changes the stage of a job only.
LEMMA ReportKeeps == ASSUME JobsInv, NEW w \in Workers, Report(w) PROVE JobsInv' /\ LateCancel
<1> DEFINE i == worker[w].job
<1>1. i \in 1..started /\ i \in Ids
  BY JobsAssumption DEF Report, JobsInv, JobShape, Taken, Ids
<1>2. /\ worker' = [v \in Workers |-> worker'[v]]
      /\ \A v \in Workers : DOMAIN worker'[v] = {"job", "at", "progress"}
      /\ worker'[w].job = i /\ \A v \in Workers : v # w => worker'[v] = worker[v]
  BY DEF Report, JobsInv, JobShape
<1>3. /\ Touches(i) /\ jobs'[i].result = jobs[i].result
      /\ UNCHANGED <<started, queue>>
  <2>1. CASE jobs' = jobs
    BY <1>1, <2>1 DEF Report, Touches, JobsInv, JobShape, ResultIsTheLast
  <2>2. CASE jobs' = [jobs EXCEPT ![i].stage = "COMPUTING"]
    <3>1. /\ jobs' = [k \in Ids |-> jobs'[k]] /\ \A k \in Ids : k # i => jobs'[k] = jobs[k]
          /\ jobs'[i].cancel = jobs[i].cancel /\ jobs'[i].result = jobs[i].result
          /\ jobs'[i].status = jobs[i].status /\ DOMAIN jobs'[i] = DOMAIN jobs[i]
      BY <1>1, <2>2 DEF JobsInv, JobShape, IsJob, Fields
    <3> QED BY <1>1, <3>1 DEF Report, Touches, JobsInv, JobShape, ResultIsTheLast, IsJob
  <2> QED BY <2>1, <2>2 DEF Report
<1> HIDE DEF i
<1>4. NotStarted' /\ ResultIsTheLast' /\ LateCancel /\ JobShape'
  BY <1>2, <1>3, TouchedJobs DEF JobsInv, JobShape
<1>5. QueuedOnce'
  BY <1>1, <1>3 DEF QueuedOnce, JobsInv, JobShape, Touches
<1>6. Taken'
  <2>1. \A v \in Workers : worker'[v].at # "idle" => worker[v].at # "idle" /\ worker'[v].job = worker[v].job
    BY <1>2 DEF Report, i
  <2> QED BY <1>3, <2>1 DEF Taken, JobsInv
<1> QED BY <1>4, <1>5, <1>6 DEF JobsInv

\* A job that is settled has a result when it was completed, uncancelled.
LEMMA SettledJob ==
  ASSUME JobsInv, NEW i \in 1..started, NEW status,
         jobs' = Settled(i, status), status = "COMPLETED" => ~jobs[i].cancel
  PROVE Touches(i) /\ (status # "COMPLETED" => ~jobs'[i].result)
<1>1. i \in Ids
  BY JobsAssumption DEF JobsInv, JobShape, Ids
<1>2. /\ jobs' = [k \in Ids |-> jobs'[k]] /\ \A k \in Ids : k # i => jobs'[k] = jobs[k]
      /\ jobs'[i].cancel = jobs[i].cancel /\ jobs'[i].result = (status = "COMPLETED")
      /\ jobs'[i].status = status /\ DOMAIN jobs'[i] = DOMAIN jobs[i]
  BY <1>1 DEF JobsInv, JobShape, IsJob, Fields, Settled
<1> QED BY <1>1, <1>2 DEF Touches, IsJob, JobsInv, JobShape

\* A thread settles a job that is not in the queue, by its verdict.
LEMMA SettleKeeps == ASSUME JobsInv, NEW w \in Workers, Settle(w) PROVE JobsInv' /\ LateCancel
<1> DEFINE i == worker[w].job
<1>1. i \in 1..started /\ i \in Ids /\ \A n \in 1..Len(queue) : queue[n] # i
  BY JobsAssumption DEF Settle, JobsInv, JobShape, Taken, Ids
<1>2. /\ worker' = [v \in Workers |-> worker'[v]] /\ worker'[w] = Resting
      /\ \A v \in Workers : v # w => worker'[v] = worker[v]
      /\ DOMAIN Resting = {"job", "at", "progress"} /\ Resting.at = "idle"
  BY DEF Settle, Rests, Resting, JobsInv, JobShape
<1>3. Touches(i) /\ UNCHANGED <<started, queue>>
  <2>1. Verdict(i, worker[w].at) = "COMPLETED" => ~jobs[i].cancel
    BY DEF Verdict, Settle
  <2> QED BY <1>1, <2>1, SettledJob DEF Settle
<1> HIDE DEF i
<1>4. NotStarted' /\ ResultIsTheLast' /\ LateCancel /\ JobShape'
  BY <1>2, <1>3, TouchedJobs DEF JobsInv, JobShape
<1>5. QueuedOnce'
  BY <1>1, <1>3 DEF QueuedOnce, JobsInv, JobShape, Touches
<1>6. Taken'
  BY <1>2, <1>3 DEF Taken, JobsInv
<1> QED BY <1>4, <1>5, <1>6 DEF JobsInv

\* A thread takes a job out of the queue for good.
LEMMA TakeKeeps == ASSUME JobsInv, NEW w \in Workers, Take(w) PROVE JobsInv' /\ LateCancel
<1> DEFINE i == Head(queue)
<1>1. /\ queue \in Seq(Ids) /\ queue # <<>> /\ queue' = Tail(queue) /\ started' = started
      /\ worker[w] = Resting
  BY DEF Take, JobsInv, JobShape
<1>2. /\ i = queue[1] /\ Len(queue) >= 1 /\ queue' \in Seq(Ids) /\ Len(queue') = Len(queue) - 1
      /\ \A n \in 1..Len(queue') : n + 1 \in 1..Len(queue) /\ queue'[n] = queue[n + 1]
      /\ i \in Ids
  BY <1>1
<1>3. i \in 1..started /\ ~jobs[i].result /\ \A n \in 1..Len(queue') : queue'[n] # i
  BY <1>2 DEF JobsInv, QueuedOnce, Ids, JobShape
<1>4. Touches(i) /\ ~jobs'[i].result
  <2>1. CASE jobs' = jobs
    BY <1>2, <1>3, <2>1 DEF Touches, JobsInv, JobShape
  <2>2. CASE jobs' = Settled(i, "CANCELLED")
    BY <1>3, <2>2, SettledJob
  <2>3. CASE jobs' = [jobs EXCEPT ![i].status = "RUNNING", ![i].stage = "PREPARING"]
    <3>1. /\ jobs' = [k \in Ids |-> jobs'[k]] /\ \A k \in Ids : k # i => jobs'[k] = jobs[k]
          /\ jobs'[i].cancel = jobs[i].cancel /\ jobs'[i].result = jobs[i].result
          /\ DOMAIN jobs'[i] = DOMAIN jobs[i]
      BY <1>2, <2>3 DEF JobsInv, JobShape, IsJob, Fields
    <3> QED BY <1>2, <1>3, <3>1 DEF Touches, IsJob, JobsInv, JobShape
  <2> QED BY <2>1, <2>2, <2>3 DEF Take
<1>5. /\ worker' = [v \in Workers |-> worker'[v]]
      /\ \A v \in Workers : v # w => worker'[v] = worker[v]
      /\ worker'[w] = Resting \/ worker'[w] = [job |-> i, at |-> "loading", progress |-> 0]
  BY <1>1 DEF Take, JobsInv, JobShape
<1>6. /\ \A v \in Workers : DOMAIN worker'[v] = {"job", "at", "progress"}
      /\ worker'[w].at = "idle" \/ worker'[w].job = i
  BY <1>5 DEF Resting, JobsInv, JobShape
<1> HIDE DEF i
<1>7. NotStarted' /\ ResultIsTheLast' /\ LateCancel /\ JobShape'
  BY <1>1, <1>2, <1>4, <1>5, <1>6, TouchedJobs DEF JobsInv, JobShape
<1>8. QueuedOnce'
  <2>1. ASSUME NEW n \in 1..Len(queue') PROVE queue'[n] <= started' /\ ~jobs'[queue'[n]].result
    <3>1. n + 1 \in 1..Len(queue) /\ queue'[n] = queue[n + 1] /\ queue'[n] # i
      BY <1>2, <1>3
    <3>2. queue[n + 1] \in Ids /\ queue[n + 1] <= started /\ ~jobs[queue[n + 1]].result
      BY <1>1, <3>1 DEF QueuedOnce, JobsInv
    <3>3. jobs'[queue'[n]] = jobs[queue[n + 1]]
      BY <1>4, <3>1, <3>2 DEF Touches
    <3> QED BY <1>1, <3>1, <3>2, <3>3
  <2>2. ASSUME NEW n \in 1..Len(queue'), NEW m \in 1..Len(queue'), n # m PROVE queue'[n] # queue'[m]
    <3>1. n + 1 \in 1..Len(queue) /\ m + 1 \in 1..Len(queue)
      BY <1>2
    <3>2. n \in Int /\ m \in Int /\ n + 1 # m + 1
      BY <1>2, <2>2
    <3>3. queue[n + 1] # queue[m + 1]
      BY <3>1, <3>2 DEF QueuedOnce, JobsInv
    <3> QED BY <1>2, <3>3
  <2> QED BY <2>1, <2>2 DEF QueuedOnce
<1>9. Taken'
  BY <1>1, <1>2, <1>3, <1>5, <1>6 DEF Taken, JobsInv
<1> QED BY <1>7, <1>8, <1>9 DEF JobsInv

\* Every step keeps the invariant and the cancellations.
LEMMA JobsStep == ASSUME JobsInv, [JobsNext]_jobVars PROVE JobsInv' /\ LateCancel
<1>1. CASE Start
  BY <1>1, StartKeeps
<1>2. CASE DeleteConfig \/ (\E i \in Ids : Expire(i)) \/ UNCHANGED jobVars
  BY <1>2, OthersKeep DEF DeleteConfig, Expire, jobVars
<1>3. ASSUME NEW i \in Ids, Cancel(i) PROVE JobsInv' /\ LateCancel
  BY <1>3, CancelKeeps
<1>4. ASSUME NEW w \in Workers, Load(w) \/ Ask(w) \/ Compute(w) PROVE JobsInv' /\ LateCancel
  <2>1. PICK at : worker' = [worker EXCEPT ![w].at = at]
    BY <1>4 DEF Load, Ask, Compute, Goes
  <2>2. worker[w].at # "idle" /\ UNCHANGED <<started, queue, jobs>>
    BY <1>4 DEF Load, Ask, Compute
  <2> QED BY <2>1, <2>2, ThreadMoves
<1>5. ASSUME NEW w \in Workers, Take(w) \/ Report(w) \/ Settle(w) PROVE JobsInv' /\ LateCancel
  BY <1>5, TakeKeeps, ReportKeeps, SettleKeeps
<1> QED BY <1>1, <1>2, <1>3, <1>4, <1>5 DEF JobsNext, WorkerStep

\* A client that was answered CANCELLING is never given a result, whatever the
\* threads, the requests and the pruning of ended jobs do (_run, cancel_job).
THEOREM CancelledJobHasNoResult == JobsSpec => NoResultAfterCancel
<1>1. JobsInit /\ [][JobsNext]_jobVars => [][LateCancel]_jobVars
  <2>1. JobsInv /\ [JobsNext]_jobVars => JobsInv' /\ [LateCancel]_jobVars
    BY JobsStep
  <2> QED BY JobsStart, <2>1, PTL
<1> QED BY <1>1 DEF JobsSpec, NoResultAfterCancel, LateCancel

----------------------------------------------------------------------------
(* The calendar.  A step keeps the id of every event, or it erases what the   *)
(* sync found in no source, or it deletes an event for the user.              *)

RightlyErased ==
  \A e \in rows : e.id \notin {f.id : f \in rows'} =>
    \/ \E g \in rows : g.id = e.id /\ DeleteEvent(g)
    \/ /\ e.id # Manual /\ writer["sync"].failed \subseteq Optional /\ Is("sync", "import")
       /\ Ahead(e.time)
       /\ writer["sync"].known = "exclude" \/ e.id \notin writer["sync"].raw

\* An event that is saved keeps its id, and all others.
LEMMA SavedKeepsIds == ASSUME NEW id, NEW time, rows' = Saved(id, time) PROVE RightlyErased
<1>1. \A e \in rows : \E f \in rows' : f.id = e.id
  <2> TAKE e \in rows
  <2>1. CASE e.id = id
    <3>1. [id |-> id, time |-> time] \in rows' /\ [id |-> id, time |-> time].id = id
      BY DEF Saved
    <3> QED BY <2>1, <3>1
  <2>2. CASE e.id # id
    BY <2>2 DEF Saved
  <2> QED BY <2>1, <2>2
<1> QED BY <1>1 DEF RightlyErased

\* Only an import, a reconciliation and the user write events.
LEMMA OnlyThreeWrite == ASSUME NewsNext, rows' # rows
  PROVE \/ ImportEvent \/ Reconcile
        \/ \E t \in Times, id \in {Manual} \cup {e.id : e \in rows} : SaveEvent(id, t)
        \/ \E e \in rows : DeleteEvent(e)
BY DEF NewsNext, Hour, SyncStep, StartSync, Fetch, RestartApi, ZoneStep, CommitZones, BeginRegeneration,
       CommitRegeneration, PatchSettings, Reschedule

\* What a reconciliation erases, no source has.
LEMMA ReconcileErasesRightly == ASSUME Reconcile PROVE RightlyErased
<1> SUFFICES ASSUME NEW e \in rows, e.id \notin {f.id : f \in rows'}
    PROVE /\ e.id # Manual /\ writer["sync"].failed \subseteq Optional /\ Is("sync", "import")
          /\ Ahead(e.time)
          /\ writer["sync"].known = "exclude" \/ e.id \notin writer["sync"].raw
  BY DEF RightlyErased
<1>1. e \notin rows'
  OBVIOUS
<1>2. e \in Stale /\ SafeToReconcile /\ Is("sync", "import")
  BY <1>1 DEF Reconcile
<1> QED BY <1>2 DEF Stale, Expected, SafeToReconcile

\* Every step erases rightly.
LEMMA StepErasesRightly == ASSUME [NewsNext]_newsVars PROVE RightlyErased
<1>1. CASE rows' = rows
  BY <1>1 DEF RightlyErased
<1>2. CASE ImportEvent
  BY <1>2, SavedKeepsIds DEF ImportEvent
<1>3. CASE Reconcile
  BY <1>3, ReconcileErasesRightly
<1>4. CASE \E t \in Times, id \in {Manual} \cup {e.id : e \in rows} : SaveEvent(id, t)
  BY <1>4, SavedKeepsIds DEF SaveEvent
<1>5. CASE \E e \in rows : DeleteEvent(e)
  <2>1. PICK g \in rows : DeleteEvent(g)
    BY <1>5
  <2>2. \A e \in rows : e \in rows' \/ e = g
    BY <2>1 DEF DeleteEvent
  <2> QED BY <2>1, <2>2 DEF RightlyErased
<1> QED BY <1>1, <1>2, <1>3, <1>4, <1>5, OnlyThreeWrite DEF newsVars

\* An event goes only when the user deletes it, or when it lies in the window
\* of a sync that every official source answered and that did not find it; an
\* event of the user never goes (_reconcile_automatic_calendar).
THEOREM EventsAreErasedRightly == NewsSpec => NothingElseIsErased
<1>1. NewsInit /\ [][NewsNext]_newsVars => [][RightlyErased]_newsVars
  <2>1. [NewsNext]_newsVars => [RightlyErased]_newsVars
    BY StepErasesRightly
  <2> QED BY <2>1, PTL
<1> QED BY <1>1 DEF NewsSpec, NothingElseIsErased, RightlyErased

----------------------------------------------------------------------------
(* The watchdog.  A verdict is recorded after the last step of a restart, and *)
(* says nothing of the steps before.  The invariant says of every component   *)
(* that a restart promises that it is still to come, or that its steps are    *)
(* under way and its old process ends with the first of them, or that it has  *)
(* been renewed.                                                              *)

WatchSpec == WatchInit /\ [][WatchNext]_watchVars

\* Targets of restart requests, without the restart of the computer, and
\* processes that the watchdog may terminate.
Restartable == Targets \subseteq Components \cup {"all"} /\ Stubborn = {} /\ Crashing \subseteq Components

Verdicts == {"RESTARTING", "OK", "FAIL", "LOST"}
Generations ==
  /\ run \in [Components -> Nat] /\ made \in [Components -> Nat] /\ base \in [Components -> Nat]
  /\ \A c \in Components : run[c] <= made[c] /\ base[c] <= made[c]

\* The steps of a component by what they do, and the steps that are left.
Dos(c) == IF c \in {"mt5", "bridge"} THEN <<"kill", "start", "check">>
          ELSE IF c = "frontend" /\ FrontendCmd THEN <<"launch">>
          ELSE <<"stop", "build", "up">>
Commands == {"kill", "start", "check", "stop", "build", "up", "launch"}
AllSteps == Seq([component : Components, do : Commands])
LastSteps(c) ==
  /\ thread.steps \in AllSteps /\ Len(thread.steps) \in 1..Len(Dos(c))
  /\ \A i \in 1..Len(thread.steps) :
       thread.steps[i] = [component |-> c, do |-> Dos(c)[Len(Dos(c)) - Len(thread.steps) + i]]

\* The components that come after one in a restart of everything.
After(c) == CASE c = "api" -> <<"frontend", "mt5", "bridge">>
              [] c = "frontend" -> <<"mt5", "bridge">>
              [] c = "mt5" -> <<"bridge">>
              [] c = "bridge" -> <<>>

ThreadShape ==
  /\ DOMAIN thread = {"target", "steps", "later"}
  /\ thread = [target |-> thread.target, steps |-> thread.steps, later |-> thread.later]
  /\ thread.target \in Targets \cup {"none", "failed"}
  /\ \/ thread.steps = <<>> /\ thread.later = <<>>
     \/ \E c \in Components :
          /\ LastSteps(c)
          /\ \/ thread.target = "all" /\ thread.later = After(c)
             \/ thread.target = c /\ thread.later = <<>>
  /\ thread.target \in {"none", "failed"} => thread.steps = <<>>

\* A request is answered once, by the thread that has the lock.
OneVerdict ==
  /\ lock \in BOOLEAN /\ actions \in Seq(Verdicts)
  /\ \A i \in 1..Len(actions) : actions[i] = "RESTARTING" => lock /\ i = Len(actions)
  /\ thread.target # "none" => lock /\ Len(actions) > 0

OldIsGone(c) == run[c] = 0 \/ run[c] > base[c]
Renewed(c) == made[c] > base[c] /\ OldIsGone(c)
ToCome(c) == \E i \in 1..Len(thread.later) : thread.later[i] = c
UnderWay(c) ==
  /\ thread.steps # <<>> /\ thread.steps[1].component = c
  /\ thread.steps[1].do \in {"start", "check"} => OldIsGone(c)
PromiseKept ==
  thread.target \in Targets => \A c \in Promised(thread.target) : ToCome(c) \/ UnderWay(c) \/ Renewed(c)

WatchInv == Generations /\ ThreadShape /\ OneVerdict /\ PromiseKept

\* What VerdictIsTrue says of a step.
TrueVerdict ==
  /\ Finish /\ thread.target # "failed" =>
       \A c \in Promised(thread.target) : made[c] > base[c] /\ (run[c] = 0 \/ run[c] > base[c])
  /\ \A i \in DOMAIN actions' : actions'[i] = "RESTARTING" => lock'

\* At the start nothing is being restarted.
LEMMA WatchStart == ASSUME Restartable, WatchInit PROVE WatchInv
<1>. USE DEF WatchInit
<1>1. Generations
  BY DEF Generations
<1>2. "none" \notin Targets
  BY DEF Restartable, Components
<1>3. ThreadShape
  BY DEF ThreadShape, Idle
<1>4. OneVerdict
  <2>1. <<>> \in Seq(Verdicts) /\ Len(<<>>) = 0
    OBVIOUS
  <2>2. lock = FALSE /\ actions = <<>> /\ thread.target = "none"
    BY DEF Idle
  <2>3. actions \in Seq(Verdicts) /\ Len(actions) = 0
    BY <2>1, <2>2
  <2>4. 1..Len(actions) = {}
    BY <2>3
  <2>5. lock \in BOOLEAN
    BY <2>2
  <2>. QED BY ONLY <2>2, <2>3, <2>4, <2>5, Zenon DEF OneVerdict
<1>5. PromiseKept
  BY <1>2 DEF PromiseKept, Idle
<1>. QED BY <1>1, <1>3, <1>4, <1>5 DEF WatchInv

\* The restart of a component is the sequence of its steps.
LEMMA RestartIsItsSteps ==
  ASSUME NEW c \in Components
  PROVE  /\ Restart(c) \in AllSteps /\ Len(Restart(c)) = Len(Dos(c))
         /\ \A i \in 1..Len(Restart(c)) : Restart(c)[i] = [component |-> c, do |-> Dos(c)[i]]
<1>1. ASSUME NEW d, \A i \in 1..3 : d[i] \in Commands,
             NEW s, s = [i \in 1..3 |-> [component |-> c, do |-> d[i]]]
      PROVE  s \in AllSteps /\ Len(s) = 3 /\ \A i \in 1..3 : s[i] = [component |-> c, do |-> d[i]]
  <2>2. s \in [1..3 -> [component : Components, do : Commands]]
    BY <1>1
  <2>3. s \in AllSteps
    <3>. DEFINE S == [component : Components, do : Commands]
    <3>1. s \in [1..3 -> S]
      BY <2>2
    <3>. HIDE DEF S
    <3>2. s \in Seq(S)
      BY <3>1, SeqDef
    <3>. QED BY <3>2 DEF S, AllSteps
  <2>4. DOMAIN s = 1..3
    BY <1>1
  <2>5. Len(s) = 3
    <3>. DEFINE S == [component : Components, do : Commands]
    <3>1. s \in Seq(S)
      BY <2>3 DEF AllSteps
    <3>. HIDE DEF S
    <3>. QED BY <3>1, <2>4
  <2>. QED BY <1>1, <2>3, <2>5
<1>2. CASE c \in {"mt5", "bridge"}
  <2>1. Restart(c) = [i \in 1..3 |-> [component |-> c, do |-> <<"kill", "start", "check">>[i]]]
    BY <1>2 DEF Restart, Processes
  <2>2. Dos(c) = <<"kill", "start", "check">>
    BY <1>2 DEF Dos
  <2>3. (\A i \in 1..3 : Dos(c)[i] \in Commands) /\ Len(Dos(c)) = 3
    BY <2>2 DEF Commands
  <2>4. Restart(c) = [i \in 1..3 |-> [component |-> c, do |-> Dos(c)[i]]]
    BY <2>1, <2>2
  <2>. QED BY ONLY <1>1, <2>3, <2>4
<1>3. CASE c = "api" \/ (c = "frontend" /\ ~FrontendCmd)
  <2>1. Restart(c) = [i \in 1..3 |-> [component |-> c, do |-> <<"stop", "build", "up">>[i]]]
    BY <1>3 DEF Restart, Compose
  <2>2. Dos(c) = <<"stop", "build", "up">>
    BY <1>3 DEF Dos
  <2>3. (\A i \in 1..3 : Dos(c)[i] \in Commands) /\ Len(Dos(c)) = 3
    BY <2>2 DEF Commands
  <2>4. Restart(c) = [i \in 1..3 |-> [component |-> c, do |-> Dos(c)[i]]]
    BY <2>1, <2>2
  <2>. QED BY ONLY <1>1, <2>3, <2>4
<1>4. CASE c = "frontend" /\ FrontendCmd
  <2>1. Restart(c) = <<[component |-> c, do |-> "launch"]>>
    BY <1>4 DEF Restart
  <2>2. Dos(c) = <<"launch">>
    BY <1>4 DEF Dos
  <2>3. Len(Dos(c)) = 1 /\ Dos(c)[1] = "launch"
    BY <2>2
  <2>4. [component |-> c, do |-> "launch"] \in [component : Components, do : Commands]
    BY DEF Commands
  <2>5. Restart(c) \in AllSteps /\ Len(Restart(c)) = 1 /\ Restart(c)[1] = [component |-> c, do |-> "launch"]
    BY <2>1, <2>4 DEF AllSteps
  <2>. QED BY <2>3, <2>5
<1>. QED BY <1>2, <1>3, <1>4 DEF Components

\* What a restart of everything has still to do from a component on.
From(c) == CASE c = "api" -> <<"api", "frontend", "mt5", "bridge">>
             [] c = "frontend" -> <<"frontend", "mt5", "bridge">>
             [] c = "mt5" -> <<"mt5", "bridge">>
             [] c = "bridge" -> <<"bridge">>
LEMMA FromGoesOn ==
  ASSUME NEW c \in Components
  PROVE  /\ From(c) # <<>> /\ Head(From(c)) = c /\ Tail(From(c)) = After(c)
         /\ After(c) = <<>> \/ \E d \in Components : After(c) = From(d)
         /\ \A i \in 1..Len(From(c)) : From(c)[i] = c \/ \E j \in 1..Len(After(c)) : After(c)[j] = From(c)[i]
<1>1. CASE c = "api"
  BY <1>1 DEF From, After, Components
<1>2. CASE c = "frontend"
  BY <1>2 DEF From, After, Components
<1>3. CASE c = "mt5"
  BY <1>3 DEF From, After, Components
<1>4. CASE c = "bridge"
  BY <1>4 DEF From, After, Components
<1>. QED BY <1>1, <1>2, <1>3, <1>4 DEF Components

\* A component that begins is under way, and the others are to come.
LEMMA BeginOwes ==
  ASSUME NEW target \in Targets, NEW parts, thread' = Begin(target, parts),
         \/ parts = <<>>
         \/ target \in Components /\ parts = <<target>>
         \/ target = "all" /\ \E c \in Components : parts = From(c)
  PROVE  /\ thread'.target = target /\ ThreadShape'
         /\ \A i \in 1..Len(parts) : ToCome(parts[i])' \/ UnderWay(parts[i])'
<1>1. /\ thread' = [target |-> thread'.target, steps |-> thread'.steps, later |-> thread'.later]
      /\ DOMAIN thread' = {"target", "steps", "later"} /\ thread'.target = target
  BY DEF Begin
<1>2. CASE parts = <<>>
  <2>1. thread'.steps = <<>> /\ thread'.later = <<>>
    BY <1>2 DEF Begin
  <2>2. Len(parts) = 0
    BY <1>2
  <2>. QED BY <1>1, <2>1, <2>2 DEF ThreadShape
<1>3. ASSUME NEW c \in Components, parts # <<>>, Head(parts) = c,
             \/ target = "all" /\ Tail(parts) = After(c)
             \/ target = c /\ Tail(parts) = <<>>,
             \A i \in 1..Len(parts) : parts[i] = c \/ \E j \in 1..Len(Tail(parts)) : Tail(parts)[j] = parts[i]
      PROVE  ThreadShape' /\ \A i \in 1..Len(parts) : ToCome(parts[i])' \/ UnderWay(parts[i])'
  <2>1. thread'.steps = Restart(c) /\ thread'.later = Tail(parts)
    BY <1>3 DEF Begin
  <2>2. LastSteps(c)'
    <3>1. Len(Dos(c)) \in {1, 3}
      BY DEF Dos
    <3>2. Len(Restart(c)) = Len(Dos(c)) /\ Restart(c) \in AllSteps
      BY RestartIsItsSteps
    <3>3. \A i \in 1..Len(Restart(c)) : Restart(c)[i] = [component |-> c, do |-> Dos(c)[Len(Dos(c)) - Len(Restart(c)) + i]]
      <4>1. \A i \in 1..Len(Restart(c)) : Len(Dos(c)) - Len(Restart(c)) + i = i
        BY <3>1, <3>2
      <4>. QED BY <4>1, RestartIsItsSteps
    <3>. QED BY <2>1, <3>1, <3>2, <3>3 DEF LastSteps
  <2>3. thread'.steps # <<>> /\ thread'.steps[1].component = c /\ thread'.steps[1].do = Dos(c)[1]
    <3>1. Len(Dos(c)) \in {1, 3}
      BY DEF Dos
    <3>2. 1 \in 1..Len(Restart(c))
      <4>1. Len(Restart(c)) = Len(Dos(c))
        BY RestartIsItsSteps
      <4>. QED BY <3>1, <4>1
    <3>3. Restart(c)[1] = [component |-> c, do |-> Dos(c)[1]]
      BY <3>2, RestartIsItsSteps
    <3>4. Restart(c) # <<>>
      BY <3>2
    <3>. QED BY <2>1, <3>3, <3>4
  <2>4. Dos(c)[1] \notin {"start", "check"}
    BY DEF Dos
  <2>5. UnderWay(c)'
    BY <2>3, <2>4 DEF UnderWay
  <2>6. target \notin {"none", "failed"}
    BY <1>3 DEF Components
  <2>7. ThreadShape'
    BY <1>1, <1>3, <2>1, <2>2, <2>6 DEF ThreadShape
  <2>. QED BY <1>3, <2>1, <2>5, <2>7 DEF ToCome
<1>4. CASE target \in Components /\ parts = <<target>>
  <2>1. parts # <<>> /\ Head(parts) = target /\ Tail(parts) = <<>> /\ \A i \in 1..Len(parts) : parts[i] = target
    BY <1>4
  <2>. QED BY <1>1, <1>3, <1>4, <2>1
<1>5. ASSUME NEW c \in Components, target = "all", parts = From(c)
      PROVE  ThreadShape' /\ \A i \in 1..Len(parts) : ToCome(parts[i])' \/ UnderWay(parts[i])'
  <2>1. /\ parts # <<>> /\ Head(parts) = c /\ Tail(parts) = After(c)
        /\ \A i \in 1..Len(parts) : parts[i] = c \/ \E j \in 1..Len(After(c)) : After(c)[j] = parts[i]
    BY <1>5, FromGoesOn
  <2>. QED BY <1>3, <1>5, <2>1
<1>. QED BY <1>1, <1>2, <1>4, <1>5

\* What a command may leave behind.
LEMMA OutcomeIs ==
  ASSUME Restartable, Generations, NEW c \in Components, NEW do \in Commands, NEW o \in Outcomes(c, do)
  PROVE  /\ o.gen \in {0, run[c], made[c] + 1} /\ o.ok \in BOOLEAN
         /\ o.ok /\ do = "kill" => o.gen = 0
         /\ o.ok /\ do = "up" => o.gen = made[c] + 1
         /\ o.ok /\ do = "check" => o.gen = run[c] /\ run[c] > 0
<1>1. c \notin Stubborn
  BY DEF Restartable
<1>2. run[c] \in Nat /\ made[c] \in Nat
  BY DEF Generations
<1>3. CASE do \in {"kill", "stop"}
  <2>1. \/ o = [gen |-> 0, ok |-> TRUE]
        \/ do = "stop" /\ (o = [gen |-> run[c], ok |-> FALSE] \/ o = [gen |-> 0, ok |-> FALSE])
    BY <1>1, <1>3 DEF Outcomes
  <2>2. \/ o.gen = 0 /\ o.ok = TRUE
        \/ do = "stop" /\ o.gen \in {0, run[c]} /\ o.ok = FALSE
    BY <2>1
  <2>. QED BY <1>3, <2>2, Zenon
<1>4. CASE do = "build"
  <2>1. \E ok \in BOOLEAN : o = [gen |-> run[c], ok |-> ok]
    BY <1>4 DEF Outcomes
  <2>. QED BY <1>4, <2>1
<1>5. CASE do \in {"start", "launch"}
  <2>1. \/ \E ok \in BOOLEAN : o = [gen |-> run[c], ok |-> ok]
        \/ o = [gen |-> made[c] + 1, ok |-> TRUE]
    BY <1>5 DEF Outcomes
  <2>2. ASSUME NEW ok \in BOOLEAN, NEW n, o = [gen |-> n, ok |-> ok]
        PROVE  o.ok \in BOOLEAN /\ o.gen = n
    BY <2>2
  <2>3. o.ok \in BOOLEAN /\ o.gen \in {run[c], made[c] + 1}
    BY <2>1, <2>2
  <2>. QED BY <1>5, <2>3, Zenon
<1>6. CASE do = "up"
  <2>1. o = [gen |-> run[c], ok |-> FALSE] \/ \E ok \in BOOLEAN : o = [gen |-> made[c] + 1, ok |-> ok]
    BY <1>6 DEF Outcomes
  <2>2. CASE o = [gen |-> run[c], ok |-> FALSE]
    <3>1. o.gen = run[c] /\ o.ok = FALSE
      BY <2>2
    <3>. QED BY <1>6, <3>1, Zenon
  <2>3. CASE \E ok \in BOOLEAN : o = [gen |-> made[c] + 1, ok |-> ok]
    <3>1. PICK ok \in BOOLEAN : o = [gen |-> made[c] + 1, ok |-> ok]
      BY <2>3
    <3>2. o.gen = made[c] + 1 /\ o.ok = ok
      BY <3>1
    <3>. QED BY <1>6, <3>1, <3>2, Zenon
  <2>. QED BY <2>1, <2>2, <2>3
<1>7. CASE do = "check"
  <2>1. o = [gen |-> run[c], ok |-> run[c] > 0]
    BY <1>7 DEF Outcomes
  <2>2. o.gen = run[c] /\ o.ok = (run[c] > 0)
    BY <2>1
  <2>3. (run[c] > 0) \in BOOLEAN
    OBVIOUS
  <2>. QED BY <1>7, <2>2, <2>3
<1>. QED BY <1>3, <1>4, <1>5, <1>6, <1>7 DEF Commands

\* No step of a component takes a generation back to an old one.
LEMMA GenerationsRise ==
  ASSUME Restartable, Generations, NEW c \in Components, NEW gen \in {0, run[c], made[c] + 1},
         run' = [run EXCEPT ![c] = gen],
         made' = [made EXCEPT ![c] = IF gen > @ THEN gen ELSE @], base' = base
  PROVE  /\ Generations'
         /\ \A d \in Components : OldIsGone(d) => OldIsGone(d)'
         /\ \A d \in Components : Renewed(d) => Renewed(d)'
<1>1. /\ \A d \in Components : run[d] \in Nat /\ made[d] \in Nat /\ base[d] \in Nat
      /\ \A d \in Components : run[d] <= made[d] /\ base[d] <= made[d]
  BY DEF Generations
<1>2. gen \in Nat
  BY <1>1
<1>3. run' \in [Components -> Nat] /\ made' \in [Components -> Nat] /\ base' \in [Components -> Nat]
  BY <1>1, <1>2 DEF Generations
<1>4. \A d \in Components : run'[d] = (IF d = c THEN gen ELSE run[d])
  BY DEF Generations
<1>5. \A d \in Components : made'[d] = (IF d = c THEN IF gen > made[c] THEN gen ELSE made[c] ELSE made[d])
  BY DEF Generations
<1>6. \A d \in Components : run'[d] <= made'[d] /\ base'[d] <= made'[d] /\ made[d] <= made'[d]
  BY <1>1, <1>2, <1>4, <1>5
<1>7. \A d \in Components : run'[d] = 0 \/ run'[d] = run[d] \/ run'[d] > base[d]
  BY <1>1, <1>2, <1>4
<1>8. \A d \in Components : OldIsGone(d) => OldIsGone(d)'
  BY <1>1, <1>3, <1>7 DEF OldIsGone
<1>9. \A d \in Components : Renewed(d) => Renewed(d)'
  BY <1>1, <1>3, <1>6, <1>8 DEF Renewed
<1>. QED BY <1>3, <1>6, <1>8, <1>9 DEF Generations

\* The steps that are left belong to one component, in their order.
LEMMA StepsLeft ==
  ASSUME ThreadShape, thread.steps # <<>>, NEW c \in Components, LastSteps(c)
  PROVE  LET s == Head(thread.steps) IN
         /\ s = thread.steps[1] /\ s.component = c /\ s.do \in Commands
         /\ Len(thread.steps) = 1 => s.do \in {"check", "up", "launch"}
         /\ s.do = "launch" => c = "frontend" /\ FrontendCmd
         /\ s.do \in {"kill", "start", "check"} => c \in {"mt5", "bridge"}
         /\ Len(thread.steps) > 1 =>
              /\ Tail(thread.steps) # <<>>
              /\ Tail(thread.steps)[1].component = c
              /\ \/ s.do = "kill" /\ Tail(thread.steps)[1].do = "start"
                 \/ s.do = "start" /\ Tail(thread.steps)[1].do = "check"
                 \/ Tail(thread.steps)[1].do \notin {"start", "check"}
<1>. DEFINE n == Len(thread.steps)
<1>1. n \in 1..Len(Dos(c)) /\ Len(Dos(c)) \in {1, 3} /\ thread.steps \in AllSteps
  BY DEF LastSteps, Dos
<1>2. Head(thread.steps) = thread.steps[1] /\ 1 \in 1..n
  BY <1>1 DEF AllSteps
<1>3. thread.steps[1] = [component |-> c, do |-> Dos(c)[Len(Dos(c)) - n + 1]]
  BY <1>2 DEF LastSteps
<1>4. n > 1 => /\ Tail(thread.steps) # <<>> /\ Tail(thread.steps)[1] = thread.steps[2]
               /\ thread.steps[2] = [component |-> c, do |-> Dos(c)[Len(Dos(c)) - n + 2]]
  <2>1. ASSUME n > 1 PROVE Tail(thread.steps) # <<>> /\ Tail(thread.steps)[1] = thread.steps[2]
    <3>. DEFINE S == [component : Components, do : Commands]
    <3>1. thread.steps \in Seq(S)
      BY <1>1 DEF AllSteps
    <3>. HIDE DEF S
    <3>2. thread.steps # <<>>
      BY <2>1
    <3>3. Len(Tail(thread.steps)) = n - 1 /\ \A i \in 1..Len(Tail(thread.steps)) : Tail(thread.steps)[i] = thread.steps[i + 1]
      BY <3>1, <3>2, HeadTailProperties
    <3>4. Len(Tail(thread.steps)) > 0 /\ n \in Nat
      BY <1>1, <2>1, <3>3
    <3>5. 1 \in 1..Len(Tail(thread.steps))
      BY <1>1, <3>3, <3>4
    <3>6. Tail(thread.steps) # <<>>
      <4>1. Tail(thread.steps) \in Seq(S)
        BY <3>1, <3>2, HeadTailProperties
      <4>2. Len(Tail(thread.steps)) # 0
        <5>1. \A m \in Nat : m > 1 => m - 1 # 0
          OBVIOUS
        <5>2. n \in Nat
          BY <1>1
        <5>. QED BY <2>1, <3>3, <5>1, <5>2
      <4>. QED BY <4>1, <4>2, EmptySeq
    <3>. QED BY <3>3, <3>5, <3>6
  <2>2. ASSUME n > 1 PROVE thread.steps[2] = [component |-> c, do |-> Dos(c)[Len(Dos(c)) - n + 2]]
    <3>1. 2 \in 1..n
      BY <1>1, <2>2
    <3>. QED BY <3>1 DEF LastSteps
  <2>. QED BY <2>1, <2>2
<1>5. CASE c \in {"mt5", "bridge"}
  <2>1. Dos(c)[1] = "kill" /\ Dos(c)[2] = "start" /\ Dos(c)[3] = "check" /\ Len(Dos(c)) = 3
    BY <1>5 DEF Dos
  <2>2. n = 1 \/ n = 2 \/ n = 3
    BY <1>1, <2>1
  <2>3. thread.steps[1].component = c /\ thread.steps[1].do = Dos(c)[4 - n]
    BY <1>3, <2>1, <2>2
  <2>4. n > 1 => Tail(thread.steps)[1].component = c /\ Tail(thread.steps)[1].do = Dos(c)[5 - n]
    BY <1>4, <2>1, <2>2
  <2>5. CASE n = 1
    BY <1>2, <1>5, <2>1, <2>3, <2>5 DEF Commands
  <2>6. CASE n = 2
    BY <1>2, <1>4, <1>5, <2>1, <2>3, <2>4, <2>6 DEF Commands
  <2>7. CASE n = 3
    BY <1>2, <1>4, <1>5, <2>1, <2>3, <2>4, <2>7 DEF Commands
  <2>. QED BY <2>2, <2>5, <2>6, <2>7
<1>6. CASE c = "frontend" /\ FrontendCmd
  <2>1. Dos(c)[1] = "launch" /\ Len(Dos(c)) = 1
    BY <1>6 DEF Dos
  <2>2. n = 1
    BY <1>1, <2>1
  <2>3. thread.steps[1].component = c /\ thread.steps[1].do = "launch"
    BY <1>3, <2>1, <2>2
  <2>. QED BY <1>2, <1>6, <2>2, <2>3 DEF Commands
<1>7. CASE c = "api" \/ (c = "frontend" /\ ~FrontendCmd)
  <2>1. Dos(c)[1] = "stop" /\ Dos(c)[2] = "build" /\ Dos(c)[3] = "up" /\ Len(Dos(c)) = 3
    BY <1>7 DEF Dos
  <2>2. n = 1 \/ n = 2 \/ n = 3
    BY <1>1, <2>1
  <2>3. thread.steps[1].component = c /\ thread.steps[1].do = Dos(c)[4 - n]
    BY <1>3, <2>1, <2>2
  <2>4. n > 1 => Tail(thread.steps)[1].component = c /\ Tail(thread.steps)[1].do = Dos(c)[5 - n]
    BY <1>4, <2>1, <2>2
  <2>5. CASE n = 1
    BY <1>2, <1>7, <2>1, <2>3, <2>5 DEF Commands
  <2>6. CASE n = 2
    BY <1>2, <1>4, <1>7, <2>1, <2>3, <2>4, <2>6 DEF Commands
  <2>7. CASE n = 3
    BY <1>2, <1>4, <1>7, <2>1, <2>3, <2>4, <2>7 DEF Commands
  <2>. QED BY <2>2, <2>5, <2>6, <2>7
<1>. QED BY <1>5, <1>6, <1>7 DEF Components

\* A step keeps the promise: what it ends or starts is of its component.
LEMMA StepKeepsPromise ==
  ASSUME Restartable, WatchInv, Step PROVE Generations' /\ ThreadShape' /\ PromiseKept'
<1>. USE DEF WatchInv
<1>1. PICK c \in Components :
        /\ LastSteps(c)
        /\ \/ thread.target = "all" /\ thread.later = After(c)
           \/ thread.target = c /\ thread.later = <<>>
  BY DEF Step, ThreadShape
<1>. DEFINE s == Head(thread.steps)
<1>2. thread.steps # <<>> /\ thread.target \in Targets
  BY DEF Step, ThreadShape
<1>3. s = thread.steps[1] /\ s.component = c /\ s.do \in Commands
  BY <1>1, <1>2, StepsLeft
<1>4. PICK o \in Outcomes(c, s.do) :
        /\ run' = [run EXCEPT ![c] = o.gen]
        /\ made' = [made EXCEPT ![c] = IF o.gen > @ THEN o.gen ELSE @]
        /\ thread' = IF o.ok /\ Len(thread.steps) > 1 THEN [thread EXCEPT !.steps = Tail(@)]
                     ELSE IF o.ok \/ GoesOn(thread.target, c)
                          THEN Begin(thread.target, thread.later)
                          ELSE Begin("failed", <<>>)
  BY <1>3 DEF Step
<1>5. base' = base /\ UNCHANGED <<lock, actions>>
  BY DEF Step
<1>6. /\ o.gen \in {0, run[c], made[c] + 1} /\ o.ok \in BOOLEAN
      /\ o.ok /\ s.do = "kill" => o.gen = 0
      /\ o.ok /\ s.do = "up" => o.gen = made[c] + 1
      /\ o.ok /\ s.do = "check" => o.gen = run[c] /\ run[c] > 0
  BY <1>3, OutcomeIs
<1>7. /\ Generations'
      /\ \A d \in Components : OldIsGone(d) => OldIsGone(d)'
      /\ \A d \in Components : Renewed(d) => Renewed(d)'
  BY <1>4, <1>5, <1>6, GenerationsRise
<1>8. \A d \in Promised(thread.target) : d \in Components
  BY <1>2 DEF Promised, Components, Restartable
<1>9. /\ run[c] \in Nat /\ made[c] \in Nat /\ base[c] \in Nat /\ run[c] <= made[c] /\ base[c] <= made[c]
      /\ run'[c] = o.gen /\ made'[c] = (IF o.gen > made[c] THEN o.gen ELSE made[c])
  BY <1>4 DEF Generations
<1>10. \A d \in Promised(thread.target) : d # c => ToCome(d) \/ Renewed(d)
  BY <1>2, <1>3 DEF PromiseKept, UnderWay
<1>11. CASE o.ok /\ Len(thread.steps) > 1
  <2>1. /\ thread'.target = thread.target /\ thread'.later = thread.later /\ thread'.steps = Tail(thread.steps)
        /\ DOMAIN thread' = {"target", "steps", "later"}
        /\ thread' = [target |-> thread'.target, steps |-> thread'.steps, later |-> thread'.later]
    BY <1>4, <1>11 DEF ThreadShape
  <2>2. LastSteps(c)'
    <3>. DEFINE n == Len(thread.steps)
    <3>1. n \in 1..Len(Dos(c)) /\ Len(Dos(c)) \in {1, 3} /\ thread.steps \in AllSteps
      BY <1>1 DEF LastSteps, Dos
    <3>2. /\ Tail(thread.steps) \in AllSteps /\ Len(Tail(thread.steps)) = n - 1
          /\ \A i \in 1..Len(Tail(thread.steps)) : Tail(thread.steps)[i] = thread.steps[i + 1]
      BY <1>2, <3>1, HeadTailProperties DEF AllSteps
    <3>3. ASSUME NEW i \in 1..Len(Tail(thread.steps))
          PROVE  Tail(thread.steps)[i] = [component |-> c, do |-> Dos(c)[Len(Dos(c)) - Len(Tail(thread.steps)) + i]]
      <4>1. i + 1 \in 1..n /\ Len(Dos(c)) - Len(Tail(thread.steps)) + i = Len(Dos(c)) - n + (i + 1)
        BY <3>1, <3>2
      <4>2. thread.steps[i + 1] = [component |-> c, do |-> Dos(c)[Len(Dos(c)) - n + (i + 1)]]
        BY <1>1, <4>1 DEF LastSteps
      <4>. QED BY <3>2, <4>1, <4>2
    <3>4. Len(Tail(thread.steps)) \in 1..Len(Dos(c))
      BY <1>11, <3>1, <3>2
    <3>. QED BY <2>1, <3>2, <3>3, <3>4 DEF LastSteps
  <2>3. thread.target \notin {"none", "failed"}
    BY <1>2 DEF Restartable, Components
  <2>4. ThreadShape'
    BY <1>1, <1>2, <2>1, <2>2, <2>3 DEF ThreadShape
  <2>5. UnderWay(c) => UnderWay(c)'
    <3>1. /\ Tail(thread.steps) # <<>> /\ Tail(thread.steps)[1].component = c
          /\ \/ s.do = "kill" /\ Tail(thread.steps)[1].do = "start"
             \/ s.do = "start" /\ Tail(thread.steps)[1].do = "check"
             \/ Tail(thread.steps)[1].do \notin {"start", "check"}
      BY <1>1, <1>2, <1>11, StepsLeft
    <3>2. s.do = "kill" => OldIsGone(c)'
      BY <1>6, <1>9, <1>11 DEF OldIsGone
    <3>3. s.do = "start" /\ UnderWay(c) => OldIsGone(c)'
      BY <1>3, <1>7 DEF UnderWay
    <3>. QED BY <2>1, <3>1, <3>2, <3>3 DEF UnderWay
  <2>6. \A d \in Components : ToCome(d) => ToCome(d)'
    BY <2>1 DEF ToCome
  <2>7. ASSUME NEW d \in Promised(thread.target) PROVE ToCome(d)' \/ UnderWay(d)' \/ Renewed(d)'
    <3>1. ToCome(d) \/ UnderWay(d) \/ Renewed(d)
      BY <1>2 DEF PromiseKept
    <3>2. UnderWay(d) => UnderWay(d)'
      BY <1>3, <2>5 DEF UnderWay
    <3>. QED BY <1>7, <1>8, <2>6, <3>1, <3>2
  <2>8. PromiseKept'
    BY <2>1, <2>7 DEF PromiseKept
  <2>. QED BY <1>7, <2>4, <2>8
<1>12. CASE ~(o.ok /\ Len(thread.steps) > 1) /\ (o.ok \/ GoesOn(thread.target, c))
  <2>1. thread' = Begin(thread.target, thread.later)
    BY <1>4, <1>12
  <2>2. \/ thread.later = <<>>
        \/ thread.target = "all" /\ \E d \in Components : thread.later = From(d)
    BY <1>1, FromGoesOn
  <2>3. PICK target, parts : target = thread.target /\ parts = thread.later
    OBVIOUS
  <2>4. /\ thread'.target = target /\ ThreadShape'
        /\ \A i \in 1..Len(parts) : ToCome(parts[i])' \/ UnderWay(parts[i])'
    <3>1. target \in Targets /\ thread' = Begin(target, parts)
      BY <1>2, <2>1, <2>3
    <3>2. parts = <<>> \/ (target = "all" /\ \E d \in Components : parts = From(d))
      BY <2>2, <2>3
    <3>. QED BY <3>1, <3>2, BeginOwes
  <2>6. \A d \in Components : ToCome(d) => ToCome(d)' \/ UnderWay(d)'
    <3>1. SUFFICES ASSUME NEW d \in Components, ToCome(d) PROVE ToCome(d)' \/ UnderWay(d)'
      OBVIOUS
    <3>2. PICK i \in 1..Len(parts) : parts[i] = d
      BY <2>3, <3>1 DEF ToCome
    <3>. QED BY <2>4, <3>2
  <2>5. c \in Promised(thread.target) => ToCome(c) \/ Renewed(c)'
    <3>1. CASE o.ok
      <4>1. Len(thread.steps) = 1
        <5>1. Len(thread.steps) \in 1..Len(Dos(c)) /\ Len(Dos(c)) \in {1, 3}
          BY <1>1 DEF LastSteps, Dos
        <5>2. ~(Len(thread.steps) > 1)
          BY <1>12, <3>1
        <5>3. Len(thread.steps) \in Nat /\ Len(thread.steps) >= 1
          BY <5>1
        <5>4. \A m \in Nat : m >= 1 /\ ~(m > 1) => m = 1
          OBVIOUS
        <5>. QED BY <5>2, <5>3, <5>4
      <4>2. s.do \in {"check", "up", "launch"}
        BY <1>1, <1>2, <4>1, StepsLeft
      <4>3. CASE s.do = "launch"
        <5>1. c = "frontend" /\ FrontendCmd
          BY <1>1, <1>2, <4>3, StepsLeft
        <5>. QED BY <1>1, <5>1 DEF Promised
      <4>4. CASE s.do = "up"
        <5>1. o.gen = made[c] + 1
          BY <1>6, <3>1, <4>4
        <5>2. run'[c] > base[c] /\ made'[c] > base[c]
          BY <1>9, <5>1
        <5>. QED BY <1>5, <5>2 DEF Renewed, OldIsGone
      <4>5. CASE s.do = "check" /\ c \in Promised(thread.target) /\ ~ToCome(c)
        <5>1. OldIsGone(c) \/ Renewed(c)
          BY <1>2, <1>3, <4>5 DEF PromiseKept, UnderWay
        <5>2. run[c] > 0
          BY <1>6, <3>1, <4>5
        <5>3. Renewed(c)
          BY <1>9, <5>1, <5>2 DEF Renewed, OldIsGone
        <5>. QED BY <1>7, <5>3
      <4>. QED BY <4>2, <4>3, <4>4, <4>5
    <3>2. CASE GoesOn(thread.target, c)
      BY <3>2 DEF GoesOn, Promised
    <3>. QED BY <1>12, <3>1, <3>2
  <2>7. ASSUME NEW d \in Promised(thread.target) PROVE ToCome(d)' \/ UnderWay(d)' \/ Renewed(d)'
    BY <1>7, <1>8, <1>10, <2>5, <2>6, <2>7
  <2>8. PromiseKept'
    BY <2>3, <2>4, <2>7 DEF PromiseKept
  <2>. QED BY <1>7, <2>4, <2>8
<1>13. CASE ~(o.ok /\ Len(thread.steps) > 1) /\ ~(o.ok \/ GoesOn(thread.target, c))
  <2>1. thread' = [target |-> "failed", steps |-> <<>>, later |-> <<>>]
    BY <1>4, <1>13 DEF Begin
  <2>2. "failed" \notin Targets
    BY DEF Restartable, Components
  <2>. QED BY <1>7, <2>1, <2>2 DEF ThreadShape, PromiseKept
<1>. QED BY <1>11, <1>12, <1>13

\* The other actions.  A request promises all that is to come.
LEMMA RequestKeeps ==
  ASSUME Restartable, WatchInv, NEW target \in Targets, Request(target) PROVE WatchInv' /\ TrueVerdict
<1>. USE DEF WatchInv
<1>1. /\ ~lock /\ lock' = TRUE /\ actions' = Append(actions, "RESTARTING")
      /\ thread' = Begin(target, Parts(target)) /\ base' = made /\ UNCHANGED <<run, made>>
  BY DEF Request
<1>2. Generations'
  BY <1>1 DEF Generations
<1>3. target \in Components \/ target = "all"
  BY DEF Restartable
<1>4. \/ target \in Components /\ Parts(target) = <<target>>
      \/ target = "all" /\ "api" \in Components /\ Parts(target) = From("api")
  BY <1>3 DEF Parts, From, Components
<1>5. /\ thread'.target = target /\ ThreadShape'
      /\ \A i \in 1..Len(Parts(target)) : ToCome(Parts(target)[i])' \/ UnderWay(Parts(target)[i])'
  <2>1. PICK parts : parts = Parts(target)
    OBVIOUS
  <2>2. parts = <<>> \/ (target \in Components /\ parts = <<target>>)
        \/ (target = "all" /\ \E c \in Components : parts = From(c))
    BY <1>4, <2>1
  <2>3. /\ thread'.target = target /\ ThreadShape'
        /\ \A i \in 1..Len(parts) : ToCome(parts[i])' \/ UnderWay(parts[i])'
    BY <1>1, <2>1, <2>2, BeginOwes
  <2>. QED BY <2>1, <2>3
<1>6. ASSUME NEW d \in Promised(target) PROVE ToCome(d)' \/ UnderWay(d)'
  <2>1. \E i \in 1..Len(Parts(target)) : Parts(target)[i] = d
    <3>1. CASE target = "all"
      <4>1. Parts(target) = <<"api", "frontend", "mt5", "bridge">> /\ d \in {"api", "mt5", "bridge"}
        BY <3>1, <1>6 DEF Parts, Promised
      <4>2. Len(Parts(target)) = 4 /\ Parts(target)[1] = "api" /\ Parts(target)[3] = "mt5" /\ Parts(target)[4] = "bridge"
        BY <4>1
      <4>. QED BY <4>1, <4>2
    <3>2. CASE target # "all"
      <4>1. Parts(target) = <<target>> /\ d = target
        BY <3>2, <1>6 DEF Parts, Promised
      <4>. QED BY <4>1
    <3>. QED BY <3>1, <3>2
  <2>. QED BY <1>5, <2>1
<1>7. PromiseKept'
  BY <1>5, <1>6 DEF PromiseKept
<1>8. actions \in Seq(Verdicts) /\ "RESTARTING" \in Verdicts /\ \A i \in 1..Len(actions) : actions[i] # "RESTARTING"
  BY <1>1 DEF OneVerdict, Verdicts
<1>9. /\ actions' \in Seq(Verdicts) /\ Len(actions') = Len(actions) + 1 /\ Len(actions) \in Nat
      /\ \A i \in 1..Len(actions') : i # Len(actions') => actions'[i] = actions[i] /\ i \in 1..Len(actions)
  BY <1>1, <1>8
<1>10. OneVerdict'
  <2>1. \A i \in 1..Len(actions') : actions'[i] = "RESTARTING" => i = Len(actions')
    BY <1>8, <1>9
  <2>2. Len(actions') > 0
    BY <1>9
  <2>3. lock' /\ lock' \in BOOLEAN
    BY <1>1
  <2>. QED BY <1>9, <2>1, <2>2, <2>3, Zenon DEF OneVerdict
<1>11. ~Finish
  <2>1. thread.target = "none"
    BY <1>1 DEF OneVerdict
  <2>. QED BY <2>1 DEF Finish
<1>12. TrueVerdict
  BY <1>1, <1>11 DEF TrueVerdict
<1>. QED BY <1>2, <1>5, <1>7, <1>10, <1>12

\* The steps between leave the verdicts alone.
LEMMA StepKeeps == ASSUME Restartable, WatchInv, Step PROVE WatchInv' /\ TrueVerdict
<1>1. Generations' /\ ThreadShape' /\ PromiseKept'
  BY StepKeepsPromise
<1>2. UNCHANGED <<lock, actions>> /\ thread.target # "none" /\ thread.steps # <<>>
  BY DEF Step, WatchInv, ThreadShape
<1>3. OneVerdict'
  BY <1>2 DEF OneVerdict, WatchInv
<1>4. ~Finish
  BY <1>2 DEF Finish
<1>5. DOMAIN actions' = 1..Len(actions)
  BY <1>2 DEF WatchInv, OneVerdict
<1>6. \A i \in DOMAIN actions' : actions'[i] = "RESTARTING" => lock'
  BY <1>2, <1>5 DEF WatchInv, OneVerdict
<1>. QED BY <1>1, <1>3, <1>4, <1>6 DEF WatchInv, TrueVerdict

\* When nothing is left, what was promised has been done.
LEMMA FinishKeeps == ASSUME Restartable, WatchInv, Finish PROVE WatchInv' /\ TrueVerdict
<1>. USE DEF WatchInv
<1>1. /\ thread.target # "none" /\ thread.steps = <<>> /\ thread' = Idle /\ lock' = FALSE
      /\ actions' = [actions EXCEPT ![Len(actions)] = IF thread.target = "failed" THEN "FAIL" ELSE "OK"]
      /\ UNCHANGED <<run, made, base>>
  BY DEF Finish
<1>2. /\ thread' = [target |-> thread'.target, steps |-> thread'.steps, later |-> thread'.later]
      /\ DOMAIN thread' = {"target", "steps", "later"}
      /\ thread'.target = "none" /\ thread'.steps = <<>> /\ thread'.later = <<>>
  BY <1>1 DEF Idle
<1>3. ThreadShape'
  BY <1>2 DEF ThreadShape
<1>4. Generations' /\ PromiseKept'
  <2>1. "none" \notin Targets
    BY DEF Restartable, Components
  <2>. QED BY <1>1, <1>2, <2>1 DEF Generations, PromiseKept
<1>5. /\ actions \in Seq(Verdicts) /\ Len(actions) \in Nat /\ Len(actions) > 0
      /\ \A i \in 1..Len(actions) : actions[i] = "RESTARTING" => i = Len(actions)
  BY <1>1 DEF OneVerdict
<1>6. PICK v \in {"OK", "FAIL"} : actions' = [actions EXCEPT ![Len(actions)] = v]
  BY <1>1
<1>7. /\ actions' \in Seq(Verdicts) /\ DOMAIN actions' = 1..Len(actions) /\ Len(actions') = Len(actions)
  BY <1>5, <1>6 DEF Verdicts
<1>8. \A i \in 1..Len(actions) : actions'[i] # "RESTARTING"
  BY <1>5, <1>6
<1>9. OneVerdict'
  BY <1>1, <1>2, <1>7, <1>8 DEF OneVerdict
<1>10. ASSUME thread.target # "failed", NEW c \in Promised(thread.target) PROVE Renewed(c)
  <2>1. thread.target \in Targets
    BY <1>1, <1>10 DEF ThreadShape
  <2>2. thread.later = <<>>
    BY <1>1, EmptySeq DEF ThreadShape, LastSteps, AllSteps
  <2>3. ~ToCome(c) /\ ~UnderWay(c)
    BY <1>1, <2>2 DEF ToCome, UnderWay
  <2>. QED BY <1>10, <2>1, <2>3 DEF PromiseKept
<1>11. TrueVerdict
  BY <1>7, <1>8, <1>10 DEF TrueVerdict, Renewed, OldIsGone
<1>. QED BY <1>3, <1>4, <1>9, <1>11

LEMMA WatchdogRestartsKeeps ==
  ASSUME Restartable, WatchInv, WatchdogRestarts PROVE WatchInv' /\ TrueVerdict
<1>. USE DEF WatchInv
<1>1. /\ lock' = FALSE /\ thread' = Idle /\ actions' = [i \in DOMAIN actions |-> "LOST"]
      /\ UNCHANGED <<run, made, base>>
  BY DEF WatchdogRestarts
<1>2. /\ thread' = [target |-> thread'.target, steps |-> thread'.steps, later |-> thread'.later]
      /\ DOMAIN thread' = {"target", "steps", "later"}
      /\ thread'.target = "none" /\ thread'.steps = <<>> /\ thread'.later = <<>>
  BY <1>1 DEF Idle
<1>3. ThreadShape'
  BY <1>2 DEF ThreadShape
<1>4. Generations' /\ PromiseKept'
  <2>1. "none" \notin Targets
    BY DEF Restartable, Components
  <2>. QED BY <1>1, <1>2, <2>1 DEF Generations, PromiseKept
<1>5. actions \in Seq(Verdicts) /\ Len(actions) \in Nat /\ DOMAIN actions = 1..Len(actions)
  BY DEF OneVerdict
<1>6. actions' \in [1..Len(actions) -> Verdicts]
  BY <1>1, <1>5 DEF Verdicts
<1>7. actions' \in Seq(Verdicts) /\ DOMAIN actions' = 1..Len(actions)
  BY <1>5, <1>6, SeqDef
<1>8. Len(actions') = Len(actions) /\ \A i \in 1..Len(actions) : actions'[i] = "LOST"
  BY <1>1, <1>5, <1>7
<1>9. OneVerdict'
  BY <1>1, <1>2, <1>7, <1>8 DEF OneVerdict
<1>10. thread.target = "none" \/ thread.target # "none"
  OBVIOUS
<1>11. Finish => Len(actions) > 0
  BY DEF Finish, OneVerdict
<1>12. ~Finish
  <2>1. SUFFICES ASSUME Finish PROVE FALSE
    OBVIOUS
  <2>2. Len(actions) \in 1..Len(actions)
    BY <1>5, <1>11, <2>1
  <2>3. actions'[Len(actions)] \in {"OK", "FAIL"}
    BY <1>5, <2>1, <2>2 DEF Finish
  <2>. QED BY <1>8, <2>2, <2>3
<1>. QED BY <1>3, <1>4, <1>7, <1>8, <1>9, <1>12 DEF TrueVerdict

\* A process that ends by itself, and the status page.
LEMMA ExitKeeps == ASSUME Restartable, WatchInv, NEW c \in Crashing, Exit(c) PROVE WatchInv' /\ TrueVerdict
<1>. USE DEF WatchInv
<1>1. c \in Components
  BY DEF Restartable
<1>2. /\ run' = [run EXCEPT ![c] = 0] /\ UNCHANGED <<made, base, lock, thread, actions>>
  BY DEF Exit
<1>3. Generations' /\ \A d \in Components : (OldIsGone(d) => OldIsGone(d)') /\ (Renewed(d) => Renewed(d)')
  <2>1. made' = [made EXCEPT ![c] = IF 0 > @ THEN 0 ELSE @]
    BY <1>1, <1>2 DEF Generations
  <2>. QED BY <1>1, <1>2, <2>1, GenerationsRise
<1>4. ThreadShape' /\ OneVerdict'
  BY <1>2 DEF ThreadShape, OneVerdict, LastSteps
<1>5. thread.target \in Targets => \A d \in Promised(thread.target) : d \in Components
  BY DEF Promised, Components, Restartable
<1>6. PromiseKept'
  <2>1. SUFFICES ASSUME thread.target \in Targets, NEW d \in Promised(thread.target)
                 PROVE  ToCome(d)' \/ UnderWay(d)' \/ Renewed(d)'
    BY <1>2 DEF PromiseKept
  <2>2. ToCome(d) \/ UnderWay(d) \/ Renewed(d)
    BY <2>1 DEF PromiseKept
  <2>3. d \in Components
    BY <1>5, <2>1
  <2>4. (ToCome(d) => ToCome(d)') /\ (UnderWay(d) => UnderWay(d)')
    BY <1>2, <1>3, <2>3 DEF ToCome, UnderWay
  <2>. QED BY <1>3, <2>2, <2>3, <2>4
<1>7. ~Finish
  <2>1. run # run'
    BY <1>1, <1>2 DEF Exit, Generations
  <2>. QED BY <2>1 DEF Finish
<1>8. \A i \in DOMAIN actions' : actions'[i] = "RESTARTING" => lock'
  <2>1. DOMAIN actions' = 1..Len(actions)
    BY <1>2 DEF OneVerdict
  <2>. QED BY <1>2, <2>1 DEF OneVerdict
<1>. QED BY <1>3, <1>4, <1>6, <1>7, <1>8 DEF TrueVerdict

LEMMA StatusKeeps ==
  ASSUME Restartable, WatchInv, UNCHANGED <<run, made, lock, thread, base, actions>>
  PROVE  WatchInv' /\ TrueVerdict
<1>1. WatchInv'
  BY DEF WatchInv, Generations, ThreadShape, LastSteps, OneVerdict, PromiseKept, ToCome, UnderWay, Renewed, OldIsGone
<1>2. ~Finish
  <2>1. SUFFICES ASSUME Finish PROVE FALSE
    OBVIOUS
  <2>2. thread = Idle /\ thread.target # "none"
    BY <2>1 DEF Finish
  <2>. QED BY <2>2 DEF Idle
<1>3. DOMAIN actions' = 1..Len(actions)
  BY DEF WatchInv, OneVerdict
<1>4. \A i \in DOMAIN actions' : actions'[i] = "RESTARTING" => lock'
  BY <1>3 DEF WatchInv, OneVerdict
<1>. QED BY <1>1, <1>2, <1>4 DEF TrueVerdict

LEMMA WatchStep == ASSUME Restartable, WatchInv, [WatchNext]_watchVars PROVE WatchInv' /\ TrueVerdict
<1>1. CASE \E c \in Crashing : Exit(c)
  BY <1>1, ExitKeeps
<1>2. CASE \E target \in Targets : Request(target)
  BY <1>2, RequestKeeps
<1>3. CASE Step
  BY <1>3, StepKeeps
<1>4. CASE Finish
  BY <1>4, FinishKeeps
<1>5. CASE WatchdogRestarts
  BY <1>5, WatchdogRestartsKeeps
<1>6. CASE DockerAges \/ (\E says \in {"OK", "FAIL"} : RefreshDocker(says)) \/ Probe \/ Answer \/ UNCHANGED watchVars
  <2>1. UNCHANGED <<run, made, lock, thread, base, actions>>
    BY <1>6 DEF DockerAges, RefreshDocker, Probe, Answer, watchVars
  <2>. QED BY <2>1, StatusKeeps
<1>. QED BY <1>1, <1>2, <1>3, <1>4, <1>5, <1>6 DEF WatchNext

(* A restart recorded as OK has renewed every component it promises, whatever *)
(* ends by itself meanwhile, and no request waits for a verdict with the lock *)
(* free (_perform_restart, restart_all).                                      *)
THEOREM VerdictsAreTrue == ASSUME Restartable PROVE WatchSpec => VerdictIsTrue
<1>1. WatchInit => WatchInv
  BY WatchStart
<1>2. WatchInv /\ [WatchNext]_watchVars => WatchInv' /\ TrueVerdict
  BY WatchStep
<1>3. TrueVerdict =>
        [/\ Finish /\ thread.target # "failed" =>
             \A c \in Promised(thread.target) : made[c] > base[c] /\ (run[c] = 0 \/ run[c] > base[c])
         /\ \A i \in DOMAIN actions' : actions'[i] = "RESTARTING" => lock']_watchVars
  BY DEF TrueVerdict
<1>. QED BY <1>1, <1>2, <1>3, PTL DEF WatchSpec, VerdictIsTrue
=============================================================================
