-------------------------- MODULE PositionLife_proofs --------------------------
(***************************************************************************)
(* A position whose row is closed is closed in the account, for any number *)
(* of confirmations, attempts, closes and disturbances.                    *)
(*                                                                         *)
(* Everybody who closes the row has loaded it before, has looked at the    *)
(* terminal in between and commits later.  GoneInv says of each of them    *)
(* that what it carries is evidence of a position that is gone: a snapshot *)
(* without the position, an answer of the bridge, a closing deal, a job    *)
(* that only a close enqueues.  A position that is gone does not come back *)
(* under its ticket, so that no evidence can go stale.                     *)
(*                                                                         *)
(* Two premises are the ones of the run: the close endpoint does not take  *)
(* a failure of positions_get for an empty account, and the account is not *)
(* changed under a call that is running.                                   *)
(***************************************************************************)
EXTENDS PositionLife, TLAPS

Gone == ~ account.open

\* A job that is still to be run has an attempt left.
AttemptsLeft ==
    \A k \in Keys : job[k].status \notin {"COMPLETED", "FAILED"} => job[k].attempts < MaxAttempts

\* The job the worker has is running, and asked for again at most.
WorkerHasJob ==
    worker.pc # "idle" => worker.key \in Keys /\ job[worker.key].status \in {"RUNNING", "RERUN"}

LifeShape == TypeOK /\ AttemptsLeft /\ WorkerHasJob

JobRows == [status : JobStatus, attempts : 0 .. MaxAttempts]
Workers == [key : Keys \cup {"none"}, pc : {"idle", "claimed", "saving"}, read : Rows, got : Prices]

\* The account has a closing deal when the position is gone.
DealMeansGone == account.deal # "none" => Gone

\* The close endpoint talks to the account of the row, and finds out.
CloserKnows ==
    /\ known => active
    /\ closer.pc \in {"checking", "sending", "rechecking"} => active
    /\ closer.pc \in {"gone", "closing", "posting"} => Gone

\* A snapshot without the position, or its closing deal, is of a closed position.
SyncerKnows ==
    /\ syncer.pc \in {"positions", "posted"} /\ ~ syncer.sees => Gone
    /\ syncer.exit => Gone

\* The jobs of closing deals are enqueued by those who closed the row.
JobsKnow ==
    /\ \A k \in {"latest", "deal"} : job[k].status # "none" => Gone
    /\ worker.pc # "idle" /\ worker.key \in {"latest", "deal"} => Gone

\* Everybody who closes the row has evidence that the position is gone.
GoneInv == LifeShape /\ DealMeansGone /\ CloserKnows /\ SyncerKnows /\ JobsKnow /\ ClosedMeansGone

-----------------------------------------------------------------------------
(* What the steps have in common.                                          *)

\* A commit closes the row only if it means to: it writes the status it computed, or
\* leaves that of somebody else.
LEMMA SaveStatus ==
    ASSUME NEW read, NEW new, Save(read, new)
    PROVE  row'.status \in {row.status, new.status}
  BY DEF Save, Columns

\* A computed row that keeps the status it has read does not touch that of the row.
LEMMA SaveKeepsStatus ==
    ASSUME NEW read, NEW new, Save(read, new), new.status = read.status
    PROVE  row'.status = row.status
  BY DEF Save, Columns

\* The committed row is a row, however the columns of two transactions are mixed.
LEMMA SaveShape ==
    ASSUME row \in Rows, NEW read \in Rows, NEW new \in Rows, Save(read, new)
    PROVE  row' \in Rows
<1>1. row' = [status |-> row'.status, price |-> row'.price, enrich |-> row'.enrich,
              missing |-> row'.missing, tp |-> row'.tp]
  BY DEF Save, Columns
<1>2. /\ row'.status \in {row.status, new.status} /\ row'.price \in {row.price, new.price}
      /\ row'.enrich \in {row.enrich, new.enrich} /\ row'.missing \in {row.missing, new.missing}
      /\ row'.tp \in {row.tp, new.tp}
  BY DEF Save, Columns
<1>. QED BY <1>1, <1>2 DEF Rows

\* A row whose columns are changed one by one is a row.
LEMMA RowsBecomeRows ==
    ASSUME NEW r \in Rows
    PROVE  /\ \A status \in {"OPEN", "CLOSED"} : [r EXCEPT !.status = status] \in Rows
           /\ \A price \in Prices : [r EXCEPT !.price = price] \in Rows
           /\ \A enrich \in Enrichments : [r EXCEPT !.enrich = enrich] \in Rows
           /\ \A missing \in 0 .. Confirmations : [r EXCEPT !.missing = missing] \in Rows
           /\ \A tp \in TakeProfits : [r EXCEPT !.tp = tp] \in Rows
<1>1. \A status \in {"OPEN", "CLOSED"} : [r EXCEPT !.status = status] \in Rows
  BY DEF Rows
<1>2. \A price \in Prices : [r EXCEPT !.price = price] \in Rows
  BY DEF Rows
<1>3. \A enrich \in Enrichments : [r EXCEPT !.enrich = enrich] \in Rows
  BY DEF Rows
<1>4. \A missing \in 0 .. Confirmations : [r EXCEPT !.missing = missing] \in Rows
  BY DEF Rows
<1>5. \A tp \in TakeProfits : [r EXCEPT !.tp = tp] \in Rows
  BY DEF Rows
<1>. QED BY <1>1, <1>2, <1>3, <1>4, <1>5

\* Everything a transaction computes from a row it has read is a row.
LEMMA WritersMakeRows ==
    ASSUME BoundsAssumption, NEW r \in Rows
    PROVE  /\ NewRow \in Rows
           /\ \A price \in Prices : WithDeal(r, price) \in Rows
           /\ \A withDeal \in BOOLEAN : GoneRow(r, withDeal) \in Rows
           /\ [[r EXCEPT !.status = "CLOSED"] EXCEPT !.price = "market", !.enrich = "PENDING_MT5_DEAL"]
                 \in Rows
<1>0. 0 \in 0 .. Confirmations /\ {"market", "none", "deal", "entry"} \subseteq Prices
      /\ {"PENDING_MT5_DEAL", "CONFIRMED_MT5", "OPEN_CONFIRMED"} \subseteq Enrichments
  BY DEF BoundsAssumption, Prices, Enrichments
<1>1. NewRow \in Rows
  BY <1>0 DEF NewRow, Rows, TakeProfits
<1>2. \A s \in Rows, price \in Prices : WithDeal(s, price) \in Rows
  BY <1>0 DEF WithDeal, Rows
<1>3. [[r EXCEPT !.status = "CLOSED"] EXCEPT !.price = "market", !.enrich = "PENDING_MT5_DEAL"] \in Rows
  BY <1>0 DEF Rows
<1>4. ASSUME NEW withDeal \in BOOLEAN PROVE GoneRow(r, withDeal) \in Rows
  <2>. DEFINE closed == [r EXCEPT !.status = "CLOSED", !.missing = 0]
  <2>1. closed \in Rows
    BY <1>0 DEF Rows
  <2>2. [closed EXCEPT !.price = IF @ = "none" THEN "market" ELSE @, !.enrich = "PENDING_MT5_DEAL"]
           \in Rows
    <3>. HIDE DEF closed
    <3>. QED BY <1>0, <2>1 DEF Rows
  <2>. QED BY <1>0, <1>2, <2>1, <2>2 DEF GoneRow
<1>. QED BY <1>1, <1>2, <1>3, <1>4

\* So is what the handler and the worker make of it.
LEMMA HandlersMakeRows ==
    ASSUME BoundsAssumption, TypeOK, NEW r \in Rows
    PROVE  /\ SeenRow(r) \in Rows /\ SeenRow(r).status = "OPEN"
           /\ AbsentRow(r) \in Rows
           /\ JobRow(r) \in Rows
<1>0. /\ 0 \in 0 .. Confirmations /\ Confirmations \in 0 .. Confirmations
      /\ {"market", "none", "deal", "entry"} \subseteq Prices
      /\ {"PENDING_MT5_DEAL", "CONFIRMED_MT5", "OPEN_CONFIRMED"} \subseteq Enrichments
      /\ "final" \in TakeProfits /\ syncer.tp \in TakeProfits /\ worker.got \in Prices
  BY DEF BoundsAssumption, Prices, Enrichments, TakeProfits, TypeOK
<1>1. OpenRow(r) \in Rows /\ OpenRow(r).status = "OPEN"
  <2>. DEFINE tp == IF syncer.tp = "none" THEN "final" ELSE syncer.tp
  <2>1. tp \in TakeProfits
    BY <1>0
  <2>2. OpenRow(r) = [r EXCEPT !.status = "OPEN", !.price = "none", !.enrich = "OPEN_CONFIRMED",
                               !.missing = 0, !.tp = tp]
    BY DEF OpenRow
  <2>. HIDE DEF tp
  <2>. QED BY <1>0, <2>1, <2>2 DEF Rows
<1>2. SeenRow(r) \in Rows /\ SeenRow(r).status = "OPEN"
  <2>1. WithDeal(OpenRow(r), "deal") \in Rows
    BY <1>0, <1>1, WritersMakeRows
  <2>2. WithDeal(OpenRow(r), "deal").status = "OPEN"
    BY <1>1 DEF WithDeal, Rows
  <2>. QED BY <1>1, <2>1, <2>2 DEF SeenRow
<1>3. AbsentRow(r) \in Rows
  <2>1. WithDeal(r, "deal") \in Rows
    BY <1>0, WritersMakeRows
  <2>2. [WithDeal(r, "deal") EXCEPT !.status = "CLOSED"] \in Rows
    BY <2>1, RowsBecomeRows
  <2>3. [r EXCEPT !.status = "CLOSED", !.price = "market", !.enrich = "PENDING_MT5_DEAL",
                  !.missing = Confirmations] \in Rows
    BY <1>0 DEF Rows
  <2>4. r.missing \in 0 .. Confirmations
    BY DEF Rows
  <2>5. ~ ClosedByAbsence(r) /\ ~ syncer.exit /\ r.status = "OPEN" => r.missing + 1 \in 0 .. Confirmations
    BY <2>4 DEF ClosedByAbsence, BoundsAssumption
  <2>6. ~ ClosedByAbsence(r) /\ ~ syncer.exit /\ r.status = "OPEN" => [r EXCEPT !.missing = @ + 1] \in Rows
    BY <2>5, RowsBecomeRows
  <2>. QED BY <2>2, <2>3, <2>6 DEF AbsentRow
<1>4. JobRow(r) \in Rows
  <2>1. WithDeal(r, worker.got) \in Rows
    BY <1>0, WritersMakeRows
  <2>2. [WithDeal(r, worker.got) EXCEPT !.status = "CLOSED"] \in Rows
    BY <2>1, RowsBecomeRows
  <2>3. [r EXCEPT !.tp = "final"] \in Rows
    BY <1>0, RowsBecomeRows
  <2>. QED BY <2>2, <2>3 DEF JobRow
<1>. QED BY <1>2, <1>3, <1>4

\* Asking for a job changes no other.
LEMMA RequestedShape ==
    ASSUME LifeShape, BoundsAssumption, NEW k \in Keys
    PROVE  /\ Requested(k) \in [Keys -> JobRows]
           /\ \A j \in Keys : j # k => Requested(k)[j] = job[j]
           /\ Requested(k)[k].status \notin {"COMPLETED", "FAILED"}
                => Requested(k)[k].attempts < MaxAttempts
           /\ job[k].status \in {"RUNNING", "RERUN"} => Requested(k)[k].status \in {"RUNNING", "RERUN"}
  BY DEF Requested, LifeShape, TypeOK, AttemptsLeft, JobStatus, JobRows, BoundsAssumption

\* Where the account changes: the position closes, its deal appears, or a take
\* profit is set.
LEMMA AccountMoves ==
    ASSUME LifeShape, [Next]_vars
    PROVE  \/ UNCHANGED account
           \/ \E d \in DealStates : account.open /\ account' = Closed(d)
           \/ account.deal = "hidden" /\ account' = [account EXCEPT !.deal = "visible"]
           \/ \E tp \in {"user", "final"} : account.open /\ account' = [account EXCEPT !.tp = tp]
  BY DEF LifeShape, TypeOK, Next, vars, terminal, callers, bridge, jobs, spent, ClosesItself,
     DealAppears, SwitchAccount, StatusArrives, StartClose, CloserStep, Reconcile,
     CommitReconciled, SendClose, CommitClose, EnqueueDeal, StartTp, TpStep, SendTp, CommitTp,
     SyncStep, TakePositions, TakeDeals, TakeDealsWithHistory, HandlerCommit, WorkerStep,
     Claim, FetchDeal, ApplyTp, CommitJob, Crash, Served

\* A position that is gone does not come back, and its deal not before it.
LEMMA AccountKeeps ==
    ASSUME LifeShape, DealMeansGone, [Next]_vars
    PROVE  /\ account' \in [open : BOOLEAN, tp : TakeProfits, deal : {"none", "hidden", "visible"}]
           /\ Gone => Gone'
           /\ DealMeansGone'
<1>1. CASE UNCHANGED account
  BY <1>1 DEF LifeShape, TypeOK, DealMeansGone, Gone
<1>2. ASSUME NEW d \in DealStates, account.open, account' = Closed(d)
      PROVE  /\ account' \in [open : BOOLEAN, tp : TakeProfits, deal : {"none", "hidden", "visible"}]
             /\ Gone'
  BY <1>2 DEF LifeShape, TypeOK, Gone, Closed, DealStates
<1>3. CASE account.deal = "hidden" /\ account' = [account EXCEPT !.deal = "visible"]
  BY <1>3 DEF LifeShape, TypeOK, DealMeansGone, Gone
<1>4. ASSUME NEW tp \in {"user", "final"}, account.open, account' = [account EXCEPT !.tp = tp]
      PROVE  /\ account' \in [open : BOOLEAN, tp : TakeProfits, deal : {"none", "hidden", "visible"}]
             /\ account'.open = account.open /\ account'.deal = account.deal
  BY <1>4 DEF LifeShape, TypeOK, TakeProfits
<1>. QED BY <1>1, <1>2, <1>3, <1>4, AccountMoves DEF DealMeansGone, Gone

\* Where the jobs change.
LEMMA JobsMove ==
    ASSUME [Next]_vars
    PROVE  \/ UNCHANGED <<job, worker>>
           \/ job' = Requested("latest") /\ worker' = worker
              /\ \/ closer.pc = "gone"
                 \/ syncer.pc = "posted" /\ ~ syncer.sees
           \/ EnqueueDeal
           \/ \E k \in Keys : Claim(k)
           \/ FetchDeal \/ ApplyTp \/ CommitJob
           \/ Crash
  BY DEF Next, vars, terminal, callers, bridge, jobs, spent, ClosesItself,
     DealAppears, SwitchAccount, StatusArrives, StartClose, CloserStep, Reconcile,
     CommitReconciled, SendClose, CommitClose, StartTp, TpStep, SendTp, CommitTp,
     SyncStep, TakePositions, TakeDeals, TakeDealsWithHistory, HandlerCommit, WorkerStep

\* A job that fails keeps its key and the others, and has an attempt less.
LEMMA FailsShape ==
    ASSUME LifeShape, BoundsAssumption, Fails, worker.pc = "claimed"
    PROVE  /\ job' \in [Keys -> JobRows]
           /\ \A k \in Keys : k # worker.key => job'[k] = job[k]
           /\ job'[worker.key].status \notin {"COMPLETED", "FAILED"}
                => job'[worker.key].attempts < MaxAttempts
           /\ worker' = IdleWorker
  BY DEF Fails, LifeShape, TypeOK, AttemptsLeft, WorkerHasJob, JobStatus, JobRows, BoundsAssumption

\* The worker without a job.
LEMMA IdleWorkerShape ==
    ASSUME BoundsAssumption
    PROVE  IdleWorker \in Workers /\ IdleWorker.pc = "idle"
<1>1. NewRow \in Rows
  BY DEF NewRow, Rows, Prices, Enrichments, TakeProfits, BoundsAssumption
<1>. QED BY <1>1 DEF IdleWorker, Workers, Prices

\* What a step may make of jobs and worker.
JobsShape == job \in [Keys -> JobRows] /\ worker \in Workers /\ AttemptsLeft /\ WorkerHasJob

\* Types stay, and who waits for a closing deal knows that there is one.
LEMMA JobsStay ==
    ASSUME GoneInv, BoundsAssumption, [Next]_vars
    PROVE  JobsShape' /\ JobsKnow'
<1>1. Gone => Gone'
  BY AccountKeeps DEF GoneInv, LifeShape
<1>2. LifeShape /\ JobsKnow /\ JobsShape /\ {"latest", "deal"} \subseteq Keys
  BY DEF GoneInv, LifeShape, TypeOK, JobsShape, JobRows, Workers, Keys
<1>. USE IdleWorkerShape
<1>3. CASE UNCHANGED <<job, worker>>
  BY <1>1, <1>2, <1>3 DEF JobsShape, JobsKnow, AttemptsLeft, WorkerHasJob
<1>4. CASE /\ job' = Requested("latest") /\ worker' = worker
           /\ \/ closer.pc = "gone"
              \/ syncer.pc = "posted" /\ ~ syncer.sees
  <2>1. Gone
    BY <1>4 DEF GoneInv, CloserKnows, SyncerKnows
  <2>2. JobsShape'
    BY <1>2, <1>4, RequestedShape DEF JobsShape, AttemptsLeft, WorkerHasJob
  <2>. QED BY <1>1, <2>1, <2>2 DEF JobsKnow
<1>5. CASE EnqueueDeal
  <2>1. Gone /\ worker' = worker
    BY <1>5 DEF EnqueueDeal, GoneInv, CloserKnows
  <2>2. /\ job' \in [Keys -> JobRows] /\ AttemptsLeft'
        /\ \A k \in Keys : job[k].status \in {"RUNNING", "RERUN"} => job'[k] = job[k]
    <3>1. \A k \in Keys : k # "deal" => job'[k] = job[k]
      BY <1>2, <1>5 DEF EnqueueDeal, JobsShape
    <3>2. job["deal"].status # "none" => job' = job
      BY <1>2, <1>5 DEF EnqueueDeal, JobsShape, JobRows
    <3>3. job' \in [Keys -> JobRows]
      BY <1>2, <1>5 DEF EnqueueDeal, JobsShape, JobRows, JobStatus
    <3>4. job'["deal"].attempts = job["deal"].attempts
      BY <1>2, <1>5 DEF EnqueueDeal, JobsShape, JobRows
    <3>. QED BY <1>2, <3>1, <3>2, <3>3, <3>4 DEF JobsShape, AttemptsLeft
  <2>. QED BY <1>1, <1>2, <2>1, <2>2 DEF JobsKnow, JobsShape, WorkerHasJob
<1>6. ASSUME NEW k \in Keys, Claim(k)
      PROVE  JobsShape' /\ JobsKnow'
  <2>1. /\ job' \in [Keys -> JobRows]
        /\ \A j \in Keys : j # k => job'[j] = job[j]
        /\ job[k].status = "PENDING" /\ job'[k].status = "RUNNING" /\ job'[k].attempts = job[k].attempts
    BY <1>2, <1>6 DEF Claim, JobsShape, JobRows, JobStatus
  <2>2. worker' \in Workers /\ worker'.key = k
    BY <1>2, <1>6 DEF Claim, Workers, LifeShape, TypeOK, Prices
  <2>. QED BY <1>1, <1>2, <2>1, <2>2 DEF JobsKnow, JobsShape, AttemptsLeft, WorkerHasJob
<1>7. ASSUME worker.pc = "claimed", Fails, worker.key \in {"latest", "deal"} => Gone
      PROVE  JobsShape' /\ JobsKnow'
  BY <1>1, <1>2, <1>7, FailsShape DEF JobsKnow, JobsShape, AttemptsLeft, WorkerHasJob, IdleWorker
<1>8. ASSUME worker.pc = "claimed", UNCHANGED job, worker' \in Workers, worker'.key = worker.key,
             worker'.pc # "idle"
      PROVE  JobsShape' /\ JobsKnow'
  BY <1>1, <1>2, <1>8 DEF JobsKnow, JobsShape, AttemptsLeft, WorkerHasJob
<1>9. CASE FetchDeal
  <2>1. worker.pc = "claimed" /\ worker.key \in {"latest", "deal"} /\ Gone
    BY <1>2, <1>9 DEF FetchDeal, JobsKnow
  <2>2. CASE Fails
    BY <1>7, <2>1, <2>2
  <2>3. CASE worker' = [worker EXCEPT !.pc = "saving", !.got = DealPrice] /\ UNCHANGED job
    BY <1>2, <1>8, <2>1, <2>3 DEF JobsShape, Workers, DealPrice, Prices
  <2>. QED BY <1>9, <2>2, <2>3 DEF FetchDeal
<1>10. CASE ApplyTp
  <2>1. worker.pc = "claimed" /\ worker.key = "tp"
    BY <1>10 DEF ApplyTp
  <2>2. CASE Fails
    BY <1>7, <2>1, <2>2
  <2>3. CASE worker' = [worker EXCEPT !.pc = "saving"] /\ UNCHANGED job
    BY <1>2, <1>8, <2>1, <2>3 DEF JobsShape, Workers
  <2>. QED BY <1>10, <2>2, <2>3 DEF ApplyTp
<1>11. CASE CommitJob
  <2>1. worker' = IdleWorker /\ worker.pc = "saving"
    BY <1>11 DEF CommitJob
  <2>2. worker.key \in Keys /\ job[worker.key].status \in {"RUNNING", "RERUN"}
    BY <1>2, <2>1 DEF JobsShape, WorkerHasJob
  <2>3. /\ job' \in [Keys -> JobRows]
        /\ \A k \in Keys : k # worker.key => job'[k] = job[k]
        /\ job'[worker.key].attempts = job[worker.key].attempts
    BY <1>2, <1>11 DEF CommitJob, JobsShape, JobRows, JobStatus
  <2>4. AttemptsLeft'
    BY <1>2, <2>2, <2>3 DEF AttemptsLeft, JobsShape
  <2>5. worker.key \in {"latest", "deal"} => Gone
    BY <1>2, <2>1 DEF JobsKnow
  <2>. QED BY <1>1, <1>2, <2>1, <2>3, <2>4, <2>5 DEF JobsKnow, JobsShape, WorkerHasJob
<1>12. CASE Crash
  <2>1. worker' = IdleWorker
    BY <1>12 DEF Crash
  <2>2. /\ job' \in [Keys -> JobRows]
        /\ \A k \in Keys : /\ job'[k].attempts = job[k].attempts
                            /\ \/ job'[k].status = job[k].status
                               \/ job[k].status \in {"RUNNING", "RERUN"}
    BY <1>2, <1>12 DEF Crash, JobsShape, JobRows, JobStatus
  <2>3. AttemptsLeft'
    BY <1>2, <2>2 DEF AttemptsLeft, JobsShape
  <2>. QED BY <1>1, <1>2, <2>1, <2>2, <2>3 DEF JobsKnow, JobsShape, WorkerHasJob
<1>. QED BY <1>3, <1>4, <1>5, <1>6, <1>9, <1>10, <1>11, <1>12, JobsMove

-----------------------------------------------------------------------------
(* Those who close the row.                                                *)

\* The close endpoint looks at the account of the row, which stays selected.
LEMMA CloserStays ==
    ASSUME GoneInv, BoundsAssumption, ~ SwitchAnytime, "positions" \notin Kinds, [Next]_vars
    PROVE  CloserKnows' /\ active' \in BOOLEAN /\ known' \in BOOLEAN
<1>1. Gone => Gone'
  BY AccountKeeps DEF GoneInv, LifeShape
<1>2. CloserKnows /\ active \in BOOLEAN /\ known \in BOOLEAN
  BY DEF GoneInv, LifeShape, TypeOK
<1>3. CASE UNCHANGED <<active, known, closer>>
  BY <1>1, <1>2, <1>3 DEF CloserKnows
<1>4. CASE SwitchAccount
  BY <1>1, <1>2, <1>4 DEF SwitchAccount, CloserKnows, callers
<1>5. CASE StatusArrives
  BY <1>1, <1>2, <1>5 DEF StatusArrives, CloserKnows, callers
<1>6. CASE StartClose
  BY <1>1, <1>2, <1>6 DEF StartClose, CloserKnows, terminal
<1>7. CASE Reconcile
  BY <1>1, <1>2, <1>7 DEF Reconcile, CloserKnows, terminal, Disturb, Listed, NotGone, Gone,
     GoneInv, LifeShape, TypeOK
<1>8. CASE SendClose
  <2>1. active /\ UNCHANGED <<active, known>>
    BY <1>2, <1>8 DEF SendClose, CloserKnows
  <2>2. \A deal \in BOOLEAN : [closer EXCEPT !.pc = "closing", !.deal = deal].pc = "closing"
    BY DEF GoneInv, LifeShape, TypeOK
  <2>3. [closer EXCEPT !.pc = "rechecking"].pc = "rechecking" /\ IdleCloser.pc = "idle"
    BY DEF GoneInv, LifeShape, TypeOK, IdleCloser
  <2>4. \A d \in DealStates : account' = Closed(d) => Gone'
    BY DEF Closed, Gone, GoneInv, LifeShape, TypeOK
  <2>5. closer'.pc \in {"idle", "rechecking"} \/ (closer'.pc = "closing" /\ Gone')
    BY <1>8, <2>2, <2>3, <2>4 DEF SendClose
  <2>. QED BY <1>2, <2>1, <2>5 DEF CloserKnows
<1>9. CASE CommitClose
  BY <1>1, <1>2, <1>9 DEF CommitClose, CloserKnows, terminal, IdleCloser, GoneInv, LifeShape, TypeOK
<1>10. CASE CommitReconciled \/ EnqueueDeal \/ Crash
  BY <1>1, <1>2, <1>10 DEF CommitReconciled, EnqueueDeal, Crash, CloserKnows, terminal, IdleCloser
<1>. QED BY <1>3, <1>4, <1>5, <1>6, <1>7, <1>8, <1>9, <1>10
         DEF Next, vars, terminal, callers, bridge, jobs, ClosesItself, DealAppears, CloserStep,
             StartTp, TpStep, SendTp, CommitTp, SyncStep, TakePositions, TakeDeals,
             TakeDealsWithHistory, HandlerCommit, WorkerStep, Claim, FetchDeal, ApplyTp, CommitJob

\* A snapshot is older than its commit, but a position that it misses stays gone.
LEMMA SyncerStays ==
    ASSUME GoneInv, BoundsAssumption, [Next]_vars
    PROVE  SyncerKnows'
<1>1. Gone => Gone'
  BY AccountKeeps DEF GoneInv, LifeShape
<1>2. SyncerKnows
  BY DEF GoneInv
<1>3. CASE UNCHANGED syncer
  BY <1>1, <1>2, <1>3 DEF SyncerKnows
<1>4. CASE TakePositions
  BY <1>1, <1>2, <1>4 DEF TakePositions, SyncerKnows, Gone, GoneInv, LifeShape, TypeOK, terminal
<1>5. CASE TakeDeals
  BY <1>1, <1>2, <1>5 DEF TakeDeals, SyncerKnows, IdleSyncer, GoneInv, LifeShape, TypeOK
<1>6. CASE TakeDealsWithHistory
  BY <1>1, <1>2, <1>6 DEF TakeDealsWithHistory, SyncerKnows, GoneInv, DealMeansGone, LifeShape, TypeOK
<1>7. CASE HandlerCommit \/ Crash
  BY <1>1, <1>2, <1>7 DEF HandlerCommit, Crash, SyncerKnows, IdleSyncer
<1>. QED BY <1>3, <1>4, <1>5, <1>6, <1>7
         DEF Next, vars, terminal, callers, bridge, jobs, ClosesItself, DealAppears, SwitchAccount,
             StatusArrives, StartClose, CloserStep, Reconcile, CommitReconciled, SendClose,
             CommitClose, EnqueueDeal, StartTp, TpStep, SendTp, CommitTp, SyncStep,
             WorkerStep, Claim, FetchDeal, ApplyTp, CommitJob

\* A commit writes what it computed or leaves what is there.
LEMMA RowStays ==
    ASSUME GoneInv, BoundsAssumption, [Next]_vars
    PROVE  row' \in Rows /\ ClosedMeansGone'
<1>1. Gone => Gone'
  BY AccountKeeps DEF GoneInv, LifeShape
<1>2. TypeOK /\ ClosedMeansGone /\ row \in Rows
  BY DEF GoneInv, LifeShape, TypeOK
<1>3. ASSUME NEW read \in Rows, NEW new \in Rows, Save(read, new),
             new.status # "OPEN" /\ new.status # read.status => Gone
      PROVE  row' \in Rows /\ ClosedMeansGone'
  <2>1. row' \in Rows
    BY <1>2, <1>3, SaveShape
  <2>2. row'.status = "CLOSED" => row.status = "CLOSED" \/ Gone
    BY <1>2, <1>3, SaveStatus, SaveKeepsStatus
  <2>. QED BY <1>1, <1>2, <2>1, <2>2 DEF ClosedMeansGone, Gone
<1>4. CASE UNCHANGED row
  BY <1>1, <1>2, <1>4 DEF ClosedMeansGone, Gone
<1>5. CASE CommitReconciled
  <2>1. closer.read \in Rows /\ Gone /\ closer.deal \in BOOLEAN
    BY <1>2, <1>5 DEF CommitReconciled, TypeOK, GoneInv, CloserKnows
  <2>. QED BY <1>3, <1>5, <2>1, WritersMakeRows DEF CommitReconciled
<1>6. CASE CommitClose
  <2>. DEFINE closed == [closer.read EXCEPT !.status = "CLOSED"]
  <2>1. closer.read \in Rows /\ Gone
    BY <1>2, <1>6 DEF CommitClose, TypeOK, GoneInv, CloserKnows
  <2>2. closed \in Rows /\ "deal" \in Prices
    BY <2>1, RowsBecomeRows DEF Prices
  <2>3. WithDeal(closed, "deal") \in Rows
    BY <2>2, WritersMakeRows
  <2>4. [closed EXCEPT !.price = "market", !.enrich = "PENDING_MT5_DEAL"] \in Rows
    BY <2>1, WritersMakeRows
  <2>5. \E new \in Rows : Save(closer.read, new)
    <3>1. Save(closer.read, IF closer.deal THEN WithDeal(closed, "deal")
                            ELSE [closed EXCEPT !.price = "market", !.enrich = "PENDING_MT5_DEAL"])
      BY <1>6 DEF CommitClose
    <3>. HIDE DEF closed
    <3>. QED BY <2>3, <2>4, <3>1
  <2>. QED BY <1>3, <2>1, <2>5
<1>7. CASE CommitTp
  <2>1. tpUser.read \in Rows /\ "user" \in TakeProfits
    BY <1>2 DEF TypeOK, TakeProfits
  <2>2. [tpUser.read EXCEPT !.tp = "user"] \in Rows
    BY <2>1, RowsBecomeRows
  <2>3. [tpUser.read EXCEPT !.tp = "user"].status = tpUser.read.status
    BY <2>1 DEF Rows
  <2>. QED BY <1>3, <1>7, <2>1, <2>2, <2>3 DEF CommitTp
<1>8. CASE HandlerCommit
  <2>1. syncer.read \in Rows
    BY <1>2 DEF TypeOK
  <2>2. SeenRow(syncer.read) \in Rows /\ SeenRow(syncer.read).status = "OPEN"
        /\ AbsentRow(syncer.read) \in Rows
    BY <1>2, <2>1, HandlersMakeRows
  <2>3. ~ syncer.sees => Gone
    BY <1>8 DEF HandlerCommit, GoneInv, SyncerKnows
  <2>4. CASE syncer.sees
    BY <1>3, <1>8, <2>1, <2>2, <2>4 DEF HandlerCommit
  <2>5. CASE ~ syncer.sees
    BY <1>3, <1>8, <2>1, <2>2, <2>3, <2>5 DEF HandlerCommit
  <2>. QED BY <2>4, <2>5
<1>9. CASE CommitJob
  <2>1. worker.read \in Rows /\ JobRow(worker.read) \in Rows
    BY <1>2, HandlersMakeRows DEF TypeOK
  <2>2. CASE worker.key \in {"latest", "deal"}
    BY <1>3, <1>9, <2>1, <2>2 DEF CommitJob, GoneInv, JobsKnow
  <2>3. CASE worker.key \notin {"latest", "deal"}
    <3>1. JobRow(worker.read).status = worker.read.status
      BY <2>1, <2>3 DEF JobRow, Rows
    <3>. QED BY <1>3, <1>9, <2>1, <3>1 DEF CommitJob
  <2>. QED BY <2>2, <2>3
<1>. QED BY <1>4, <1>5, <1>6, <1>7, <1>8, <1>9
         DEF Next, vars, terminal, callers, bridge, jobs, ClosesItself, DealAppears, SwitchAccount,
             StatusArrives, StartClose, CloserStep, Reconcile, SendClose, EnqueueDeal, StartTp,
             TpStep, SendTp, SyncStep, TakePositions, TakeDeals, TakeDealsWithHistory,
             WorkerStep, Claim, FetchDeal, ApplyTp, Crash

-----------------------------------------------------------------------------
(* The types of the others, and the theorem.                               *)

\* The program counters and copies of those who read the row.
CallersShape ==
    /\ closer \in [pc : {"idle", "checking", "sending", "rechecking", "gone", "closing", "posting"},
                   read : Rows, deal : BOOLEAN]
    /\ tpUser \in [pc : {"idle", "sending", "saving"}, read : Rows]
    /\ syncer \in [pc : {"idle", "positions", "posted"}, sees : BOOLEAN, tp : TakeProfits,
                   exit : BOOLEAN, read : Rows]
    /\ cursor \in BOOLEAN

LEMMA CallersStay ==
    ASSUME TypeOK, BoundsAssumption, [Next]_vars
    PROVE  CallersShape'
<1>0. /\ CallersShape /\ row \in Rows /\ account.open \in BOOLEAN /\ account.tp \in TakeProfits
      /\ active \in BOOLEAN /\ (account.deal = "visible") \in BOOLEAN
  BY DEF TypeOK, CallersShape
<1>1. NewRow \in Rows
  BY WritersMakeRows, <1>0
<1>2. closer' \in [pc : {"idle", "checking", "sending", "rechecking", "gone", "closing", "posting"},
                   read : Rows, deal : BOOLEAN]
  <2>1. IdleCloser \in [pc : {"idle"}, read : Rows, deal : BOOLEAN]
    BY <1>1 DEF IdleCloser
  <2>2. CASE StartClose
    BY <1>0, <2>2 DEF StartClose
  <2>3. CASE Reconcile
    BY <1>0, <2>3 DEF Reconcile, CallersShape, NotGone
  <2>4. CASE SendClose
    BY <1>0, <2>1, <2>4 DEF SendClose, CallersShape
  <2>5. CASE CommitReconciled \/ CommitClose \/ EnqueueDeal \/ Crash
    BY <1>0, <2>1, <2>5 DEF CommitReconciled, CommitClose, EnqueueDeal, Crash, CallersShape
  <2>6. CASE UNCHANGED closer
    BY <1>0, <2>6 DEF CallersShape
  <2>. QED BY <2>2, <2>3, <2>4, <2>5, <2>6
           DEF Next, vars, callers, ClosesItself, DealAppears, SwitchAccount, StatusArrives,
               CloserStep, StartTp, TpStep, SendTp, CommitTp, SyncStep, TakePositions, TakeDeals,
               TakeDealsWithHistory, HandlerCommit, WorkerStep, Claim, FetchDeal, ApplyTp, CommitJob
<1>3. tpUser' \in [pc : {"idle", "sending", "saving"}, read : Rows]
  <2>1. IdleTp \in [pc : {"idle"}, read : Rows]
    BY <1>1 DEF IdleTp
  <2>2. CASE StartTp
    BY <1>0, <2>2 DEF StartTp
  <2>3. CASE SendTp \/ CommitTp \/ Crash
    BY <1>0, <2>1, <2>3 DEF SendTp, CommitTp, Crash, CallersShape
  <2>4. CASE UNCHANGED tpUser
    BY <1>0, <2>4 DEF CallersShape
  <2>. QED BY <2>2, <2>3, <2>4
           DEF Next, vars, callers, ClosesItself, DealAppears, SwitchAccount, StatusArrives,
               StartClose, CloserStep, Reconcile, CommitReconciled, SendClose, CommitClose,
               EnqueueDeal, TpStep, SyncStep, TakePositions, TakeDeals,
               TakeDealsWithHistory, HandlerCommit, WorkerStep, Claim, FetchDeal, ApplyTp, CommitJob
<1>4. /\ syncer' \in [pc : {"idle", "positions", "posted"}, sees : BOOLEAN, tp : TakeProfits,
                      exit : BOOLEAN, read : Rows]
      /\ cursor' \in BOOLEAN
  <2>1. IdleSyncer \in [pc : {"idle"}, sees : BOOLEAN, tp : TakeProfits, exit : BOOLEAN, read : Rows]
    BY <1>1 DEF IdleSyncer, TakeProfits
  <2>2. CASE TakePositions
    BY <1>0, <2>2 DEF TakePositions, CallersShape
  <2>3. CASE TakeDeals
    BY <1>0, <2>1, <2>3 DEF TakeDeals, CallersShape
  <2>4. CASE TakeDealsWithHistory
    BY <1>0, <2>4 DEF TakeDealsWithHistory, CallersShape
  <2>5. CASE HandlerCommit
    BY <1>0, <2>1, <2>5 DEF HandlerCommit, CallersShape
  <2>6. CASE Crash
    BY <1>0, <2>1, <2>6 DEF Crash, CallersShape
  <2>7. CASE UNCHANGED <<syncer, cursor>>
    BY <1>0, <2>7 DEF CallersShape
  <2>. QED BY <2>2, <2>3, <2>4, <2>5, <2>6, <2>7
           DEF Next, vars, callers, bridge, ClosesItself, DealAppears, SwitchAccount, StatusArrives,
               StartClose, CloserStep, Reconcile, CommitReconciled, SendClose, CommitClose,
               EnqueueDeal, StartTp, TpStep, SendTp, CommitTp, SyncStep, WorkerStep, Claim,
               FetchDeal, ApplyTp, CommitJob
<1>. QED BY <1>2, <1>3, <1>4 DEF CallersShape

LEMMA NextKeepsGoneInv ==
    ASSUME GoneInv, BoundsAssumption, ~ SwitchAnytime, "positions" \notin Kinds, [Next]_vars
    PROVE  GoneInv'
<1>1. LifeShape'
  BY AccountKeeps, JobsStay, CloserStays, CallersStay, RowStays
     DEF LifeShape, TypeOK, JobsShape, CallersShape, JobRows, Workers, GoneInv
<1>. QED BY <1>1, AccountKeeps, JobsStay, CloserStays, SyncerStays, RowStays DEF GoneInv, LifeShape

LEMMA InitGoneInv ==
    ASSUME BoundsAssumption, Init
    PROVE  GoneInv
<1>1. NewRow \in Rows /\ NewRow.status = "OPEN"
  BY DEF NewRow, Rows, Prices, Enrichments, TakeProfits, BoundsAssumption
<1>2. TypeOK
  <2>1. account \in [open : BOOLEAN, tp : TakeProfits, deal : {"none", "hidden", "visible"}]
    BY DEF Init, TakeProfits, BoundsAssumption
  <2>2. job \in [Keys -> [status : JobStatus, attempts : 0 .. MaxAttempts]]
    BY DEF Init, JobStatus, BoundsAssumption
  <2>3. row \in Rows /\ active \in BOOLEAN /\ known \in BOOLEAN /\ cursor \in BOOLEAN
    BY <1>1 DEF Init
  <2>4. IdleCloser \in [pc : {"idle"}, read : Rows, deal : BOOLEAN] /\ IdleTp \in [pc : {"idle"}, read : Rows]
    BY <1>1 DEF IdleCloser, IdleTp
  <2>5. IdleSyncer \in [pc : {"idle"}, sees : BOOLEAN, tp : TakeProfits, exit : BOOLEAN, read : Rows]
    BY <1>1 DEF IdleSyncer, TakeProfits
  <2>6. worker \in Workers
    BY IdleWorkerShape DEF Init
  <2>. QED BY <2>1, <2>2, <2>3, <2>4, <2>5, <2>6 DEF Init, TypeOK, Workers
<1>3. AttemptsLeft /\ WorkerHasJob
  BY DEF Init, AttemptsLeft, WorkerHasJob, IdleWorker, BoundsAssumption
<1>. QED BY <1>1, <1>2, <1>3 DEF Init, GoneInv, LifeShape, DealMeansGone, CloserKnows, SyncerKnows,
            JobsKnow, ClosedMeansGone, IdleCloser, IdleSyncer, IdleWorker, Keys, Gone

(***************************************************************************)
(* A position whose row is closed is closed in the account: neither a      *)
(* stale snapshot nor a lost answer, a late job or a crash takes a live    *)
(* position for a closed one, however the transactions are interleaved.    *)
(***************************************************************************)
THEOREM ClosedIsGone ==
    ASSUME ~ SwitchAnytime, "positions" \notin Kinds
    PROVE  Spec => []ClosedMeansGone
<1>1. Init => GoneInv
  BY InitGoneInv, BoundsAssumption
<1>2. GoneInv /\ [Next]_vars => GoneInv'
  BY NextKeepsGoneInv, BoundsAssumption
<1>3. GoneInv => ClosedMeansGone
  BY DEF GoneInv
<1>. QED BY <1>1, <1>2, <1>3, PTL DEF Spec
=============================================================================
