----------------------------- MODULE PositionLife -----------------------------
(***************************************************************************)
(* The row of one position of a strategy from the moment it has its ticket *)
(* to its confirmed close, and everybody who writes it: the close endpoint *)
(* and the take profit endpoint (positions/service.py), the handler of the *)
(* bridge's position posts, and the jobs that add the closing deal and set *)
(* the take profit (trade_jobs/service.py).                                *)
(*                                                                         *)
(* Each of them loads the row, calls the bridge or computes, and commits   *)
(* later; the ORM writes the columns that differ from what was loaded.     *)
(* Sessions do not flush before a SELECT (autoflush=False), so that the    *)
(* handler's SELECTs see the database and its objects see its own changes. *)
(*                                                                         *)
(* The terminal is external: the position with its take profit, and the    *)
(* history, where the entry deal is and the closing deal may come late.    *)
(* Repeated posts, tickets that come late and orders are in TorumOrders;   *)
(* push notifications and the dirty mark of the risk snapshot left out.    *)
(***************************************************************************)
EXTENDS Naturals

CONSTANTS
    Confirmations,  \* mt5_missing_position_confirmations, at least 2
    MaxAttempts,    \* trade_job_max_attempts
    MaxCloses,      \* bound: manual closes that are requested
    Kinds,          \* what may disturb the rest, of DisturbanceKinds
    MaxDisturbed,   \* bound: disturbances of all kinds together
    FirstTp,        \* the take profits a position may have when its row is made
    HistoryLag,     \* BOOLEAN: may the closing deal be missing at first?
    SwitchAnytime   \* BOOLEAN: may the account change under a running call?

\* The user sets a take profit; a call fails or its answer is lost; the terminal
\* changes its account; positions_get fails for the close endpoint; the API
\* crashes, between the two commits of a close too or anywhere else.
DisturbanceKinds == {"tp", "fault", "switch", "positions", "split", "crash"}

ASSUME BoundsAssumption ==
    /\ Confirmations \in Nat \ {0, 1} /\ MaxAttempts \in Nat \ {0}
    /\ MaxCloses \in Nat /\ MaxDisturbed \in Nat
    /\ FirstTp \subseteq {"none", "sent"}
    /\ Kinds \subseteq DisturbanceKinds
    /\ {HistoryLag, SwitchAnytime} \subseteq BOOLEAN

Prices == {"none", "market", "entry", "deal"}
Enrichments == {"OPEN_CONFIRMED", "PENDING_MT5_DEAL", "CONFIRMED_MT5"}
TakeProfits == {"none", "sent", "final", "user"}
Rows == [status : {"OPEN", "CLOSED"}, price : Prices, enrich : Enrichments,
         missing : 0..Confirmations, tp : TakeProfits]
Columns == {"status", "price", "enrich", "missing", "tp"}

\* enrich-close:<id>:latest, enrich-close:<id>:<deal> and apply-tp:<id>:<tp>.
Keys == {"latest", "deal", "tp"}
JobStatus == {"none", "PENDING", "RUNNING", "RERUN", "COMPLETED", "FAILED"}

VARIABLES
    account,   \* the terminal's account: [open, tp, deal]
    active,    \* the terminal is logged in to the account of the row
    known,     \* what the API last heard of that
    row,       \* the committed row
    closer,    \* the close endpoint: [pc, read, deal]
    tpUser,    \* the take profit endpoint: [pc, read]
    syncer,    \* syncer and handler: [pc, sees, tp, exit, read]
    cursor,    \* the syncer's cursor is past the closing deal
    job,       \* the job of every key: [status, attempts]
    worker,    \* the job worker: [key, pc, read, got]
    closes,    \* manual closes so far
    disturbed, \* disturbances so far
    left       \* history: the terminal has left the account of the row

vars == <<account, active, known, row, closer, tpUser, syncer, cursor, job, worker, closes,
          disturbed, left>>
spent == <<closes, disturbed, left>>
terminal == <<account, active, known>>
callers == <<closer, tpUser>>
bridge == <<syncer, cursor>>
jobs == <<job, worker>>

\* A row that has just got its ticket, by the order manager or by a sync.
NewRow == [status |-> "OPEN", price |-> "none", enrich |-> "OPEN_CONFIRMED",
           missing |-> 0, tp |-> "final"]
IdleCloser == [pc |-> "idle", read |-> NewRow, deal |-> FALSE]
IdleTp == [pc |-> "idle", read |-> NewRow]
IdleSyncer == [pc |-> "idle", sees |-> FALSE, tp |-> "none", exit |-> FALSE, read |-> NewRow]
IdleWorker == [key |-> "none", pc |-> "idle", read |-> NewRow, got |-> "none"]

\* The job of the final take profit is due: the open tasks of the order or the
\* repair of the sync that found the position have enqueued it.
Init ==
    /\ account \in [open : {TRUE}, tp : FirstTp, deal : {"none"}]
    /\ active = TRUE /\ known = TRUE
    /\ row = NewRow
    /\ closer = IdleCloser /\ tpUser = IdleTp
    /\ syncer = IdleSyncer /\ cursor = FALSE
    /\ job = [k \in Keys |-> [status |-> IF k = "tp" THEN "PENDING" ELSE "none", attempts |-> 0]]
    /\ worker = IdleWorker
    /\ closes = 0 /\ disturbed = 0 /\ left = FALSE

Disturb(kind) ==
    /\ kind \in Kinds /\ disturbed < MaxDisturbed
    /\ disturbed' = disturbed + 1
    /\ left' = (left \/ kind = "switch")
    /\ UNCHANGED closes

Fault == Disturb("fault")

\* The UPDATE of a flush: the columns of new that differ from what was loaded.
Save(read, new) ==
    row' = [c \in Columns |-> IF new[c] = read[c] THEN row[c] ELSE new[c]]

\* Mutant: the row is confirmed and keeps the price it has.
WithDealPriceKept(r, price) ==
    [r EXCEPT !.price = IF @ = "none" THEN price ELSE @, !.enrich = "CONFIRMED_MT5",
              !.missing = 0]

\* _apply_close_deal: it does not touch the status.
WithDeal(r, price) ==
    [r EXCEPT !.price = price, !.enrich = "CONFIRMED_MT5", !.missing = 0]

\* Mutant: a job that has ended is not enqueued again.
RequestedOnce(k) == [job EXCEPT ![k].status = IF @ = "none" THEN "PENDING" ELSE @]

\* enqueue_trade_job with reactivate_completed.
Requested(k) ==
    [job EXCEPT ![k] = CASE @.status \in {"none", "COMPLETED", "FAILED"}
                              -> [status |-> "PENDING", attempts |-> 0]
                         [] @.status = "RUNNING" -> [@ EXCEPT !.status = "RERUN"]
                         [] OTHER -> @]

-----------------------------------------------------------------------------
(* The terminal.                                                           *)

DealStates == IF HistoryLag THEN {"hidden", "visible"} ELSE {"visible"}

Closed(d) == [account EXCEPT !.open = FALSE, !.deal = d]

\* The take profit or another close in the terminal.
ClosesItself ==
    /\ account.open
    /\ \E d \in DealStates : account' = Closed(d)
    /\ UNCHANGED <<active, known, row, callers, bridge, jobs, spent>>

DealAppears ==
    /\ account.deal = "hidden"
    /\ account' = [account EXCEPT !.deal = "visible"]
    /\ UNCHANGED <<active, known, row, callers, bridge, jobs, spent>>

\* The terminal changes its account.  The API hears of it with the next status;
\* without SwitchAnytime the status of an account that is left is not late.
SwitchAccount ==
    /\ IF active THEN Disturb("switch") ELSE UNCHANGED spent
    /\ SwitchAnytime \/ closer.pc \notin {"checking", "sending", "rechecking"}
    /\ active' = ~active
    /\ known' = IF SwitchAnytime THEN known ELSE known /\ active'
    /\ UNCHANGED <<account, row, callers, bridge, jobs>>

StatusArrives ==
    /\ known # active
    /\ known' = active
    /\ UNCHANGED <<account, active, row, callers, bridge, jobs, spent>>

-----------------------------------------------------------------------------
(* close_position.                                                         *)

StartClose ==
    /\ closer.pc = "idle" /\ row.status = "OPEN" /\ known
    /\ closes < MaxCloses
    /\ closes' = closes + 1
    /\ closer' = [pc |-> "checking", read |-> row, deal |-> FALSE]
    /\ UNCHANGED <<terminal, row, tpUser, bridge, jobs, disturbed, left>>

\* Mutant: the list is always that of another account.
ListedElsewhere == FALSE

\* GET /positions of the bridge: the positions of whatever account is active.
Listed == active /\ account.open

\* The bridge acts for the account of the request only, and on a position it has.
Served == active /\ account.open

\* What the endpoint does when the position is not known to be gone.
NotGone == [closer EXCEPT !.pc = IF @ = "checking" THEN "sending" ELSE "idle"]

\* _reconcile_already_closed_mt5_position: health, positions, deals.  A failure
\* of positions_get is an empty list.
Reconcile ==
    /\ closer.pc \in {"checking", "rechecking"}
    /\ \/ closer.pc = "rechecking" /\ ~known
          /\ closer' = NotGone /\ UNCHANGED spent
       \/ closer' = NotGone /\ Fault
       \/ Listed /\ closer' = NotGone /\ UNCHANGED spent
       \/ /\ (Listed /\ Disturb("positions")) \/ (~Listed /\ UNCHANGED spent)
          /\ closer' = [closer EXCEPT !.pc = "gone",
                                      !.deal = active /\ account.deal = "visible"]
       \/ ~Listed /\ Fault /\ closer' = [closer EXCEPT !.pc = "gone"]
    /\ UNCHANGED <<terminal, row, tpUser, bridge, jobs>>

\* The row of a position that is gone: with its deal, or with the last price.
GoneRow(r, withDeal) ==
    LET closed == [r EXCEPT !.status = "CLOSED", !.missing = 0]
    IN  IF withDeal THEN WithDeal(closed, "deal")
        ELSE [closed EXCEPT !.price = IF @ = "none" THEN "market" ELSE @,
                            !.enrich = "PENDING_MT5_DEAL"]

CommitReconciled ==
    /\ closer.pc = "gone"
    /\ Save(closer.read, GoneRow(closer.read, closer.deal))
    /\ job' = IF closer.deal THEN job ELSE Requested("latest")
    /\ closer' = IdleCloser
    /\ UNCHANGED <<terminal, tpUser, bridge, worker, spent>>

\* The bridge's close: executed with the deal, without it or with a lost
\* answer, or rejected (no position, another account, no execution allowed), or
\* the call fails.
SendClose ==
    /\ closer.pc = "sending"
    /\ \/ /\ Served
          /\ \E d \in DealStates : account' = Closed(d)
          /\ \/ Fault /\ closer' = IdleCloser
             \/ /\ \E withDeal \in BOOLEAN :
                      /\ withDeal => account'.deal = "visible"
                      /\ closer' = [closer EXCEPT !.pc = "closing", !.deal = withDeal]
                /\ UNCHANGED spent
       \/ /\ Served => Fault
          /\ ~Served => UNCHANGED spent
          /\ closer' = [closer EXCEPT !.pc = "rechecking"] /\ UNCHANGED account
       \/ Fault /\ closer' = IdleCloser /\ UNCHANGED account
    /\ UNCHANGED <<active, known, row, tpUser, bridge, jobs>>

CommitClose ==
    /\ closer.pc = "closing"
    /\ LET closed == [closer.read EXCEPT !.status = "CLOSED"]
       IN  Save(closer.read,
                IF closer.deal THEN WithDeal(closed, "deal")
                ELSE [closed EXCEPT !.price = "market", !.enrich = "PENDING_MT5_DEAL"])
    /\ closer' = IF closer.deal THEN IdleCloser ELSE [closer EXCEPT !.pc = "posting"]
    /\ UNCHANGED <<terminal, tpUser, bridge, jobs, spent>>

\* _schedule_post_close_tasks, in a commit of its own.
EnqueueDeal ==
    /\ closer.pc = "posting"
    /\ job' = [job EXCEPT !["deal"].status = IF @ = "none" THEN "PENDING" ELSE @]
    /\ closer' = IdleCloser
    /\ UNCHANGED <<terminal, row, tpUser, bridge, worker, spent>>

-----------------------------------------------------------------------------
(* modify_take_profit.                                                     *)

StartTp ==
    /\ tpUser.pc = "idle" /\ row.status = "OPEN" /\ known
    /\ Disturb("tp")
    /\ tpUser' = [pc |-> "sending", read |-> row]
    /\ UNCHANGED <<terminal, row, closer, bridge, jobs>>

SendTp ==
    /\ tpUser.pc = "sending"
    /\ \/ /\ Served
          /\ account' = [account EXCEPT !.tp = "user"]
          /\ \/ Fault /\ tpUser' = IdleTp
             \/ tpUser' = [tpUser EXCEPT !.pc = "saving"] /\ UNCHANGED spent
       \/ /\ Served => Fault
          /\ ~Served => UNCHANGED spent
          /\ tpUser' = IdleTp /\ UNCHANGED account
    /\ UNCHANGED <<active, known, row, closer, bridge, jobs>>

CommitTp ==
    /\ tpUser.pc = "saving"
    /\ Save(tpUser.read, [tpUser.read EXCEPT !.tp = "user"])
    /\ tpUser' = IdleTp
    /\ UNCHANGED <<terminal, closer, bridge, jobs, spent>>

-----------------------------------------------------------------------------
(* A cycle of the syncer and its handler.                                  *)

TakePositions ==
    /\ syncer.pc = "idle" /\ active
    /\ syncer' = [syncer EXCEPT !.pc = "positions", !.sees = account.open, !.tp = account.tp]
    /\ UNCHANGED <<terminal, row, callers, cursor, jobs, spent>>

\* The history after the positions, if it is due; nothing is posted when the
\* account has changed since.  The handler loads the row.
TakeDeals ==
    /\ syncer.pc = "positions"
    /\ syncer' = IF ~active THEN IdleSyncer
                 ELSE [syncer EXCEPT !.pc = "posted", !.read = row]
    /\ UNCHANGED <<terminal, row, callers, cursor, jobs, spent>>

TakeDealsWithHistory ==
    /\ syncer.pc = "positions" /\ active
    /\ account.deal = "visible" /\ ~cursor
    /\ syncer' = [syncer EXCEPT !.pc = "posted", !.exit = TRUE, !.read = row]
    /\ UNCHANGED <<terminal, row, callers, cursor, jobs, spent>>

\* Mutant: the take profit of the row is kept.
OpenRowWithItsTp(r) ==
    [r EXCEPT !.status = "OPEN", !.price = "none", !.enrich = "OPEN_CONFIRMED", !.missing = 0]

\* positions_get is authoritative: the row is open.  A position without a take
\* profit gets the one its comment implies.
OpenRow(r) ==
    [r EXCEPT !.status = "OPEN", !.price = "none", !.enrich = "OPEN_CONFIRMED",
              !.missing = 0, !.tp = IF syncer.tp = "none" THEN "final" ELSE syncer.tp]

\* _refresh_closed_mt5_position_deals selects what the database calls closed and
\* changes the object that may have been opened above.
SeenRow(r) ==
    IF syncer.exit /\ row.status = "CLOSED" THEN WithDeal(OpenRow(r), "deal") ELSE OpenRow(r)

\* Mutant: only a deal closes the row of a missing position.
ClosedByDealOnly(r) == FALSE

ClosedByAbsence(r) == r.status = "OPEN" /\ ~syncer.exit /\ r.missing + 1 >= Confirmations

\* Mutant: the snapshots without the position are not counted.
AbsentRowUncounted(r) ==
    IF syncer.exit THEN [WithDeal(r, "deal") EXCEPT !.status = "CLOSED"] ELSE r

\* _close_missing_mt5_positions and _refresh_closed_mt5_position_deals.
AbsentRow(r) ==
    IF syncer.exit THEN [WithDeal(r, "deal") EXCEPT !.status = "CLOSED"]
    ELSE IF ClosedByAbsence(r)
    THEN [r EXCEPT !.status = "CLOSED", !.price = "market", !.enrich = "PENDING_MT5_DEAL",
                   !.missing = Confirmations]
    ELSE IF r.status = "OPEN" THEN [r EXCEPT !.missing = @ + 1] ELSE r

\* sync_mt5_positions commits; the cursor moves when the syncer gets the answer.
HandlerCommit ==
    /\ syncer.pc = "posted"
    /\ Save(syncer.read, IF syncer.sees THEN SeenRow(syncer.read) ELSE AbsentRow(syncer.read))
    /\ job' = IF ~syncer.sees /\ ClosedByAbsence(syncer.read) THEN Requested("latest") ELSE job
    /\ \/ cursor' = (cursor \/ syncer.exit) /\ UNCHANGED spent
       \/ Fault /\ UNCHANGED cursor
    /\ syncer' = IdleSyncer
    /\ UNCHANGED <<terminal, callers, worker>>

-----------------------------------------------------------------------------
(* The jobs.                                                               *)

\* _claim_one does not look at the account: a job whose account is not selected
\* uses up its attempts.
Claim(k) ==
    /\ worker.pc = "idle" /\ job[k].status = "PENDING"
    /\ job' = [job EXCEPT ![k].status = "RUNNING"]
    /\ worker' = [key |-> k, pc |-> "claimed", read |-> row, got |-> "none"]
    /\ UNCHANGED <<terminal, row, callers, bridge, spent>>

Fails ==
    /\ job' = [job EXCEPT ![worker.key] =
                  [status |-> IF @.attempts + 1 >= MaxAttempts THEN "FAILED" ELSE "PENDING",
                   attempts |-> @.attempts + 1]]
    /\ worker' = IdleWorker

\* The aggregate of the deals the bridge returns: without a closing deal it is
\* built from the entry deal.
DealPrice == IF account.deal = "visible" THEN "deal" ELSE "entry"

\* _enrich_close calls the bridge.
FetchDeal ==
    /\ worker.pc = "claimed" /\ worker.key \in {"latest", "deal"}
    /\ \/ /\ active
          /\ worker' = [worker EXCEPT !.pc = "saving", !.got = DealPrice]
          /\ UNCHANGED <<job, spent>>
       \/ ~active /\ Fails /\ UNCHANGED spent
       \/ Fault /\ Fails
    /\ UNCHANGED <<terminal, row, callers, bridge>>

\* _apply_tp calls the bridge, unless the row is closed.
ApplyTp ==
    /\ worker.pc = "claimed" /\ worker.key = "tp"
    /\ \/ /\ worker.read.status = "CLOSED"
          /\ worker' = [worker EXCEPT !.pc = "saving"]
          /\ UNCHANGED <<account, job, spent>>
       \/ /\ worker.read.status = "OPEN" /\ Served
          /\ account' = [account EXCEPT !.tp = "final"]
          /\ \/ worker' = [worker EXCEPT !.pc = "saving"] /\ UNCHANGED <<job, spent>>
             \/ Fault /\ Fails
       \/ /\ worker.read.status = "OPEN"
          /\ Served => Fault
          /\ ~Served => UNCHANGED spent
          /\ Fails /\ UNCHANGED account
    /\ UNCHANGED <<active, known, row, callers, bridge>>

JobRow(r) ==
    IF worker.key \in {"latest", "deal"}
    THEN [WithDeal(r, worker.got) EXCEPT !.status = "CLOSED"]
    ELSE IF r.status = "OPEN" THEN [r EXCEPT !.tp = "final"] ELSE r

CommitJob ==
    /\ worker.pc = "saving"
    /\ Save(worker.read, JobRow(worker.read))
    /\ job' = [job EXCEPT ![worker.key].status = IF @ = "RERUN" THEN "PENDING" ELSE "COMPLETED"]
    /\ worker' = IdleWorker
    /\ UNCHANGED <<terminal, callers, bridge, spent>>

\* The API stops: its requests are lost and its job is recovered.
Crash ==
    /\ Disturb(IF closer.pc = "posting" THEN "split" ELSE "crash")
    /\ closer' = IdleCloser /\ tpUser' = IdleTp
    /\ syncer' = IF syncer.pc = "posted" THEN IdleSyncer ELSE syncer
    /\ worker' = IdleWorker
    /\ job' = [k \in Keys |-> IF job[k].status \in {"RUNNING", "RERUN"}
                              THEN [job[k] EXCEPT !.status = "PENDING"] ELSE job[k]]
    /\ UNCHANGED <<terminal, row, cursor>>

-----------------------------------------------------------------------------
CloserStep == Reconcile \/ CommitReconciled \/ SendClose \/ CommitClose \/ EnqueueDeal
TpStep == SendTp \/ CommitTp
SyncStep == TakePositions \/ TakeDeals \/ TakeDealsWithHistory \/ HandlerCommit
WorkerStep == (\E k \in Keys : Claim(k)) \/ FetchDeal \/ ApplyTp \/ CommitJob

Next ==
    \/ ClosesItself \/ DealAppears \/ SwitchAccount \/ StatusArrives
    \/ StartClose \/ CloserStep
    \/ StartTp \/ TpStep
    \/ SyncStep
    \/ WorkerStep
    \/ Crash

Spec == Init /\ [][Next]_vars

\* Requests end, the syncer's thread and the worker's thread run on, the history
\* is completed and the status heartbeat goes on.
FairSpec ==
    /\ Spec
    /\ WF_vars(CloserStep) /\ WF_vars(TpStep) /\ WF_vars(SyncStep) /\ WF_vars(WorkerStep)
    /\ WF_vars(DealAppears) /\ WF_vars(StatusArrives)

-----------------------------------------------------------------------------
(* Properties.                                                             *)

TypeOK ==
    /\ account \in [open : BOOLEAN, tp : TakeProfits, deal : {"none", "hidden", "visible"}]
    /\ active \in BOOLEAN /\ known \in BOOLEAN /\ cursor \in BOOLEAN
    /\ row \in Rows
    /\ closer \in [pc : {"idle", "checking", "sending", "rechecking", "gone", "closing", "posting"},
                   read : Rows, deal : BOOLEAN]
    /\ tpUser \in [pc : {"idle", "sending", "saving"}, read : Rows]
    /\ syncer \in [pc : {"idle", "positions", "posted"}, sees : BOOLEAN, tp : TakeProfits,
                   exit : BOOLEAN, read : Rows]
    /\ job \in [Keys -> [status : JobStatus, attempts : 0..MaxAttempts]]
    /\ worker \in [key : Keys \cup {"none"}, pc : {"idle", "claimed", "saving"}, read : Rows,
                   got : Prices]

\* A position whose row is closed is closed in the account: nobody takes a live
\* position for a closed one (positions/service.py:178-229, 1211-1288).
ClosedMeansGone == row.status = "CLOSED" => ~account.open

\* A confirmed row has the price of a deal of MT5 and never the last tick, however
\* the columns of two transactions are mixed (positions/service.py:1565).
ConfirmedHasDeal == row.enrich = "CONFIRMED_MT5" => row.price \in {"deal", "entry"}

\* The price of a confirmed row is that of its closing deal.
ConfirmedIsExact == row.enrich = "CONFIRMED_MT5" => row.price = "deal"

\* A row is open or it has a close price.  It does not hold: a transaction that
\* read the row before a close writes the columns it changed over it.
OpenIsWhole == row.status = "OPEN" => row.price = "none"

\* A take profit the user has set stays until the position closes.
UserTpStays == [][account.tp = "user" /\ tpUser.pc = "idle" => account'.tp = "user"]_vars

\* In the end the row says of the position what the account says, if the
\* terminal stays in the account (positions/service.py:409-637).
RowFollowsAccount ==
    <>[]active => <>[](row.status = IF account.open THEN "OPEN" ELSE "CLOSED")

\* The job has used up its attempts after the terminal had left the account; with
\* fewer disturbances than attempts it cannot do so otherwise.
GaveUp(k) == job[k].status = "FAILED" /\ (left \/ MaxDisturbed >= MaxAttempts)

\* In the end the row of an open position shows the take profit that MT5 has, unless
\* the job that sets it has given up: nobody enqueues it again.
TpConverges ==
    <>[]active => <>[](account.open => row.tp = account.tp \/ GaveUp("tp"))

\* In the end a closed row has its deal, unless a job that fetches it has given up:
\* no row waits for a deal that is still looked for.
DealArrives ==
    <>[]active => <>[](row.status = "CLOSED" =>
                          row.enrich = "CONFIRMED_MT5" \/ GaveUp("latest") \/ GaveUp("deal"))
=============================================================================
