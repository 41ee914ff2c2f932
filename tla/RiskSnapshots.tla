---------------------------- MODULE RiskSnapshots ----------------------------
(* The risk snapshot of one symbol: computed from the connected account, the  *)
(* all-time high and the open positions, kept in a table and in the memory of *)
(* the API per account, flagged by the handlers that change what it is made   *)
(* of, and recomputed by a coalesced job.                                     *)
(*                                                                            *)
(* A snapshot lists the positions it counts, so that its losses are not       *)
(* modelled.  TradeJobs has the queue in full: here a job is its status, and  *)
(* an UPDATE writes the columns that differ from what was loaded.             *)
EXTENDS Naturals, FiniteSets

CONSTANTS
  Statuses,     \* what the terminal reports: <<login, balance>>
  None,         \* no account, no snapshot
  Positions,    \* position rows: <<login, number>>
  Highs,        \* highs of candles, and all-time highs entered by hand
  Handlers,     \* requests that change something, at a time
  MaxChanges, MaxRequests   \* bounds of the exploration

VARIABLES
  account,   \* mt5_status_store
  open,      \* open rows of positions
  level,     \* row of the all-time high: its price and source
  highest,   \* MAX(high) of the candles
  handler,   \* a change: what it opens or closes, and what it has loaded
  ingest,    \* batches between their candles and their all-time high
  cache, record, job,   \* _SNAPSHOTS, risk_snapshots and trade_jobs by key
  worker, request,      \* the thread and the request that compute a snapshot
  clean,     \* nobody else was at work during the last change, and it was flagged
  changes, requests
riskVars == <<account, open, level, highest, handler, ingest, cache, record, job,
              worker, request, clean, changes, requests>>

Keys == {s[1] : s \in Statuses} \cup {None}
Key == IF account = None THEN None ELSE account[1]
Free == [at |-> "free", toggles |-> {}, key |-> None, flagged |-> FALSE, job |-> "none"]
Resting == [at |-> "idle", key |-> None, account |-> None, ath |-> 0, snapshot |-> None, flagged |-> FALSE]
Busy == \E h \in Handlers : handler[h].at # "free"

RiskInit ==
  /\ account = None /\ open = {} /\ level = [price |-> 0, source |-> "none"] /\ highest = 0
  /\ handler = [h \in Handlers |-> Free] /\ ingest = {}
  /\ cache = [k \in Keys |-> None] /\ record = [k \in Keys |-> None]
  /\ job = [k \in Keys |-> [status |-> "none", rerun |-> FALSE]]
  /\ worker = Resting /\ request = Resting /\ clean = TRUE /\ changes = 0 /\ requests = 0

----------------------------------------------------------------------------
(* Changes.  The status store is memory: it changes before the handler flags  *)
(* anything.  Rows of positions change with the commit of a sync, but an order *)
(* and a close commit them first and flag in a transaction of their own.       *)

Change == changes < MaxChanges /\ changes' = changes + 1
Begins(h, at, toggles) ==
  /\ handler[h].at = "free"
  /\ handler' = [handler EXCEPT ![h] = [Free EXCEPT !.at = at, !.toggles = toggles]]
  /\ clean' = (~Busy /\ worker.at = "idle" /\ request.at = "idle")

\* post_mt5_status and the switch of accounts; _risk_account_changed.
PostStatus(h, s) ==
  /\ Change /\ s # account /\ account' = s /\ Begins(h, "mark", {})
  /\ UNCHANGED <<open, level, highest, ingest, cache, record, job, worker, request, requests>>

\* A batch of ticks carries the account as well, and flags for its balance only.
TickStatus(h, s) ==
  /\ Change /\ s # account /\ account' = s
  /\ IF account = None \/ s[2] # account[2] THEN Begins(h, "mark", {}) ELSE UNCHANGED <<handler, clean>>
  /\ UNCHANGED <<open, level, highest, ingest, cache, record, job, worker, request, requests>>

\* An order, a close or a sync of the connected account.
ChangePosition(h, p) ==
  /\ Change /\ Key = p[1] /\ \E at \in {"rows", "mark"} : Begins(h, at, {p})
  /\ UNCHANGED <<account, open, level, highest, ingest, cache, record, job, worker, request, requests>>

Toggled(toggles) == (open \ toggles) \cup (toggles \ open)

\* The row of an order or a close; what follows it may never come.
CommitRows(h) ==
  /\ handler[h].at = "rows" /\ open' = Toggled(handler[h].toggles)
  /\ handler' = [handler EXCEPT ![h].at = "mark", ![h].toggles = {}]
  /\ UNCHANGED <<account, level, highest, ingest, cache, record, job, worker, request, clean, changes, requests>>

FlagNothing(snapshot) == snapshot   \* (a mutant)
Flag(snapshot) == IF snapshot = None THEN None ELSE [snapshot EXCEPT !.dirty = TRUE]

\* mark_dirty: the cached snapshot at once, the row and the job with the commit.
Mark(h) ==
  /\ handler[h].at = "mark"
  /\ cache' = [cache EXCEPT ![Key] = Flag(@)]
  /\ handler' = [handler EXCEPT ![h].at = "commit", ![h].key = Key, ![h].job = job[Key].status,
                                ![h].flagged = record[Key] # None /\ record[Key].dirty]
  /\ UNCHANGED <<account, open, level, highest, ingest, record, job, worker, request, clean, changes, requests>>

Commit(h) ==
  LET me == handler[h] IN
  /\ me.at = "commit" /\ handler' = [handler EXCEPT ![h] = Free]
  /\ open' = Toggled(me.toggles)
  /\ record' = IF me.flagged THEN record ELSE [record EXCEPT ![me.key] = Flag(@)]
  /\ job' = CASE me.job = "RUNNING" -> [job EXCEPT ![me.key].rerun = TRUE]
              [] me.job = "PENDING" -> job
              [] OTHER -> [job EXCEPT ![me.key].status = "PENDING"]
  /\ UNCHANGED <<account, level, highest, ingest, cache, worker, request, clean, changes, requests>>

\* The database fails in mark_dirty or its commit: the error is logged, or ends
\* the request, and nobody flags again.
MarkFails(h) ==
  /\ handler[h].at \in {"mark", "commit"} /\ handler' = [handler EXCEPT ![h] = Free]
  /\ cache' \in {cache, [cache EXCEPT ![Key] = Flag(@)]}
  /\ clean' = FALSE
  /\ UNCHANGED <<account, open, level, highest, ingest, record, job, worker, request, changes, requests>>

----------------------------------------------------------------------------
(* The all-time high, which flags nothing when it changes.                    *)

Ingest(high) ==
  /\ Change /\ highest' = IF high > highest THEN high ELSE highest
  /\ ingest' = ingest \cup {[high |-> high, seen |-> level]}
  /\ UNCHANGED <<account, open, level, handler, cache, record, job, worker, request, clean, requests>>

\* update_symbol_ath_from_candles: the first level is that of all candles.
RaiseLevel(b) ==
  /\ ingest' = ingest \ {b}
  /\ level' = CASE b.seen.source = "manual" -> level
                [] b.seen.source = "none" -> [price |-> highest, source |-> "auto"]
                [] b.seen.source = "auto" /\ b.high > b.seen.price -> [level EXCEPT !.price = b.high]
                [] OTHER -> level
  /\ UNCHANGED <<account, open, highest, handler, cache, record, job, worker, request, clean, changes, requests>>

\* set_symbol_ath_level
SetLevel(price) ==
  /\ Change /\ \/ level' = [price |-> price, source |-> "manual"]
               \/ highest > 0 /\ level' = [price |-> highest, source |-> "auto"]
  /\ UNCHANGED <<account, open, highest, handler, ingest, cache, record, job, worker, request, clean, requests>>

\* get_or_update_symbol_ath makes the level when there is none.
Level == IF level.source = "none" /\ highest > 0 THEN [price |-> highest, source |-> "auto"] ELSE level

----------------------------------------------------------------------------
(* recompute: the account and the level first, the positions after the broker *)
(* was asked for the value of a price unit.                                   *)

Counted(a) == {p \in open : a = None \/ p[1] = a[1]}
Snapshot(me) == [account |-> me.account, ath |-> me.ath, positions |-> Counted(me.account),
                 valid |-> me.ath > 0 /\ me.account # None, dirty |-> FALSE]
KeyOf(a) == IF a = None THEN None ELSE a[1]
Reads(me) == [me EXCEPT !.at = "read", !.account = account, !.ath = Level.price]

Claim(k) ==
  /\ worker.at = "idle" /\ job[k].status = "PENDING"
  /\ job' = [job EXCEPT ![k].status = "RUNNING"]
  /\ worker' = [Resting EXCEPT !.at = "claimed", !.key = k] /\ clean' = (clean /\ ~Busy)
  /\ UNCHANGED <<account, open, level, highest, handler, ingest, cache, record, request, changes, requests>>

WorkerReads ==
  /\ worker.at = "claimed" /\ worker' = Reads(worker) /\ level' = Level
  /\ UNCHANGED <<account, open, highest, handler, ingest, cache, record, job, request, clean, changes, requests>>

WorkerStores ==
  LET k == KeyOf(worker.account) IN
  /\ worker.at = "read" /\ cache' = [cache EXCEPT ![k] = Snapshot(worker)]
  /\ worker' = [worker EXCEPT !.at = "stored", !.snapshot = Snapshot(worker),
                              !.flagged = record[k] # None /\ record[k].dirty]
  /\ UNCHANGED <<account, open, level, highest, handler, ingest, record, job, request, clean, changes, requests>>

\* The row of the job is locked and read again, and saved with the snapshot.
WorkerCommits ==
  LET k == KeyOf(worker.account)
      dirty == record[k] # None /\ record[k].dirty /\ ~worker.flagged
  IN /\ worker.at = "stored" /\ worker' = Resting
     /\ record' = [record EXCEPT ![k] = [worker.snapshot EXCEPT !.dirty = dirty]]
     /\ job' = [job EXCEPT ![worker.key] = [status |-> IF @.rerun THEN "PENDING" ELSE "COMPLETED", rerun |-> FALSE]]
     /\ UNCHANGED <<account, open, level, highest, handler, ingest, cache, request, clean, changes, requests>>

\* The job fails before its commit and is retried, without its follow-up.
WorkerFails ==
  /\ Change /\ worker.at \in {"claimed", "stored"} /\ worker' = Resting
  /\ job' = [job EXCEPT ![worker.key] = [status |-> "PENDING", rerun |-> FALSE]]
  /\ UNCHANGED <<account, open, level, highest, handler, ingest, cache, record, request, clean, requests>>

----------------------------------------------------------------------------
(* get_snapshot.  A request commits nothing, so that the job it asks for when *)
(* the snapshot is flagged is never there.                                    *)

Usable(snapshot) == snapshot # None /\ (~snapshot.dirty \/ snapshot.valid)

Get ==
  /\ request.at = "idle" /\ requests < MaxRequests /\ requests' = requests + 1
  /\ ~Usable(cache[Key]) /\ clean' = (clean /\ ~Busy)
  /\ request' = IF record[Key] = None THEN [Resting EXCEPT !.at = "missing"]
                ELSE [Resting EXCEPT !.at = "loaded", !.key = Key, !.snapshot = record[Key]]
  /\ UNCHANGED <<account, open, level, highest, handler, ingest, cache, record, job, worker, changes>>

\* What was loaded is cached; the entry path never computes a snapshot itself.
GetCaches ==
  /\ request.at = "loaded" /\ cache' = [cache EXCEPT ![request.key] = request.snapshot]
  /\ request' = IF request.snapshot.valid THEN Resting ELSE [Resting EXCEPT !.at = "missing"]
  /\ UNCHANGED <<account, open, level, highest, handler, ingest, record, job, worker, clean, changes, requests>>
LeaveMissing ==
  /\ request.at = "missing" /\ request' = Resting
  /\ UNCHANGED <<account, open, level, highest, handler, ingest, cache, record, job, worker, clean, changes, requests>>

\* POST /risk/recompute, and a request that finds no valid snapshot.
PostRecompute ==
  /\ request.at = "idle" /\ requests < MaxRequests /\ requests' = requests + 1
  /\ request' = [Resting EXCEPT !.at = "missing"] /\ clean' = (clean /\ ~Busy)
  /\ UNCHANGED <<account, open, level, highest, handler, ingest, cache, record, job, worker, changes>>
RequestReads ==
  /\ request.at = "missing" /\ request' = Reads(request) /\ level' = Level
  /\ UNCHANGED <<account, open, highest, handler, ingest, cache, record, job, worker, clean, changes, requests>>
RequestStores ==
  /\ request.at = "read" /\ request' = Resting
  /\ cache' = [cache EXCEPT ![KeyOf(request.account)] = Snapshot(request)]
  /\ UNCHANGED <<account, open, level, highest, handler, ingest, record, job, worker, clean, changes, requests>>

----------------------------------------------------------------------------
\* The API restarts: its memory is gone, a job that was running is retried.
RestartApi ==
  /\ Change /\ account' = None /\ cache' = [k \in Keys |-> None]
  /\ handler' = [h \in Handlers |-> Free] /\ ingest' = {} /\ worker' = Resting /\ request' = Resting
  /\ job' = [k \in Keys |-> IF job[k].status = "RUNNING" THEN [status |-> "PENDING", rerun |-> FALSE] ELSE job[k]]
  /\ clean' = (clean /\ ~Busy)
  /\ UNCHANGED <<open, level, highest, record, requests>>

RiskNext ==
  \/ \E h \in Handlers :
       \/ \E s \in Statuses \cup {None} : PostStatus(h, s)
       \/ \E s \in Statuses : TickStatus(h, s)
       \/ \E p \in Positions : ChangePosition(h, p)
       \/ CommitRows(h) \/ Mark(h) \/ Commit(h) \/ MarkFails(h)
  \/ \E high \in Highs : Ingest(high) \/ SetLevel(high)
  \/ \E b \in ingest : RaiseLevel(b)
  \/ \E k \in Keys : Claim(k)
  \/ WorkerReads \/ WorkerStores \/ WorkerCommits \/ WorkerFails
  \/ Get \/ GetCaches \/ LeaveMissing \/ PostRecompute \/ RequestReads \/ RequestStores
  \/ RestartApi

----------------------------------------------------------------------------
(* What a request for the snapshot of the connected account is answered is    *)
(* right, flagged, or computed on the spot.                                   *)
Right(s) == s.account = account /\ s.positions = Counted(account)
RightOrFlagged ==
  LET told(s) == Right(s) \/ s.dirty
  IN IF cache[Key] # None THEN told(cache[Key])
     ELSE record[Key] # None /\ record[Key].valid => told(record[Key])

(* A change of the account, its balance or its positions that nobody else's   *)
(* work overlaps and whose flag was written is never hidden by an older       *)
(* snapshot while an account is connected: not by one of the table after a    *)
(* restart, not by one of the same account from before a switch, and not by a *)
(* later computation or a late load.  A crash or an error of the database     *)
(* between an order's or a close's row and its flag is not covered.           *)
LoneChangeIsShown == clean /\ ~Busy /\ account # None => RightOrFlagged

\* The same when none is.  It does not hold: a change flags the snapshot of the
\* connected account only, so that after a restart that of no account, which
\* counts the positions of all, is the old one of the table.
LoneChangeIsShownOffline == clean /\ ~Busy => RightOrFlagged

\* The same of every change.  It does not hold: a computation that read the
\* positions before the commit is stored after the flag was set, and the job
\* that was asked for has been claimed already.
EveryChangeIsShown == ~Busy => RightOrFlagged

\* A snapshot that is not flagged is made of the all-time high of now.  It does
\* not hold: neither a batch of ticks nor the request that sets the level flags.
LevelIsShown == cache[Key] # None /\ ~cache[Key].dirty => cache[Key].ath = level.price

\* The all-time high covers the candles.  Two batches at a time undo each other,
\* and a restart between the commits of one batch leaves it too low.
LevelCoversCandles == level.source = "auto" /\ ingest = {} => level.price >= highest
=============================================================================
