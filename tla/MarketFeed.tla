----------------------------- MODULE MarketFeed -----------------------------
(* A tick on its way from the terminal to a strategy evaluation and to a      *)
(* price alert: the collector and the sender of the bridge, the request       *)
(* handlers of the API with the background tasks that follow a response, the  *)
(* M5 candles and the fallback job of a candle close.                         *)
(*                                                                            *)
(* One symbol, the M5 timeframe, one alert.  The buffer between collector and *)
(* sender is a plain queue here, TickBuffer has its limits; a fallback job is *)
(* run in one step here, TradeJobs has its claims and retries.                *)
EXTENDS Integers, Sequences, FiniteSets, SequencesExt, FiniteSetsExt

CONSTANTS
  Handlers,      \* requests the API serves at a time
  Prices,        \* bids of the market
  Target,        \* of the alert: it fires at or below
  BatchMax,      \* ticks in one request
  Lookback,      \* how far back a starting collector reads
  FirstPoll,     \* how far back a poll reads that has seen no tick
  HistoryLag,    \* TRUE: the tick history may be behind the latest tick
  CrashPoints,   \* where a handler may be when the API crashes
  Kinds,         \* disturbances that happen
  MaxTicks, MaxTime, MaxSpent   \* bounds of the exploration

ASSUME FeedAssumption ==
  /\ BatchMax \in Nat \ {0} /\ Lookback \in Nat /\ FirstPoll \in Nat
  /\ Prices \subseteq Int /\ Target \in Int
  /\ HistoryLag \in BOOLEAN /\ {MaxTicks, MaxTime, MaxSpent} \subseteq Nat

VARIABLES
  clock,       \* the wall clock
  feed,        \* the ticks of the terminal, oldest first; a tick is named by its index
  collector,   \* time of the last tick it has seen and the ticks it knows
  buffer,      \* ticks to send
  post,        \* the sender: the handler it waits for and how many ticks it sent
  handler,     \* the requests
  stored,      \* table ticks
  candles,     \* table candles: M5 candle of a bucket
  lastBucket,  \* _LAST_M5_BUCKET, in memory
  job,         \* fallback job of a bucket
  evaluated,   \* evaluations of the strategy and the closed candles they saw
  alert,       \* row of the alert
  cancelling,  \* the status a request to cancel the alert has read
  pushes,      \* notifications sent
  spent        \* answers that were late, and other disturbances so far

vars == <<clock, feed, collector, buffer, post, handler, stored, candles, lastBucket,
          job, evaluated, alert, cancelling, pushes, spent>>

bridge == <<collector, buffer, post>>
trigger == <<lastBucket, job, evaluated>>
alerting == <<alert, cancelling, pushes>>

Bar == 2
None == -1

Buckets == 0..(MaxTime \div Bar)

Bucket(i) == feed[i].t \div Bar

Free == [at |-> "free", batch |-> <<>>, fresh |-> {}, bucket |-> None]

Idle == [to |-> None, n |-> 0]

Init ==
  /\ clock = 0
  /\ feed = <<>>
  /\ collector = [seen |-> None, known |-> {}]
  /\ buffer = <<>>
  /\ post = Idle
  /\ handler = [h \in Handlers |-> Free]
  /\ stored = {}
  /\ candles = [b \in {} |-> 0]
  /\ lastBucket = None
  /\ job = [b \in Buckets |-> "none"]
  /\ evaluated = {}
  /\ alert = [status |-> "ACTIVE", deleted |-> FALSE]
  /\ cancelling = "no"
  /\ pushes = 0
  /\ spent = [late |-> 0, other |-> 0]

Disturb(kind) ==
  LET counter == IF kind = "timeout" THEN "late" ELSE "other"
  IN /\ kind \in Kinds
     /\ spent[counter] < MaxSpent
     /\ spent' = [spent EXCEPT ![counter] = @ + 1]

----------------------------------------------------------------------------
(* The terminal.                                                           *)

\* A tick; one that repeats the price of its millisecond is no other tick to
\* anybody, all of them know a tick by its key.
NewTick ==
  /\ Len(feed) < MaxTicks
  /\ \E p \in Prices :
       /\ [t |-> clock, p |-> p] \notin ToSet(feed)
       /\ feed' = Append(feed, [t |-> clock, p |-> p])
  /\ UNCHANGED <<clock, bridge, handler, stored, candles, trigger, alerting, spent>>

Pass ==
  /\ clock < MaxTime
  /\ clock' = clock + 1
  /\ UNCHANGED <<feed, bridge, handler, stored, candles, trigger, alerting, spent>>

----------------------------------------------------------------------------
(* The bridge.                                                             *)

\* Some ticks in their order; the provers cannot treat SetToSortSeq.
InOrder(S) ==
  CHOOSE s \in [1..Cardinality(S) -> S] : \A p, q \in DOMAIN s : p < q => s[p] < s[q]

\* The ticks one poll adds: those of the history from "since" on and the latest
\* tick, unless the collector knows them.  What is collected moves the point the
\* next poll reads from.
Collected(since, known, history) ==
  InOrder({i \in DOMAIN feed \ known : \/ i <= history /\ feed[i].t >= since
                                      \/ i = Len(feed)})

Collect(since, seen, known, queue) ==
  \E history \in IF HistoryLag THEN 0..Len(feed) ELSE {Len(feed)} :
    LET new == Collected(since, known, history)
    IN /\ buffer' = queue \o new
       /\ collector' = [seen  |-> IF new = <<>> THEN seen ELSE feed[Last(new)].t,
                        known |-> known \cup ToSet(new)]

Since(seen) == IF seen = None THEN clock - FirstPoll ELSE seen

Poll ==
  /\ Collect(Since(collector.seen), collector.seen, collector.known, buffer)
  /\ collector' # collector
  /\ UNCHANGED <<clock, feed, post, handler, stored, candles, trigger, alerting, spent>>

\* Another account: everything known is forgotten, what is queued stays queued.
PollAfterSwitch ==
  /\ Disturb("account")
  /\ Collect(Since(None), None, {}, buffer)
  /\ UNCHANGED <<clock, feed, post, handler, stored, candles, trigger, alerting>>

\* The bridge dies with its queue and starts again with the recent history.
RestartBridge ==
  /\ Disturb("bridge")
  /\ Collect(clock - Lookback, None, {}, <<>>)
  /\ post' = Idle
  /\ UNCHANGED <<clock, feed, handler, stored, candles, trigger, alerting>>

Batch == SubSeq(buffer, 1, Min({BatchMax, Len(buffer)}))

Post(h) ==
  /\ post = Idle
  /\ buffer # <<>>
  /\ handler[h] = Free
  /\ post' = [to |-> h, n |-> Len(Batch)]
  /\ handler' = [handler EXCEPT ![h] = [Free EXCEPT !.at = "received", !.batch = Batch]]
  /\ UNCHANGED <<clock, feed, collector, buffer, stored, candles, trigger, alerting, spent>>

\* The answer takes too long: the batch stays queued, and the request goes on.
Timeout ==
  /\ Disturb("timeout")
  /\ post # Idle
  /\ post' = Idle
  /\ UNCHANGED <<clock, feed, collector, buffer, handler, stored, candles, trigger, alerting>>

\* Mutant of Answered: any answer is taken for that of the batch that is out.
AnsweredByAny(h) ==
  /\ buffer' = SubSeq(buffer, post.n + 1, Len(buffer))
  /\ post' = Idle

\* What an answer of h means to the sender.
Answered(h) ==
  IF post.to = h
  THEN /\ buffer' = SubSeq(buffer, post.n + 1, Len(buffer))
       /\ post' = Idle
  ELSE UNCHANGED <<buffer, post>>

----------------------------------------------------------------------------
(* The API: ticks and candles.                                             *)

Price(i) == feed[i].p

\* The candle of some ticks; their names are in the order of their time, those of
\* one millisecond in that of the terminal.
Built(ticks) ==
  [open  |-> Price(Min(ticks)), close |-> Price(Max(ticks)),
   high  |-> Max({Price(i) : i \in ticks}), low |-> Min({Price(i) : i \in ticks}),
   count |-> Cardinality(ticks),
   first |-> feed[Min(ticks)].t, last |-> feed[Max(ticks)].t]

\* INSERT ... ON CONFLICT DO UPDATE of a candle.
Upserted(old, new) ==
  [open  |-> IF new.first <= old.first THEN new.open ELSE old.open,
   close |-> IF new.last >= old.last THEN new.close ELSE old.close,
   high  |-> Max({old.high, new.high}), low |-> Min({old.low, new.low}),
   count |-> old.count + new.count,
   first |-> Min({old.first, new.first}), last |-> Max({old.last, new.last})]

Aggregated(ticks) ==
  LET touched == {Bucket(i) : i \in ticks}
      row(b)  == Built({i \in ticks : Bucket(i) = b})
  IN [b \in DOMAIN candles \cup touched |->
        IF b \notin touched THEN candles[b]
        ELSE IF b \in DOMAIN candles THEN Upserted(candles[b], row(b)) ELSE row(b)]

\* Mutant of Fresh: the candles take the whole batch.
FreshAll(batch) == ToSet(batch)

\* ON CONFLICT DO NOTHING: a tick that is there, or twice in the batch, is left out.
Fresh(batch) == ToSet(batch) \ stored

\* One transaction: the ticks that are not there yet and the candles of those.
Ingest(h) ==
  LET fresh == Fresh(handler[h].batch)
  IN /\ handler[h].at = "received"
     /\ stored' = stored \cup fresh
     /\ candles' = Aggregated(fresh)
     /\ handler' = [handler EXCEPT ![h].at = "stored", ![h].fresh = fresh]
     /\ UNCHANGED <<clock, feed, bridge, trigger, alerting, spent>>

\* Mutant of AnswerWith: the candle close has no fallback job.
AnswerWithTaskOnly(h, b, enqueued) ==
  LET fresh    == handler[h].fresh
      advanced == fresh # {} /\ b > lastBucket
  IN /\ lastBucket' = IF advanced THEN b ELSE lastBucket
     /\ handler' = [handler EXCEPT ![h] =
          IF advanced THEN [@ EXCEPT !.at = "strategy"]
          ELSE IF fresh # {} THEN [@ EXCEPT !.at = "alerts"] ELSE Free]
     /\ UNCHANGED job

\* The background tasks of an answer, in their order: the strategy if a bucket
\* has advanced, then what is not critical, the alerts among it.
AnswerWith(h, b, enqueued) ==
  LET fresh    == handler[h].fresh
      advanced == fresh # {} /\ b > lastBucket
  IN /\ lastBucket' = IF advanced THEN b ELSE lastBucket
     /\ job' = IF advanced /\ enqueued /\ job[b] = "none"
               THEN [job EXCEPT ![b] = "PENDING"] ELSE job
     /\ handler' = [handler EXCEPT ![h] =
          IF advanced THEN [@ EXCEPT !.at = "strategy", !.bucket = IF enqueued THEN b ELSE None]
          ELSE IF fresh # {} THEN [@ EXCEPT !.at = "alerts"] ELSE Free]

\* Mutant of NewestBucket: the bucket of the server's clock.
NewestBucketByClock(ticks) == clock \div Bar

NewestBucket(ticks) == Max({Bucket(i) : i \in ticks} \cup {None})

Answer(h) ==
  /\ handler[h].at = "stored"
  /\ AnswerWith(h, NewestBucket(handler[h].fresh), TRUE)
  /\ Answered(h)
  /\ UNCHANGED <<clock, feed, collector, stored, candles, evaluated, alerting, spent>>

\* The fallback cannot be stored; the immediate run still follows.
AnswerWithoutFallback(h) ==
  /\ handler[h].at = "stored"
  /\ Disturb("enqueue")
  /\ AnswerWith(h, NewestBucket(handler[h].fresh), FALSE)
  /\ Answered(h)
  /\ UNCHANGED <<clock, feed, collector, stored, candles, evaluated, alerting>>

----------------------------------------------------------------------------
(* The API: strategy, alerts, crash.                                       *)

\* Mutant of ClosedCandles: the current candle counts as closed.
ClosedCandlesAll == candles

\* The strategy takes the candles whose time is over by the wall clock.
ClosedCandles == [b \in {c \in DOMAIN candles : (c + 1) * Bar <= clock} |-> candles[b]]

Evaluation == [at |-> clock \div Bar, newest |-> Max(DOMAIN candles), closed |-> ClosedCandles]

RunStrategy(h) ==
  /\ handler[h].at = "strategy"
  /\ evaluated' = evaluated \cup {Evaluation}
  /\ handler' = [handler EXCEPT ![h].at = "retire"]
  /\ UNCHANGED <<clock, feed, bridge, stored, candles, lastBucket, job, alerting, spent>>

StrategyFails(h) ==
  /\ handler[h].at = "strategy"
  /\ Disturb("strategy")
  /\ handler' = [handler EXCEPT ![h].at = "alerts"]
  /\ UNCHANGED <<clock, feed, bridge, stored, candles, trigger, alerting>>

Retired(b) == IF b # None /\ job[b] = "PENDING" THEN [job EXCEPT ![b] = "COMPLETED"] ELSE job

Retire(h) ==
  /\ handler[h].at = "retire"
  /\ job' = Retired(handler[h].bucket)
  /\ handler' = [handler EXCEPT ![h].at = "alerts"]
  /\ UNCHANGED <<clock, feed, bridge, stored, candles, lastBucket, evaluated, alerting, spent>>

RunFallback(b) ==
  /\ job[b] = "PENDING"
  /\ evaluated' = evaluated \cup {Evaluation}
  /\ job' = [job EXCEPT ![b] = "COMPLETED"]
  /\ UNCHANGED <<clock, feed, bridge, handler, stored, candles, lastBucket, alerting, spent>>

\* Mutant of CheckedPrice: the oldest price of the batch.
CheckedPriceFirst(ticks) == Price(Min(ticks))

\* The price alerts look at the newest price of the inserted ticks only.
CheckedPrice(ticks) == Price(Max(ticks))

\* Mutant of LoopFree: the evaluator runs in the thread pool.
LoopFreeAlways == TRUE

\* The evaluator is a coroutine without an await between reading the alerts and
\* committing them, so that no other one runs in between; requests do.
LoopFree == \A h \in Handlers : handler[h].at # "reading"

ReadAlerts(h) ==
  /\ handler[h].at = "alerts"
  /\ LoopFree
  /\ handler' = [handler EXCEPT ![h] =
       IF /\ alert = [status |-> "ACTIVE", deleted |-> FALSE]
          /\ CheckedPrice(handler[h].fresh) <= Target
       THEN [@ EXCEPT !.at = "reading"] ELSE Free]
  /\ UNCHANGED <<clock, feed, bridge, stored, candles, trigger, alerting, spent>>

CommitAlert(h) ==
  /\ handler[h].at = "reading"
  /\ alert' = [alert EXCEPT !.status = "TRIGGERED"]
  /\ handler' = [handler EXCEPT ![h].at = "push"]
  /\ UNCHANGED <<clock, feed, bridge, stored, candles, trigger, cancelling, pushes, spent>>

PushAlert(h) ==
  /\ handler[h].at = "push"
  /\ pushes' = pushes + 1
  /\ handler' = [handler EXCEPT ![h] = Free]
  /\ UNCHANGED <<clock, feed, bridge, stored, candles, trigger, alert, cancelling, spent>>

\* The user cancels the alert; the request reads it and commits later.
BeginCancel ==
  /\ Disturb("cancel")
  /\ cancelling = "no"
  /\ ~alert.deleted
  /\ cancelling' = alert.status
  /\ UNCHANGED <<clock, feed, bridge, handler, stored, candles, trigger, alert, pushes>>

CommitCancel ==
  /\ cancelling # "no"
  /\ alert' = [status |-> IF cancelling = "ACTIVE" THEN "CANCELLED" ELSE alert.status,
               deleted |-> TRUE]
  /\ cancelling' = "no"
  /\ UNCHANGED <<clock, feed, bridge, handler, stored, candles, trigger, pushes, spent>>

\* The process of the API dies with its requests, tasks and memory; it is back
\* before the sender tries again.
Crash ==
  /\ Disturb("crash")
  /\ \A h \in Handlers : handler[h].at \in CrashPoints \cup {"free"}
  /\ handler' = [h \in Handlers |-> Free]
  /\ post' = Idle
  /\ lastBucket' = None
  /\ cancelling' = "no"
  /\ UNCHANGED <<clock, feed, collector, buffer, stored, candles, job, evaluated, alert, pushes>>

----------------------------------------------------------------------------

Serve(h) == Ingest(h) \/ Answer(h) \/ RunStrategy(h) \/ Retire(h)
              \/ ReadAlerts(h) \/ CommitAlert(h) \/ PushAlert(h)

Next ==
  \/ NewTick \/ Pass
  \/ Poll \/ PollAfterSwitch \/ RestartBridge \/ Timeout
  \/ \E h \in Handlers : Post(h) \/ Serve(h) \/ AnswerWithoutFallback(h) \/ StrategyFails(h)
  \/ \E b \in Buckets : RunFallback(b)
  \/ BeginCancel \/ CommitCancel
  \/ Crash

Spec == Init /\ [][Next]_vars

----------------------------------------------------------------------------
(* Properties.                                                             *)

TypeOK ==
  /\ stored \subseteq DOMAIN feed /\ collector.known \subseteq DOMAIN feed
  /\ ToSet(buffer) \subseteq DOMAIN feed
  /\ post = Idle \/ (post.to \in Handlers /\ post.n \in 1..Len(buffer))
  /\ \A h \in Handlers :
       handler[h].at \in {"free", "received", "stored", "strategy", "retire", "alerts",
                          "reading", "push"}
  /\ DOMAIN candles \subseteq Buckets
  /\ lastBucket \in DOMAIN candles \cup {None}
  /\ \A b \in Buckets : job[b] \in {"none", "PENDING", "COMPLETED"}
  /\ alert.status \in {"ACTIVE", "TRIGGERED", "CANCELLED"}

\* A candle is the candle of the ticks in the table, each counted once, however
\* often a batch came (ingest_tick_batch: aggregate the returned rows only).
CandlesAreTheirTicks ==
  \A b \in Buckets :
    LET ticks == {i \in stored : Bucket(i) = b}
    IN ticks # {} =>
         LET all == Built(ticks)
         IN /\ b \in DOMAIN candles
            /\ candles[b].count = Cardinality(ticks)
            /\ candles[b].high = all.high /\ candles[b].low = all.low
            /\ candles[b].first = all.first /\ candles[b].last = all.last
            /\ \E i \in ticks : feed[i].t = all.first /\ Price(i) = candles[b].open
            /\ \E i \in ticks : feed[i].t = all.last /\ Price(i) = candles[b].close

\* A candle that was evaluated as closed while its successor was current does not
\* change any more (candle_trigger.py: "A transition from bucket A to B means A is
\* now closed").  An evaluation after that time can see a candle whose last ticks
\* are still queued in the bridge; and a bridge that starts again and reads further
\* back than its first poll did can bring ticks of such a candle.
EvaluatedCandlesAreFinal ==
  \A e \in evaluated :
    e.newest >= e.at => \A b \in DOMAIN e.closed : candles[b] = e.closed[b]

\* The same of every evaluation, at whatever time it runs.
EveryEvaluatedCandleIsFinal ==
  \A e \in evaluated : \A b \in DOMAIN e.closed : candles[b] = e.closed[b]

Resting ==
  /\ \A h \in Handlers : handler[h] = Free
  /\ post = Idle /\ buffer = <<>>
  /\ \A b \in Buckets : job[b] # "PENDING"
  /\ cancelling = "no"

\* When everything has been dealt with, the close that the newest stored tick
\* made was evaluated: by the task, or by the fallback after a crash.
CloseIsEvaluated ==
  Resting /\ stored # {} =>
    \E e \in evaluated : e.newest = NewestBucket(stored)

\* A cancelled alert does not notify any more.
CancelledIsSilent == [][alert.deleted => pushes' = pushes]_vars

\* An alert fires once, although the tasks of several answers look at it; and,
\* undisturbed but for late answers, none stays armed at a price that should have
\* fired it (evaluate_price_alerts after every batch).
AlertFiresOnceInTime ==
  /\ pushes <= 1
  /\ Resting /\ spent.other = 0 /\ stored # {} /\ alert.status = "ACTIVE" =>
       Price(Max(stored)) > Target

\* No tick of the terminal is lost: it is in the table, queued in the bridge, or the
\* next poll collects it, over lost answers, repeated batches and restarts within
\* the lookback.
NoTickIsLost ==
  DOMAIN feed \subseteq
    stored \cup ToSet(buffer)
           \cup ToSet(Collected(Since(collector.seen), collector.known, Len(feed)))

=============================================================================
