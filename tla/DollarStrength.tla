---------------------------- MODULE DollarStrength ----------------------------
(***************************************************************************)
(* The filter on the strength of the dollar (market_context): a snapshot   *)
(* of the synthetic DXY against its average, computed by a scheduler or a  *)
(* request and served from a cache, and the decision the backtest takes    *)
(* in its place from the stored candles (torum_v1_backtest.py).            *)
(*                                                                         *)
(* The DXY of the six pairs is one number.  Time counts hours; a day has   *)
(* DayHours of them, and the scheduler checks once in each.  Work that     *)
(* takes seconds ends in the hour in which it begins.  All parameters are  *)
(* the defaults: recompute() is never called with others.                  *)
(***************************************************************************)
EXTENDS Integers, FiniteSets, FiniteSetsExt

CONSTANTS
  DayHours, LastDate,
  TradingDates,             \* dates with a daily candle
  FirstDate,                \* the date on which the API starts
  Values,                   \* closes of the DXY
  Period, Band, Lookback,   \* the average, the neutral band, the days of a fall
  Drop,                     \* the least fall of the override, in basis points
  Slack,                    \* days the backtest loads beyond both
  PairCount,                \* candles a recompute asks for
  MaxUnusual,               \* requests to recompute, failures of the bridge and restarts
  NoRow

ASSUME DollarAssumption ==
  /\ {DayHours, LastDate, FirstDate, Period, Lookback, PairCount} \subseteq Nat \ {0}
  /\ {Band, Drop, Slack, MaxUnusual} \subseteq Nat
  /\ Values \subseteq Nat \ {0}
  /\ TradingDates \subseteq 0..LastDate /\ FirstDate <= LastDate
  /\ Period <= PairCount /\ Lookback < PairCount

VARIABLES
  hour,
  closes,      \* close of the daily candle at the broker; of today, its last price
  dxy,         \* stored candles of DXY, 0 where there is none
  latest,      \* the newest row of dollar_strength_snapshots
  loading,     \* per thread in recompute: the source of its candles, or the row it committed
  cached, cachedAt,   \* _LATEST_SNAPSHOT_CACHE
  reading,     \* rows read and not yet cached
  checked,     \* the scheduler has checked in this hour
  unusual

usdVars == <<hour, closes, dxy, latest, loading, cached, cachedAt, reading, checked,
            unusual>>

NoLoad == [step |-> "idle", row |-> NoRow]

UsdInit ==
  /\ hour = FirstDate * DayHours
  /\ \E h \in [{d \in TradingDates : d <= FirstDate} -> Values] :
       closes = [d \in 0..LastDate |-> IF d \in DOMAIN h THEN h[d] ELSE 0]
  /\ dxy = [d \in 0..LastDate |-> 0]
  /\ latest = NoRow
  /\ loading = [l \in {"scheduler", "request"} |-> NoLoad]
  /\ cached = NoRow /\ cachedAt = -2 /\ reading = {} /\ checked = FALSE /\ unusual = 0

Date(t) == t \div DayHours

LastDays(S, n) == {d \in S : Cardinality({e \in S : e > d}) < n}

\* The n-th date before the newest one.
DaysBack(S, n) == CHOOSE d \in S : Cardinality({e \in S : e > d}) = n

Total(price, S) == FoldSet(LAMBDA d, n : price[d] + n, 0, S)

\* A daily candle opens where the one before it closed.
FallsOnItsDay(price, S) == S # {Max(S)} /\ price[Max(S)] < price[DaysBack(S, 1)]

----------------------------------------------------------------------------
(* A recompute.                                                            *)

\* The candles a source has: the bridge leaves out the newest bar of the terminal,
\* the database has the day that is not over too.
Rates(source) ==
  LET bars == {d \in TradingDates : d <= Date(hour)}
  IN CASE source = "bridge" -> LastDays(bars \ {Max(bars)}, PairCount)
       [] source = "database" -> LastDays(bars, PairCount)
       [] OTHER -> {}

\* classify_dollar_strength; differences are multiplied by the period.
Strength(S) ==
  LET last       == closes[Max(S)]
      difference == Period * last - Total(closes, LastDays(S, Period))
      past       == closes[DaysBack(S, Lookback)]
  IN CASE Cardinality(S) < Period -> "UNKNOWN"
       [] OTHER ->
          CASE difference < -Band * Period -> "WEAK"
            [] difference \in (-Band * Period)..(Band * Period) -> "NEUTRAL"
            [] /\ difference > Band * Period
               /\ Cardinality(S) > Lookback
               /\ (last - past) * 10000 <= -Drop * past
               /\ FallsOnItsDay(closes, S) -> "WEAK"
            [] OTHER -> "STRONG"

Row(source) == [read |-> hour, until |-> hour + DayHours, source |-> source,
                state |-> Strength(Rates(source))]

Load(l, source) ==
  /\ loading[l] = NoLoad
  /\ loading' = [loading EXCEPT ![l] = [step |-> "loaded", row |-> Row(source)]]
  /\ UNCHANGED <<hour, closes, dxy, latest, cached, cachedAt, reading>>

Unusual == unusual < MaxUnusual /\ unusual' = unusual + 1

\* The bridge leaves a pair out, or does not answer and the pairs are stored or not.
FailingSources == {"none", "database"}

\* A row that is valid until some moment of this hour may be over or not.
Schedule ==
  /\ ~checked /\ checked' = TRUE
  /\ latest # NoRow => latest.until <= hour
  /\ \/ Load("scheduler", "bridge") /\ UNCHANGED unusual
     \/ Unusual /\ \E source \in FailingSources : Load("scheduler", source)

ScheduleNothing ==
  /\ ~checked /\ checked' = TRUE
  /\ latest # NoRow /\ latest.until >= hour
  /\ UNCHANGED <<hour, closes, dxy, latest, loading, cached, cachedAt, reading, unusual>>

\* A request recomputes whatever there is.
Recompute ==
  /\ Unusual /\ UNCHANGED checked
  /\ \E source \in {"bridge"} \cup FailingSources : Load("request", source)

Goes(l, from, to) ==
  loading[l].step = from /\ loading' = [loading EXCEPT ![l] = IF to = "idle" THEN NoLoad ELSE [@ EXCEPT !.step = to]]

UpsertCandles(l) ==
  /\ Goes(l, "loaded", "upserted")
  /\ dxy' = [d \in DOMAIN dxy |-> IF d \in Rates(loading[l].row.source) THEN closes[d] ELSE dxy[d]]
  /\ UNCHANGED <<hour, closes, latest, cached, cachedAt, reading, checked, unusual>>

StoreSnapshot(l) ==
  /\ Goes(l, "upserted", "stored")
  /\ latest' = loading[l].row
  /\ UNCHANGED <<hour, closes, dxy, cached, cachedAt, reading, checked, unusual>>

CacheOwn(l) ==
  /\ Goes(l, "stored", "idle")
  /\ cached' = loading[l].row /\ cachedAt' = hour
  /\ UNCHANGED <<hour, closes, dxy, latest, reading, checked, unusual>>

----------------------------------------------------------------------------
(* A run of the strategy takes the cached row, or reads the newest one and *)
(* caches it.                                                              *)

\* The hour of the cache may be over in the hour after it was filled; that there is no
\* row is cached for half a minute.
CacheServes == cachedAt >= hour - 1 /\ (cached # NoRow => cached.until >= hour)

CacheIsOver == cachedAt < hour \/ (cached # NoRow => cached.until <= hour)

ReadLatest ==
  /\ CacheIsOver
  /\ reading' = reading \cup {latest}
  /\ UNCHANGED <<hour, closes, dxy, latest, loading, cached, cachedAt, checked, unusual>>

CacheRead(r) ==
  /\ reading' = reading \ {r}
  /\ cached' = r /\ cachedAt' = hour
  /\ UNCHANGED <<hour, closes, dxy, latest, loading, checked, unusual>>

\* What a run that asks now is answered.
Served == reading \cup (IF CacheServes THEN {cached} ELSE {}) \cup (IF CacheIsOver THEN {latest} ELSE {})

----------------------------------------------------------------------------
(* The API restarts at once; the scheduler checks when it starts.          *)
RestartServer ==
  /\ Unusual
  /\ loading' = [l \in DOMAIN loading |-> NoLoad]
  /\ cached' = NoRow /\ cachedAt' = -2 /\ reading' = {} /\ checked' = FALSE
  /\ UNCHANGED <<hour, closes, dxy, latest>>

\* The next hour, with another price when the market is open.
HourPasses ==
  /\ checked /\ reading = {} /\ \A l \in DOMAIN loading : loading[l] = NoLoad
  /\ hour' = hour + 1 /\ Date(hour') <= LastDate
  /\ IF Date(hour') \in TradingDates
     THEN \E p \in Values : closes' = [closes EXCEPT ![Date(hour')] = p]
     ELSE closes' = closes
  /\ checked' = FALSE
  /\ UNCHANGED <<dxy, latest, loading, cached, cachedAt, reading, unusual>>

UsdNext ==
  \/ Schedule \/ ScheduleNothing \/ Recompute
  \/ \E l \in DOMAIN loading : UpsertCandles(l) \/ StoreSnapshot(l) \/ CacheOwn(l)
  \/ ReadLatest \/ (\E r \in reading : CacheRead(r))
  \/ RestartServer \/ HourPasses

UsdSpec == UsdInit /\ [][UsdNext]_usdVars

----------------------------------------------------------------------------
(* The backtest.                                                           *)

\* Mutant of ClosedBy: the candle of the day counts before it is closed.
OpenedBy(S, t) == {d \in S : d * DayHours <= t}

\* The candles that are closed at a time.
ClosedBy(S, t) == {d \in S : (d + 1) * DayHours <= t}

\* The stored candles that a backtest whose first candle is at t loads.
LoadedAt(t) ==
  {d \in DOMAIN dxy : dxy[d] # 0 /\ d * DayHours >= t - (Period + Lookback + Slack) * DayHours}

\* _historical_dxy_decision at t.
HistoricalStrength(t) ==
  LET S          == ClosedBy(LoadedAt(t), t)
      last       == dxy[Max(S)]
      difference == Period * last - Total(dxy, LastDays(S, Period))
      past       == dxy[DaysBack(S, Lookback)]
      falling    == /\ Cardinality(S) > Lookback
                    /\ (last - past) * 10000 <= -Drop * past
                    /\ FallsOnItsDay(dxy, S)
  IN IF Cardinality(S) < Period THEN "UNKNOWN"
     ELSE IF difference < -Band * Period THEN "WEAK"
     ELSE IF difference <= Band * Period THEN "NEUTRAL"
     ELSE IF falling THEN "WEAK" ELSE "STRONG"

(***************************************************************************)
(* A row that filters a signal was computed at most a day and an hour ago, *)
(* whatever cache, readers and overlapping recomputes do                   *)
(* (DollarStrengthScheduler, latest_snapshot_read).                        *)
(***************************************************************************)
FilterIsFresh == \A r \in Served : r # NoRow => r.read >= hour - DayHours - 1

(***************************************************************************)
(* It is fresh, and when its candles came from the bridge on a day of      *)
(* trading, a backtest decides the same for the hour in which they were    *)
(* read (classify_dollar_strength, _historical_dxy_decision).              *)
(***************************************************************************)
FilterAgreesWithBacktest ==
  /\ FilterIsFresh
  /\ \A r \in Served : r # NoRow /\ r.source = "bridge" /\ Date(r.read) \in TradingDates =>
       r.state = HistoricalStrength(r.read)

(***************************************************************************)
(* The same on every day; it does not hold on a day without trading, whose *)
(* newest bar is closed and left out nevertheless (MT5BridgeClient).       *)
(***************************************************************************)
FilterAgreesEveryDay ==
  \A r \in Served : r # NoRow /\ r.source = "bridge" => r.state = HistoricalStrength(r.read)
=============================================================================
