----------------------------- MODULE TorumSetup -----------------------------
(***************************************************************************)
(* The decision of Torum V1 (strategies/torum_v1.py): may the bot trade    *)
(* now, and does the last closed candle complete a setup.  Pure operators  *)
(* over the candles, the stored parameters and the open positions; the     *)
(* live runner, the backtest and the replay all decide with them.          *)
(*                                                                         *)
(* A time is an integer; one M5 candle lasts Bar.  The H2 and H3 candles   *)
(* of the unlock rule last two and three M5 candles here, which scales the *)
(* day down and keeps two lengths that do not divide each other.           *)
(***************************************************************************)
EXTENDS Pullbacks

CONSTANTS
  Zones,       \* sequence of operation zones [id, time1, time2, top, mult]
  Supports,    \* set of support bands [level, price, lower, upper]
  Entry,       \* record of the entry parameters, see EntryAssumption
  Session,     \* record of the session and unlock parameters
  NewsZones,   \* set of blocking no-trade zones [from, to]
  Shift        \* the offset of the H2 candles against the session

Bar == 4

Hours == [H2 |-> 2 * Bar, H3 |-> 3 * Bar]

ASSUME EntryAssumption ==
  Entry \in [bars : Nat \ {0}, abovePrevious : BOOLEAN, requireZone : BOOLEAN,
             priceOutside : BOOLEAN, onePerSymbol : BOOLEAN, spacing : Nat, recovery : Nat,
             visualThreshold : Nat, visualRecovery : Nat, maxEquivalent : Nat \ {0}, degrade : BOOLEAN, takeProfit : Nat]

ASSUME ZonesAssumption == Zones \in Seq([id : Nat, time1 : Nat, time2 : Nat, top : Int, mult : Nat])

ASSUME SessionAssumption ==
  Session \in [start : Nat, end : Nat, mode : SUBSET DOMAIN Hours,
               bullish : BOOLEAN, hold : BOOLEAN, minBody : Nat]

\* The time at which a candle is closed.
CloseTime(c) == c.time + Bar

----------------------------------------------------------------------------
(* The unlock rule.                                                        *)

NoCandle == [open |-> 0, high |-> 0, low |-> 0, close |-> 0]

\* The H2 candles start at multiples of their length from the broker's midnight,
\* the H3 candles and the windows count from the session.
BucketStart(t, tf) ==
  LET phase == IF tf = "H2" THEN Session.start + Shift ELSE Session.start
  IN phase + Hours[tf] * ((t - phase) \div Hours[tf])

\* One candle out of several.
Merged(cs) ==
  IF cs = {} THEN NoCandle
  ELSE [open  |-> (CHOOSE c \in cs : \A d \in cs : c.time <= d.time).open,
        high  |-> Max({c.high : c \in cs}),
        low   |-> Min({c.low : c \in cs}),
        close |-> (CHOOSE c \in cs : \A d \in cs : c.time >= d.time).close]

\* Mutant of AggregateWindow: the window counts although it is not over.
AggregateWindowEarly(cs, tf, from, to) ==
  Merged({c \in {cs[i] : i \in DOMAIN cs} : c.time \in from..to})

\* The stored candles of the timeframe that start in the window, however far
\* they have been filled; the M5 candles of the window when there is none.
AggregateWindow(cs, tf, from, to) ==
  LET all    == {cs[i] : i \in DOMAIN cs}
      starts == {BucketStart(c.time, tf) : c \in all} \cap from..(to - 1)
  IN Merged(IF starts # {} THEN {c \in all : BucketStart(c.time, tf) \in starts}
                           ELSE {c \in all : c.time \in from..(to - 1)})

EvaluationWindows ==
  UNION {{[tf |-> tf, from |-> Session.start + k * Hours[tf], to |-> Session.start + (k + 1) * Hours[tf]] :
            k \in 0..((Session.end - Session.start) \div Hours[tf] - 1)} : tf \in Session.mode}

\* A closed window unlocks when it does not fall, or when it is the second one
\* that falls and holds the low of the first.
Qualifies(cs, w) ==
  LET cur  == AggregateWindow(cs, w.tf, w.from, w.to)
      prev == AggregateWindow(cs, w.tf, w.from - Hours[w.tf], w.from)
  IN /\ cur # NoCandle
     /\ \/ /\ Session.bullish
           /\ \/ cur.close = cur.open
              \/ Bullish(cur) /\ (cur.close - cur.open) * 10000 >= Session.minBody * cur.open
        \/ /\ Session.hold
           /\ prev # NoCandle
           /\ Bearish(cur) /\ Bearish(prev)
           /\ cur.low >= prev.low

Unlocked(cs, now) == \E w \in EvaluationWindows : w.to <= now /\ Qualifies(cs, w)

NewsBlocked(now) == \E z \in NewsZones : z.from <= now /\ now <= z.to

InSession(now) == Session.start <= now /\ now < Session.end

\* Session and news come first; a manual override replaces the unlock rule only.
AssetUnlocked(cs, override, now) ==
  /\ InSession(now)
  /\ ~NewsBlocked(now)
  /\ CASE override = "LOCKED" -> FALSE
       [] override = "UNLOCKED" -> TRUE
       [] OTHER -> Unlocked(cs, now)

----------------------------------------------------------------------------
(* The setup.  The parameters that matter are [bp, bounds, lastCandle,     *)
(* lastLow]: the entry threshold, the confirmation times of the executed   *)
(* entries, and the marks of the last signal.                              *)

NoZone == [id |-> 0, time1 |-> 0, time2 |-> 0, top |-> 0, mult |-> 1]

NoEntry == [conf |-> 0, low |-> 0, peak |-> 0, zone |-> 0, mult |-> 0]

InTime(t, z) == z.time1 <= t /\ t <= z.time2

InPrice(p, z) == p <= z.top

FirstOf(is) == IF is = {} THEN NoZone ELSE Zones[Min(is)]

\* Enough bullish candles at the end, and a close above the candle before them.
ConfirmationCandles(cs) ==
  /\ Len(cs) >= Max({2, Entry.bars})
  /\ \A i \in (Len(cs) - Entry.bars + 1)..Len(cs) : BullishConfirmation(cs[i])
  /\ Entry.abovePrevious => /\ Len(cs) > Entry.bars
                            /\ cs[Len(cs)].close > cs[Len(cs) - Entry.bars].high

\* The candles from a time on.
Since(cs, time) == SubSeq(cs, Max({0} \cup {i \in DOMAIN cs : cs[i].time < time}) + 1, Len(cs))

\* Mutant of CycleCandles: the first entry of the day is the boundary for good.
CycleCandlesFirst(cs, bounds) == IF bounds = {} THEN cs ELSE Since(cs, Min(bounds))

\* Only candles since the last executed entry count, its confirmation included.
CycleCandles(cs, bounds) == IF bounds = {} THEN cs ELSE Since(cs, Max(bounds))

EntryThresholds(bp) == [bp |-> bp, recovery |-> Entry.recovery]

\* The last of the pullbacks that are confirmed at a time.
ConfirmedAt(found, time) ==
  LET now == {i \in DOMAIN found : found[i].conf = time}
  IN IF now = {} THEN NoPullback ELSE found[Max(now)]

\* The pullback that the last candle confirms.
CurrentPullback(cs, prm) ==
  ConfirmedAt(Latest(Confirmed(CycleCandles(cs, prm.bounds), EntryThresholds(prm.bp))), cs[Len(cs)].time)

\* The places of the zones that hold the low of the pullback.
PullbackZones(p) == {i \in DOMAIN Zones : InTime(p.lowTime, Zones[i]) /\ InPrice(p.low, Zones[i])}

\* The zone of the pullback that also holds the confirmation in time and the
\* price, or in time only where that is allowed.
ConfirmedZone(p, closed, price) ==
  LET times == {i \in PullbackZones(p) : InTime(closed, Zones[i])}
      both  == {i \in times : InPrice(price, Zones[i])}
  IN IF both # {} THEN FirstOf(both)
     ELSE IF Entry.priceOutside THEN FirstOf(times) ELSE NoZone

\* Without a required zone the zone of the pullback is good enough.
MatchingZone(p, closed, price) ==
  LET zone == ConfirmedZone(p, closed, price)
  IN IF zone # NoZone \/ Entry.requireZone THEN zone ELSE FirstOf(PullbackZones(p))

Gap(s, price) == IF s.price > price THEN s.price - price ELSE price - s.price

\* The highest level wins, then the nearest line; outside of every band the zone
\* says the multiplier.
Multiplier(price, zone) ==
  LET bands == {s \in Supports : s.lower <= price /\ price <= s.upper}
      best  == CHOOSE s \in bands : \A t \in bands :
                 s.level > t.level \/ (s.level = t.level /\ Gap(s, price) <= Gap(t, price))
  IN IF bands = {} THEN zone.mult ELSE best.level

\* With two open positions close to each other a third has to be lower.
SpacingAllows(open, price) ==
  LET pairs   == {q \in open \X open : /\ q[1] # q[2]
                                       /\ q[1].price <= q[2].price
                                       /\ (q[2].price - q[1].price) * 10000 <= Entry.spacing * q[2].price}
      closest == CHOOSE q \in pairs : \A r \in pairs :
                   LET a == (q[2].price - q[1].price) * r[2].price
                       b == (r[2].price - r[1].price) * q[2].price
                   IN a < b \/ (a = b /\ q[1].price <= r[1].price)
  IN \/ Entry.spacing = 0
     \/ pairs = {}
     \/ price * 10000 <= closest[1].price * (10000 - Entry.spacing)

\* The entry at the last of the closed candles cs for the pullback p it confirms.
EntryOf(p, cs, prm, open, price) ==
  LET last == cs[Len(cs)]
      zone == MatchingZone(p, CloseTime(last), price)
  IN IF /\ ~(Entry.onePerSymbol /\ open # {})
        /\ ConfirmationCandles(cs)
        /\ prm.lastCandle # last.time
        /\ p # NoPullback
        /\ Entry.requireZone => zone # NoZone
        /\ prm.lastLow # p.lowTime
        /\ SpacingAllows(open, price)
     THEN [conf |-> last.time, low |-> p.lowTime, peak |-> p.peak,
           zone |-> zone.id, mult |-> Multiplier(price, zone)]
     ELSE NoEntry

\* The entry that the last of the closed candles cs asks for, or NoEntry.
ShouldBuy(cs, prm, open, price) == EntryOf(CurrentPullback(cs, prm), cs, prm, open, price)

\* Mutant of Fitting: what is used is not counted.
FittingUncut(wanted, used) == IF Entry.maxEquivalent < wanted THEN Entry.maxEquivalent ELSE wanted

\* The equivalents that are left beside what is used, at most as many as wanted.
Fitting(wanted, used) ==
  LET left == Max({0, Entry.maxEquivalent - used})
  IN IF left < wanted THEN left ELSE wanted

=============================================================================
