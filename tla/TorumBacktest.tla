---------------------------- MODULE TorumBacktest ----------------------------
(***************************************************************************)
(* The offline runs of Torum V1: the backtest (torum_v1_backtest.py), the  *)
(* technical replay (torum_v1_simulator.py) and the pullbacks the chart    *)
(* shows (pullback_debug_payload).  Each walks over a finished history     *)
(* with its own bookkeeping and decides with TorumSetup.                   *)
(*                                                                         *)
(* The backtest is the one that enters at the close of the confirmation,   *)
(* with session, news, unlock, zones and supports on and the USD, ATH and  *)
(* risk filters off.  Spread, slippage, profit and the metrics are left    *)
(* out.                                                                    *)
(***************************************************************************)
EXTENDS TorumSetup

CONSTANTS
  BacktestWindow,   \* candles the backtest shows the detector
  ReplayWindow      \* candles the replay shows it

ASSUME WindowAssumption == BacktestWindow \in Nat \ {0} /\ ReplayWindow \in Nat \ {0}

\* The parameters of an offline run: those stored, without what the live runner
\* has written into them.
CleanParams(bp) == [bp |-> bp, bounds |-> {}, lastCandle |-> 0, lastLow |-> 0]

\* Offline runs look one second after the close, and both ends of the session
\* count.  The backtest compares minutes, so that the second does not; the replay
\* compares the whole time.
SessionAllows(closed) == Session.start <= closed /\ closed <= Session.end

ReplaySession(now) == Session.start <= now /\ now <= Session.end

Window(cs, i, n) == SubSeq(cs, Max({1, i - n + 1}), i)

Used(open) == FoldSet(LAMBDA t, n : t.mult + n, 0, open)

----------------------------------------------------------------------------
(* The backtest.  Its state is the open trades, all trades, the recorded   *)
(* cycle boundaries and the lows that have given a signal.                 *)

\* Mutant of UnlockedAt: the market is open from the start of the window on.
UnlockedAtStart(cs) ==
  LET starts == {w.from : w \in {v \in EvaluationWindows : Qualifies(cs, v)}}
  IN IF starts = {} THEN Session.end + CloseTime(cs[Len(cs)]) + 1 ELSE Min(starts)

\* The first time of the day at which a window of the finished history unlocks.
UnlockedAt(cs) ==
  LET ends == {w.to : w \in {v \in EvaluationWindows : Qualifies(cs, v)}}
  IN IF ends = {} THEN Session.end + CloseTime(cs[Len(cs)]) + 1 ELSE Min(ends)

\* An entry starts a new cycle at its confirmation; the runs keep it in the
\* parameters they decide with.
RecordEntryCycle(prm, d) == [prm EXCEPT !.bounds = @ \cup {d.conf}]

\* A trade whose take profit the candle reaches is closed before the decision.
StillOpen(open, c) == {t \in open : c.high < t.tp}

SizeEntry(wanted, open) ==
  LET fits == Fitting(wanted, Used(open))
  IN IF fits < wanted /\ ~Entry.degrade THEN 0 ELSE fits

\* The take profit of an entry, in the units of the prices times 10000.
TakeProfit(price) == (price * (10000 + Entry.takeProfit) + 9999) \div 10000

ZoneHolds(d, t, price) ==
  Entry.requireZone /\ d.zone # 0 =>
    \E i \in DOMAIN Zones : /\ Zones[i].id = d.zone
                            /\ InTime(t, Zones[i])
                            /\ InPrice(price, Zones[i]) \/ Entry.priceOutside

BacktestStep(cs, unlocked, s, i) ==
  LET c     == cs[i]
      now   == CloseTime(c) + 1
      open  == StillOpen(s.open, c)
      d     == ShouldBuy(Window(cs, i, BacktestWindow), s.prm, open, c.close)
      asks  == /\ i >= 3
               /\ SessionAllows(CloseTime(c))
               /\ ~NewsBlocked(now)
               /\ d # NoEntry
      size  == SizeEntry(d.mult, open)
      trade == [conf |-> d.conf, low |-> d.low, peak |-> d.peak, mult |-> size,
                price |-> c.close, tp |-> TakeProfit(c.close)]
  IN IF ~asks THEN [s EXCEPT !.open = open]
     ELSE IF /\ d.low \notin s.seen
             /\ unlocked <= now
             /\ ZoneHolds(d, now, c.close)
             /\ size > 0
          THEN [open |-> open \cup {trade}, trades |-> Append(s.trades, trade),
                prm |-> RecordEntryCycle(s.prm, d),
                seen |-> s.seen \cup {d.low}]
          ELSE [s EXCEPT !.open = open, !.seen = @ \cup {d.low}]

Backtest(cs, bp) ==
  LET unlocked == UnlockedAt(cs)
      run[i \in 0..Len(cs)] ==
        IF i = 0 THEN [open |-> {}, trades |-> << >>, prm |-> CleanParams(bp), seen |-> {}]
                 ELSE BacktestStep(cs, unlocked, run[i - 1], i)
  IN run[Len(cs)]

----------------------------------------------------------------------------
(* The replay knows no positions, no unlock rule and no capacity: every    *)
(* signal starts a new cycle.                                              *)

\* Mutant of ReplayStep: the lookback of the detector is waited for.
ReplayStepWarmUp(cs, s, i) ==
  LET d == ShouldBuy(Window(cs, i, ReplayWindow), s.prm, {}, cs[i].close)
  IN IF i > Detector.lookback /\ ReplaySession(CloseTime(cs[i]) + 1) /\ d # NoEntry
     THEN [signals |-> s.signals \cup {d}, prm |-> RecordEntryCycle(s.prm, d)]
     ELSE s

ReplayStep(cs, s, i) ==
  LET now == CloseTime(cs[i]) + 1
      d   == ShouldBuy(Window(cs, i, ReplayWindow), s.prm, {}, cs[i].close)
  IN IF /\ i >= 3
        /\ ReplaySession(now)
        /\ ~NewsBlocked(now)
        /\ d # NoEntry
     THEN [signals |-> s.signals \cup {d}, prm |-> RecordEntryCycle(s.prm, d)]
     ELSE s

Replay(cs, bp) ==
  LET run[i \in 0..Len(cs)] ==
        IF i = 0 THEN [signals |-> {}, prm |-> CleanParams(bp)]
                 ELSE ReplayStep(cs, run[i - 1], i)
  IN run[Len(cs)].signals

----------------------------------------------------------------------------
(* The simulator explains the decision of the moment: it goes through the  *)
(* steps of the decision once more, one by one, and then asks for it.      *)

\* Mutant of WaitingSteps: the zone of the low is taken for the zone of the entry.
WaitingStepsOfLow(cs, prm, override, now, price) ==
  {step \in {"unlock", "zone"} :
     IF step = "unlock" THEN ~AssetUnlocked(cs, override, now) /\ ~NewsBlocked(now)
                        ELSE PullbackZones(CurrentPullback(cs, prm)) = {}}

\* The steps that are not fulfilled yet.
WaitingSteps(cs, prm, override, now, price) ==
  LET last == cs[Len(cs)]
      p    == CurrentPullback(cs, prm)
      met  == [unlock       |-> AssetUnlocked(cs, override, now) \/ NewsBlocked(now),
               confirmation |-> /\ BullishConfirmation(last)
                                /\ Entry.abovePrevious /\ Len(cs) >= 2 =>
                                     last.close > cs[Len(cs) - 1].high,
               pullback     |-> p # NoPullback,
               zone         |-> Entry.requireZone => /\ p # NoPullback
                                                     /\ ConfirmedZone(p, CloseTime(last), price) # NoZone]
  IN {step \in DOMAIN met : ~met[step]}

\* The steps that speak against an entry.
FailingSteps(now) ==
  {step \in {"session", "news"} :
     IF step = "news" THEN NewsBlocked(now) ELSE ~InSession(now) /\ ~NewsBlocked(now)}

\* The multiplier the simulator shows.
SimulatedMultiplier(cs, prm, price) ==
  Multiplier(price, ConfirmedZone(CurrentPullback(cs, prm), CloseTime(cs[Len(cs)]), price))

Simulate(cs, prm, override, now, open, price) ==
  IF FailingSteps(now) # {} THEN "BLOCKED"
  ELSE IF ShouldBuy(cs, prm, open, price) # NoEntry /\ AssetUnlocked(cs, override, now) THEN "BUY"
  ELSE "WAIT"

----------------------------------------------------------------------------
(* The pullbacks of the chart: the history is cut at the executed entries, *)
(* and the candle of the cut belongs to both sides.                        *)

\* Mutant of CycleSegments: the history is not cut.
CycleSegmentsWhole(cs, bounds) == [i \in {1} |-> cs]

\* The segments, by the index of their first candle.
CycleSegments(cs, bounds) ==
  LET cuts  == {i \in DOMAIN cs : cs[i].time \in bounds}
      To(i) == IF \E j \in cuts : j > i THEN Min({j \in cuts : j > i}) ELSE Len(cs)
  IN [i \in {1} \cup cuts |-> SubSeq(cs, i, To(i))]

\* The chart detects with a threshold and a recovery of its own, and keeps the
\* last pullbacks of all segments together.
ChartPullbacks(cs, bounds) ==
  LET segments == CycleSegments(cs, bounds)
      th       == [bp |-> Entry.visualThreshold, recovery |-> Entry.visualRecovery]
      all[i \in 0..Len(cs)] ==
        IF i = 0 THEN << >>
        ELSE IF i \in DOMAIN segments THEN all[i - 1] \o Shown(segments[i], th)
        ELSE all[i - 1]
  IN Latest(all[Len(cs)])

=============================================================================
