----------------------------- MODULE Pullbacks -----------------------------
(***************************************************************************)
(* The pullback detector of Torum V1 (strategies/torum_v1.py, from         *)
(* detect_pullbacks to _latest_pullbacks): a left-to-right scan of closed  *)
(* M5 candles that looks for a swing high, a decline of at least a         *)
(* threshold and a recovery that confirms it.                              *)
(*                                                                         *)
(* A candle is a record [time, open, high, low, close].  Prices are        *)
(* integers and percentages are basis points (10000 = 100 %), so that no   *)
(* comparison of the code needs a division.  The scan is a recursive       *)
(* function over the index.                                                *)
(***************************************************************************)
EXTENDS Integers, Sequences, FiniteSetsExt

CONSTANT Detector   \* the record of the detector's parameters, see below

ASSUME DetectorAssumption ==
  Detector \in [lookback : Nat \ {0}, swingConfirm : Nat, endBars : Nat \ {0},
                minBetween : Nat, minBearish : Nat, minLowerClose : Nat,
                maxCount : Nat, useWicks : BOOLEAN,
                closeConfirmation : BOOLEAN, acceptDoji : BOOLEAN,
                peakExtension : BOOLEAN, requireLeg : BOOLEAN,
                disallowSame : BOOLEAN, impulseFilter : BOOLEAN]

NoPullback == [peak |-> 0, high |-> 0, lowTime |-> 0, low |-> 0, conf |-> 0]

LowOf(c) == IF Detector.useWicks THEN c.low ELSE c.close

Bullish(c) == c.close > c.open

Bearish(c) == c.close < c.open

\* A doji counts as bullish when the parameter accepts it.
BullishConfirmation(c) ==
  IF Detector.acceptDoji THEN c.close >= c.open ELSE Bullish(c)

\* The first candle of a..b with the highest high.
HighestHigh(cs, a, b) ==
  CHOOSE i \in a..b : \A j \in a..b :
    cs[j].high < cs[i].high \/ (cs[j].high = cs[i].high /\ i <= j)

\* The last candle of a..b with the lowest low.
LowestLow(cs, a, b) ==
  CHOOSE i \in a..b : \A j \in a..b :
    LowOf(cs[j]) > LowOf(cs[i]) \/ (LowOf(cs[j]) = LowOf(cs[i]) /\ j <= i)

\* The decline from high to low is at least bp basis points of the high.
Declined(high, low, bp) == (high - low) * 10000 >= bp * high

LowerClose(cs, i) == i > 1 /\ cs[i].close < cs[i - 1].close

\* The candles from..to hold enough bearish candles, or enough closes below the
\* previous close.
BearishLeg(cs, from, to) ==
  \/ Detector.minBearish = 0 /\ Detector.minLowerClose = 0
  \/ /\ Detector.minBearish > 0
     /\ Cardinality({i \in from..to : Bearish(cs[i])}) >= Detector.minBearish
  \/ /\ Detector.minLowerClose > 0
     /\ Cardinality({i \in from..to : LowerClose(cs, i)}) >= Detector.minLowerClose

\* The pullback from the swing high at index p to the lowest candle up to e, or
\* NoPullback when one of the filters rejects it.
FromPeak(cs, p, e, bp) ==
  LET from == IF Detector.disallowSame \/ p < e THEN p + 1 ELSE p
      l    == LowestLow(cs, from, e)
      leg  == BearishLeg(cs, p + 1, l)
      low  == LowOf(cs[l])
  IN IF /\ cs[p].high > 0
        /\ from <= e
        /\ Detector.requireLeg => leg
        /\ Detector.impulseFilter /\ Bullish(cs[l]) => leg
        /\ low < cs[p].high
        /\ Declined(cs[p].high, low, bp)
     THEN [peak |-> cs[p].time, high |-> cs[p].high,
           lowTime |-> cs[l].time, low |-> low, conf |-> 0]
     ELSE NoPullback

----------------------------------------------------------------------------
(* The scan.  Its state holds the active pullback, the recovery bars seen,  *)
(* the bars to skip after a confirmation, the first candle of the segment,  *)
(* the index of the current swing high, and the confirmed pullbacks.  The   *)
(* thresholds th are a record [bp, recovery]: the least decline and the     *)
(* least recovery.                                                          *)

ScanStart == [active |-> NoPullback, bars |-> 0, wait |-> 0, seg |-> 1,
              peak |-> 1, found |-> << >>]

\* Mutant of Seek: the swing high is looked for beyond the candle at hand.
SeekAhead(cs, s, i, th) ==
  LET p == HighestHigh(cs, Max({s.seg, i - Detector.lookback + 1}), Len(cs))
  IN IF s.wait > 0 THEN [s EXCEPT !.wait = @ - 1]
     ELSE [s EXCEPT !.peak = p, !.active = FromPeak(cs, p, i, th.bp)]

\* Without an active pullback: wait out the separation, find the swing high,
\* and start a pullback from it once it is confirmed by later candles.  The
\* last candle of the history needs no confirmation of the swing.
Seek(cs, s, i, th) ==
  LET p == HighestHigh(cs, Max({s.seg, i - Detector.lookback + 1}), i)
  IN IF s.wait > 0 THEN [s EXCEPT !.wait = @ - 1]
     ELSE IF i - p < Detector.swingConfirm /\ i < Len(cs) THEN [s EXCEPT !.peak = p]
     ELSE [s EXCEPT !.peak = p, !.active = FromPeak(cs, p, i, th.bp)]

\* With an active pullback: lower the low, count the recovery, confirm, or move
\* the swing high to a later and higher one.
Follow(cs, s, i, th) ==
  LET c    == cs[i]
      new  == LowOf(c) < s.active.low
      act  == IF new THEN [s.active EXCEPT !.low = LowOf(c), !.lowTime = c.time]
                     ELSE s.active
      rec  == /\ c.close * 10000 >= act.low * (10000 + th.recovery)
              /\ Detector.closeConfirmation => BullishConfirmation(c)
      bars == IF rec THEN (IF new THEN 0 ELSE s.bars) + 1 ELSE 0
      at   == CHOOSE k \in 1..Len(cs) : cs[k].time = act.peak
      p    == HighestHigh(cs, Max({s.seg, at, i - Detector.lookback + 1}), i)
      ext  == FromPeak(cs, p, i, th.bp)
  IN IF bars >= Detector.endBars
     THEN [active |-> NoPullback, bars |-> 0, wait |-> Detector.minBetween,
           seg |-> i, peak |-> i, found |-> Append(s.found, [act EXCEPT !.conf = c.time])]
     ELSE IF /\ Detector.peakExtension
             /\ p # i
             /\ cs[p].time > act.peak
             /\ cs[p].high > act.high
             /\ ext # NoPullback
          THEN [s EXCEPT !.active = ext, !.bars = 0]
          ELSE [s EXCEPT !.active = act, !.bars = bars]

FollowActive(cs, s, i, th) == IF s.active = NoPullback THEN s ELSE Follow(cs, s, i, th)

\* A pullback that a candle starts is followed with the same candle.
ScanStep(cs, s, i, th) ==
  FollowActive(cs, IF s.active = NoPullback THEN Seek(cs, s, i, th) ELSE s, i, th)

Scan(cs, th) ==
  LET st[i \in 0..Len(cs)] ==
        IF i = 0 THEN ScanStart ELSE ScanStep(cs, st[i - 1], i, th)
  IN st[Len(cs)]

Confirmed(cs, th) == IF cs = << >> THEN << >> ELSE Scan(cs, th).found

\* The chart also gets the pullback that is still open.
WithActive(s) == IF s.active = NoPullback THEN s.found ELSE Append(s.found, s.active)

Shown(cs, th) == WithActive(Scan(cs, th))

\* The last maxCount of the pullbacks (_latest_pullbacks).
Latest(ps) == SubSeq(ps, Max({1, Len(ps) - Detector.maxCount + 1}), Len(ps))

=============================================================================
