---------------------------- MODULE TorumV1_proofs ----------------------------
(***************************************************************************)
(* What holds of Torum V1 for every detector, every day and any number of  *)
(* runs:                                                                   *)
(*                                                                         *)
(*   ConfirmedPullbacksAreFinal  a later candle takes no pullback back;    *)
(*   EntriesAreCycles            no fall of the market is bought twice;    *)
(*   UnlockIsMonotonic           an unlocked market stays unlocked;        *)
(*   SimulatorExplains           the simulator is right about a decision;  *)
(*   BacktestAgreesWithLive      the backtest makes the live trades;       *)
(*   ReplayShowsTheEntries       the replay signals what was bought.       *)
(*                                                                         *)
(* The first two rest on one simulation.  The detector is scanned from the *)
(* left, and so the states of two scans are compared (Shifted): of a       *)
(* history and of a longer one, and of a whole day and of the part that is *)
(* left of it after an entry.  The part begins where the scan of the whole *)
(* day was reset, with a confirmation, and from there both go on alike.    *)
(* So whatever a run knows of the entries, it finds a pullback of the day  *)
(* (DecisionIs), and two pullbacks of a day never overlap (FoundInOrder);  *)
(* what remains are the writers of signals, entries and parameters         *)
(* (LiveInv).                                                              *)
(*                                                                         *)
(* Backtest and replay are recursive functions of the day: their states    *)
(* before and after the last candle (Before, After, RpBefore, RpAfter) go  *)
(* along with the live state, and SteadyInv and ShownInv compare them.     *)
(***************************************************************************)
EXTENDS TorumV1, FiniteSetTheorems, SequenceTheorems, WellFoundedInduction, TLAPS

----------------------------------------------------------------------------
(* Finite sets of numbers, and induction along an interval. *)

\* Induction over the subsets of a finite set, with a set for the property.
LEMMA SubsetInduction ==
    ASSUME NEW S, IsFiniteSet(S), NEW P,
           \A T \in SUBSET S : (\A U \in SUBSET T : U # T => U \in P) => T \in P
    PROVE  \A T \in SUBSET S : T \in P
<1>. SUFFICES ASSUME (SUBSET S) \ P # {} PROVE FALSE
  OBVIOUS
<1>1. IsWellFoundedOn(StrictSubsetOrdering(S), FiniteSubsetsOf(S))
  BY FS_StrictSubsetOrderingWellFounded
<1>2. (SUBSET S) \ P \subseteq FiniteSubsetsOf(S)
  BY FS_Subset DEF FiniteSubsetsOf
<1>3. PICK T \in (SUBSET S) \ P : \A U \in (SUBSET S) \ P : ~ (<<U, T>> \in StrictSubsetOrdering(S))
  <2>. DEFINE R == StrictSubsetOrdering(S)
              F == FiniteSubsetsOf(S)
              Bad == (SUBSET S) \ P
  <2>1. IsWellFoundedOn(R, F) /\ Bad \subseteq F /\ Bad # {}
    BY <1>1, <1>2
  <2>2. \E T \in Bad : \A U \in Bad : ~ (<<U, T>> \in R)
    <3>. HIDE DEF R, F, Bad
    <3>. QED BY <2>1, WFMin
  <2>. QED BY <2>2
<1>4. \A U \in SUBSET T : U # T => U \in P
  BY <1>3 DEF StrictSubsetOrdering
<1>. QED BY <1>3, <1>4

\* A finite set of numbers has a greatest one ...
LEMMA GreatestExists ==
    ASSUME NEW S \in SUBSET Int, IsFiniteSet(S), S # {}
    PROVE  \E x \in S : \A y \in S : x >= y
<1>. DEFINE P == {T \in SUBSET S : T # {} => \E x \in T : \A y \in T : x >= y}
<1>1. ASSUME NEW T \in SUBSET S, \A U \in SUBSET T : U # T => U \in P
      PROVE  T \in P
  <2>. SUFFICES ASSUME T # {} PROVE \E x \in T : \A y \in T : x >= y
    OBVIOUS
  <2>1. PICK a \in T : TRUE
    OBVIOUS
  <2>2. CASE T \ {a} = {}
    <3>1. \A y \in T : y = a /\ a >= y
      BY <2>2
    <3>. QED BY <3>1, <2>1
  <2>3. CASE T \ {a} # {}
    <3>1. T \ {a} \in P
      BY <1>1, <2>1
    <3>2. PICK m \in T \ {a} : \A y \in T \ {a} : m >= y
      BY <3>1, <2>3
    <3>3. a \in Int /\ m \in Int /\ T \subseteq Int
      BY <2>1, <3>2
    <3>4. (\A y \in T : m >= y) \/ (\A y \in T : a >= y)
      BY <3>2, <3>3
    <3>. QED BY <3>4, <3>2, <2>1
  <2>. QED BY <2>2, <2>3
<1>2. \A T \in SUBSET S : T \in P
  <2>. HIDE DEF P
  <2>. QED BY <1>1, SubsetInduction
<1>. QED BY <1>2

\* ... and a least one.
LEMMA LeastExists ==
    ASSUME NEW S \in SUBSET Int, IsFiniteSet(S), S # {}
    PROVE  \E x \in S : \A y \in S : x <= y
<1>. DEFINE P == {T \in SUBSET S : T # {} => \E x \in T : \A y \in T : x <= y}
<1>1. ASSUME NEW T \in SUBSET S, \A U \in SUBSET T : U # T => U \in P
      PROVE  T \in P
  <2>. SUFFICES ASSUME T # {} PROVE \E x \in T : \A y \in T : x <= y
    OBVIOUS
  <2>1. PICK a \in T : TRUE
    OBVIOUS
  <2>2. CASE T \ {a} = {}
    <3>1. \A y \in T : y = a /\ a <= y
      BY <2>2
    <3>. QED BY <3>1, <2>1
  <2>3. CASE T \ {a} # {}
    <3>1. T \ {a} \in P
      BY <1>1, <2>1
    <3>2. PICK m \in T \ {a} : \A y \in T \ {a} : m <= y
      BY <3>1, <2>3
    <3>3. a \in Int /\ m \in Int /\ T \subseteq Int
      BY <2>1, <3>2
    <3>4. (\A y \in T : m <= y) \/ (\A y \in T : a <= y)
      BY <3>2, <3>3
    <3>. QED BY <3>4, <3>2, <2>1
  <2>. QED BY <2>2, <2>3
<1>2. \A T \in SUBSET S : T \in P
  <2>. HIDE DEF P
  <2>. QED BY <1>1, SubsetInduction
<1>. QED BY <1>2

\* Which is what Max and Min choose.
LEMMA MaxIsGreatest ==
    ASSUME NEW S \in SUBSET Int, IsFiniteSet(S), S # {}
    PROVE  /\ Max(S) \in S /\ Max(S) \in Int
           /\ \A y \in S : y <= Max(S)
<1>1. Max(S) \in S /\ \A y \in S : Max(S) >= y
  BY GreatestExists DEF Max
<1>. QED BY <1>1

\* The least element, in the same way.
LEMMA MinIsLeast ==
    ASSUME NEW S \in SUBSET Int, IsFiniteSet(S), S # {}
    PROVE  /\ Min(S) \in S /\ Min(S) \in Int
           /\ \A y \in S : Min(S) <= y
<1>1. Min(S) \in S /\ \A y \in S : Min(S) <= y
  BY LeastExists DEF Min
<1>. QED BY <1>1

\* Induction along the steps of a scan, with a set for the property.
LEMMA StepInduction ==
    ASSUME NEW n \in Nat, NEW P, 0 \in P,
           \A i \in 1..n : i - 1 \in P => i \in P
    PROVE  \A i \in 0..n : i \in P
<1>. SUFFICES ASSUME (0..n) \ P # {} PROVE FALSE
  OBVIOUS
<1>. DEFINE Bad == (0..n) \ P
<1>1. Bad \in SUBSET Int /\ IsFiniteSet(Bad) /\ Bad # {}
  <2>1. IsFiniteSet(0..n)
    BY FS_Interval
  <2>2. Bad \in SUBSET (0..n)
    OBVIOUS
  <2>. HIDE DEF Bad
  <2>3. IsFiniteSet(Bad)
    BY <2>1, <2>2, FS_Subset
  <2>. QED BY <2>2, <2>3 DEF Bad
<1>2. PICK m \in Bad : \A i \in Bad : m <= i
  <2>. HIDE DEF Bad
  <2>. QED BY <1>1, LeastExists
<1>3. m \in 1..n /\ m - 1 \in 0..n
  BY <1>2
<1>4. m - 1 \in P
  BY <1>2, <1>3
<1>. QED BY <1>2, <1>3, <1>4

----------------------------------------------------------------------------
(* Candles in the order of their times. *)
Candle == [time : Nat \ {0}, open : Int, close : Int, high : Int, low : Int]

IsDay(cs) ==
  /\ cs \in Seq(Candle) /\ Len(cs) >= 1
  /\ \A i, j \in 1..Len(cs) : i < j => cs[i].time < cs[j].time

\* What is known of a candle.
LEMMA CandleFacts ==
    ASSUME NEW cs, IsDay(cs), NEW i \in 1..Len(cs)
    PROVE  /\ cs[i] \in Candle /\ cs[i].time \in Nat /\ cs[i].time > 0
           /\ cs[i].high \in Int /\ cs[i].low \in Int /\ cs[i].close \in Int /\ cs[i].open \in Int
           /\ LowOf(cs[i]) \in Int
<1>1. cs[i] \in Candle
  BY ElementOfSeq DEF IsDay
<1>. QED BY <1>1 DEF Candle, LowOf

\* The length of a day.
LEMMA DayLength ==
    ASSUME NEW cs, IsDay(cs)
    PROVE  Len(cs) \in Nat /\ Len(cs) >= 1 /\ DOMAIN cs = 1..Len(cs)
BY LenProperties DEF IsDay

\* Times tell candles apart.
LEMMA TimesAreUnique ==
    ASSUME NEW cs, IsDay(cs), NEW i \in 1..Len(cs), NEW j \in 1..Len(cs)
    PROVE  /\ cs[i].time = cs[j].time => i = j
           /\ i < j <=> cs[i].time < cs[j].time
           /\ i <= j <=> cs[i].time <= cs[j].time
<1>1. /\ i < j => cs[i].time < cs[j].time
      /\ j < i => cs[j].time < cs[i].time
  BY DEF IsDay
<1>2. cs[i].time \in Nat /\ cs[j].time \in Nat
  BY CandleFacts
<1>. QED BY <1>1, <1>2

\* The index that HighestHigh chooses, and the one that LowestLow chooses.
IsHighest(cs, a, b, i) ==
  /\ i \in a..b
  /\ \A j \in a..b : cs[j].high < cs[i].high \/ (cs[j].high = cs[i].high /\ i <= j)
IsLowest(cs, a, b, i) ==
  /\ i \in a..b
  /\ \A j \in a..b : LowOf(cs[j]) > LowOf(cs[i]) \/ (LowOf(cs[j]) = LowOf(cs[i]) /\ j <= i)

\* There is a highest high ...
LEMMA HighestHighExists ==
    ASSUME NEW cs, IsDay(cs), NEW a \in Int, NEW b \in Int, 1 <= a, a <= b, b <= Len(cs)
    PROVE  \E i : IsHighest(cs, a, b, i)
<1>1. \A i \in a..b : cs[i].high \in Int
  BY CandleFacts, DayLength
<1>2. PICK n \in Nat : n = b - a
  OBVIOUS
<1>. DEFINE P == {k \in 0..n : \E i : IsHighest(cs, a, a + k, i)}
<1>3. 0 \in P
  <2>1. IsHighest(cs, a, a + 0, a)
    <3>1. a \in a..(a + 0) /\ cs[a].high \in Int
      BY <1>1
    <3>2. \A j \in a..(a + 0) : j = a
      OBVIOUS
    <3>. QED BY <3>1, <3>2 DEF IsHighest
  <2>. QED BY <2>1
<1>4. ASSUME NEW k \in 1..n, k - 1 \in P
      PROVE  k \in P
  <2>1. PICK i : IsHighest(cs, a, a + (k - 1), i)
    BY <1>4
  <2>2. i \in a..(a + (k - 1)) /\ k \in Int /\ a + k \in a..b /\ i \in a..b /\ i < a + k
    BY <1>2, <2>1 DEF IsHighest
  <2>3. \A j \in a..(a + k) : j \in a..b /\ (j = a + k \/ j \in a..(a + (k - 1)))
    BY <1>2
  <2>4. PICK m \in {i, a + k} : IsHighest(cs, a, a + k, m)
    <3>1. cs[i].high \in Int /\ cs[a + k].high \in Int
      BY <1>1, <2>2
    <3>2. \A j \in a..(a + (k - 1)) :
            cs[j].high < cs[i].high \/ (cs[j].high = cs[i].high /\ i <= j)
      BY <2>1 DEF IsHighest
    <3>3. CASE cs[a + k].high > cs[i].high
      <4>1. ASSUME NEW j \in a..(a + k)
            PROVE  cs[j].high < cs[a + k].high \/ (cs[j].high = cs[a + k].high /\ a + k <= j)
        <5>1. CASE j = a + k
          BY <5>1, <3>1
        <5>2. CASE j \in a..(a + (k - 1))
          <6>1. cs[j].high \in Int /\ j <= a + k
            BY <1>1, <2>3, <5>2
          <6>2. cs[j].high < cs[i].high \/ cs[j].high = cs[i].high
            BY <3>2, <5>2
          <6>. QED BY <6>1, <6>2, <3>1, <3>3
        <5>. QED BY <5>1, <5>2, <2>3
      <4>2. a + k \in a..(a + k)
        BY <2>2
      <4>. QED BY <4>1, <4>2 DEF IsHighest
    <3>4. CASE ~(cs[a + k].high > cs[i].high)
      <4>1. ASSUME NEW j \in a..(a + k)
            PROVE  cs[j].high < cs[i].high \/ (cs[j].high = cs[i].high /\ i <= j)
        <5>1. CASE j = a + k
          BY <5>1, <3>1, <3>4, <2>2
        <5>2. CASE j \in a..(a + (k - 1))
          BY <5>2, <3>2
        <5>. QED BY <5>1, <5>2, <2>3
      <4>2. i \in a..(a + k)
        BY <2>2
      <4>. QED BY <4>1, <4>2 DEF IsHighest
    <3>. QED BY <3>3, <3>4
  <2>. QED BY <2>4
<1>5. n \in P
  <2>. HIDE DEF P
  <2>1. \A k \in 0..n : k \in P
    BY <1>3, <1>4, StepInduction
  <2>. QED BY <2>1
<1>6. a + n = b
  BY <1>2
<1>. QED BY <1>5, <1>6

\* ... and only one.
LEMMA HighestHighIs ==
    ASSUME NEW cs, IsDay(cs), NEW a \in Int, NEW b \in Int, 1 <= a, a <= b, b <= Len(cs)
    PROVE  /\ IsHighest(cs, a, b, HighestHigh(cs, a, b))
           /\ HighestHigh(cs, a, b) \in a..b
           /\ \A i : IsHighest(cs, a, b, i) => i = HighestHigh(cs, a, b)
<1>1. \A i \in a..b : cs[i].high \in Int
  BY CandleFacts, DayLength
<1>2. IsHighest(cs, a, b, HighestHigh(cs, a, b))
  <2>1. \E k \in a..b : \A j \in a..b :
          cs[j].high < cs[k].high \/ (cs[j].high = cs[k].high /\ k <= j)
    BY HighestHighExists DEF IsHighest
  <2>. QED BY <2>1 DEF HighestHigh, IsHighest
<1>3. ASSUME NEW m, NEW k, IsHighest(cs, a, b, m), IsHighest(cs, a, b, k)
      PROVE  m = k
  <2>1. m \in a..b /\ k \in a..b
    BY <1>3 DEF IsHighest
  <2>2. cs[m].high \in Int /\ cs[k].high \in Int /\ m \in Int /\ k \in Int
    BY <1>1, <2>1
  <2>3. /\ cs[m].high < cs[k].high \/ (cs[m].high = cs[k].high /\ k <= m)
        /\ cs[k].high < cs[m].high \/ (cs[k].high = cs[m].high /\ m <= k)
    BY <1>3, <2>1 DEF IsHighest
  <2>. QED BY <2>2, <2>3
<1>. QED BY <1>2, <1>3 DEF IsHighest

\* There is a lowest low ...
LEMMA LowestLowExists ==
    ASSUME NEW cs, IsDay(cs), NEW a \in Int, NEW b \in Int, 1 <= a, a <= b, b <= Len(cs)
    PROVE  \E i : IsLowest(cs, a, b, i)
<1>1. \A i \in a..b : LowOf(cs[i]) \in Int
  BY CandleFacts, DayLength
<1>2. PICK n \in Nat : n = b - a
  OBVIOUS
<1>. DEFINE P == {k \in 0..n : \E i : IsLowest(cs, a, a + k, i)}
<1>3. 0 \in P
  <2>1. IsLowest(cs, a, a + 0, a)
    <3>1. a \in a..(a + 0) /\ LowOf(cs[a]) \in Int
      BY <1>1
    <3>2. \A j \in a..(a + 0) : j = a
      OBVIOUS
    <3>. QED BY <3>1, <3>2 DEF IsLowest
  <2>. QED BY <2>1
<1>4. ASSUME NEW k \in 1..n, k - 1 \in P
      PROVE  k \in P
  <2>1. PICK i : IsLowest(cs, a, a + (k - 1), i)
    BY <1>4
  <2>2. i \in a..(a + (k - 1)) /\ k \in Int /\ a + k \in a..b /\ i \in a..b /\ i < a + k
    BY <1>2, <2>1 DEF IsLowest
  <2>3. \A j \in a..(a + k) : j \in a..b /\ (j = a + k \/ j \in a..(a + (k - 1)))
    BY <1>2
  <2>4. PICK m \in {i, a + k} : IsLowest(cs, a, a + k, m)
    <3>1. LowOf(cs[i]) \in Int /\ LowOf(cs[a + k]) \in Int
      BY <1>1, <2>2
    <3>2. \A j \in a..(a + (k - 1)) :
            LowOf(cs[j]) > LowOf(cs[i]) \/ (LowOf(cs[j]) = LowOf(cs[i]) /\ j <= i)
      BY <2>1 DEF IsLowest
    <3>3. CASE LowOf(cs[a + k]) <= LowOf(cs[i])
      <4>1. ASSUME NEW j \in a..(a + k)
            PROVE  LowOf(cs[j]) > LowOf(cs[a + k]) \/ (LowOf(cs[j]) = LowOf(cs[a + k]) /\ j <= a + k)
        <5>1. CASE j = a + k
          BY <5>1, <3>1
        <5>2. CASE j \in a..(a + (k - 1))
          <6>1. LowOf(cs[j]) \in Int /\ j <= a + k
            BY <1>1, <2>3, <5>2
          <6>2. LowOf(cs[j]) > LowOf(cs[i]) \/ LowOf(cs[j]) = LowOf(cs[i])
            BY <3>2, <5>2
          <6>. QED BY <6>1, <6>2, <3>1, <3>3
        <5>. QED BY <5>1, <5>2, <2>3
      <4>2. a + k \in a..(a + k)
        BY <2>2
      <4>. QED BY <4>1, <4>2 DEF IsLowest
    <3>4. CASE ~(LowOf(cs[a + k]) <= LowOf(cs[i]))
      <4>1. ASSUME NEW j \in a..(a + k)
            PROVE  LowOf(cs[j]) > LowOf(cs[i]) \/ (LowOf(cs[j]) = LowOf(cs[i]) /\ j <= i)
        <5>1. CASE j = a + k
          BY <5>1, <3>1, <3>4, <2>2
        <5>2. CASE j \in a..(a + (k - 1))
          BY <5>2, <3>2
        <5>. QED BY <5>1, <5>2, <2>3
      <4>2. i \in a..(a + k)
        BY <2>2
      <4>. QED BY <4>1, <4>2 DEF IsLowest
    <3>. QED BY <3>3, <3>4
  <2>. QED BY <2>4
<1>5. n \in P
  <2>. HIDE DEF P
  <2>1. \A k \in 0..n : k \in P
    BY <1>3, <1>4, StepInduction
  <2>. QED BY <2>1
<1>6. a + n = b
  BY <1>2
<1>. QED BY <1>5, <1>6

\* ... and only one.
LEMMA LowestLowIs ==
    ASSUME NEW cs, IsDay(cs), NEW a \in Int, NEW b \in Int, 1 <= a, a <= b, b <= Len(cs)
    PROVE  /\ IsLowest(cs, a, b, LowestLow(cs, a, b))
           /\ LowestLow(cs, a, b) \in a..b
           /\ \A i : IsLowest(cs, a, b, i) => i = LowestLow(cs, a, b)
<1>1. \A i \in a..b : LowOf(cs[i]) \in Int
  BY CandleFacts, DayLength
<1>2. IsLowest(cs, a, b, LowestLow(cs, a, b))
  <2>1. \E k \in a..b : \A j \in a..b :
          LowOf(cs[j]) > LowOf(cs[k]) \/ (LowOf(cs[j]) = LowOf(cs[k]) /\ j <= k)
    BY LowestLowExists DEF IsLowest
  <2>. QED BY <2>1 DEF LowestLow, IsLowest
<1>3. ASSUME NEW m, NEW k, IsLowest(cs, a, b, m), IsLowest(cs, a, b, k)
      PROVE  m = k
  <2>1. m \in a..b /\ k \in a..b
    BY <1>3 DEF IsLowest
  <2>2. LowOf(cs[m]) \in Int /\ LowOf(cs[k]) \in Int /\ m \in Int /\ k \in Int
    BY <1>1, <2>1
  <2>3. /\ LowOf(cs[m]) > LowOf(cs[k]) \/ (LowOf(cs[m]) = LowOf(cs[k]) /\ m <= k)
        /\ LowOf(cs[k]) > LowOf(cs[m]) \/ (LowOf(cs[k]) = LowOf(cs[m]) /\ k <= m)
    BY <1>3, <2>1 DEF IsLowest
  <2>. QED BY <2>2, <2>3
<1>. QED BY <1>2, <1>3 DEF IsLowest

----------------------------------------------------------------------------
(* The scan.  What is true of its state after the first i candles.         *)
Pull == [peak : Nat \ {0}, high : Int, lowTime : Nat \ {0}, low : Int, conf : Nat]

ScanStates ==
  [active : Pull \cup {NoPullback}, bars : Nat, wait : Nat, seg : Nat \ {0}, peak : Nat \ {0},
   found : Seq(Pull)]

\* A pullback that runs: its swing high is a candle of the segment.
Running(cs, a, seg, i) ==
  /\ \E q \in seg..i : cs[q].time = a.peak
  /\ a.lowTime <= cs[i].time /\ a.conf = 0
  /\ a.peak <= a.lowTime /\ (Detector.disallowSame => a.peak < a.lowTime)

\* The confirmed ones, each of which begins where the one before it has ended or later.
Ended(cs, found, seg, i) ==
  /\ \A j \in 1..Len(found) : /\ \E k \in 1..i : found[j].conf = cs[k].time
                              /\ \E k \in 1..i : found[j].peak = cs[k].time
                              /\ found[j].peak <= found[j].conf
                              /\ Detector.disallowSame => /\ found[j].peak < found[j].conf
                                                          /\ found[j].peak < found[j].lowTime
                              /\ found[j].lowTime <= found[j].conf
  /\ \A j \in 2..Len(found) : found[j - 1].conf <= found[j].peak
  /\ Len(found) > 0 => found[Len(found)].conf = cs[seg].time

ScanOK(cs, s, i) ==
  /\ s \in ScanStates
  /\ s.seg = 1 \/ s.seg <= i
  /\ s.active = NoPullback => s.bars = 0
  /\ s.active # NoPullback => Running(cs, s.active, s.seg, i)
  /\ Ended(cs, s.found, s.seg, i)

\* NoPullback is no pullback.
LEMMA NoneIsNoPull == NoPullback \notin Pull
BY DEF NoPullback, Pull

\* What the parameters of the detector are.
LEMMA DetectorFacts ==
    /\ Detector.lookback \in Nat \ {0} /\ Detector.swingConfirm \in Nat /\ Detector.endBars \in Nat \ {0}
    /\ Detector.minBetween \in Nat /\ Detector.disallowSame \in BOOLEAN
BY DetectorAssumption

\* What FromPeak makes of a swing high.
LEMMA FromPeakIs ==
    ASSUME NEW cs, IsDay(cs), NEW p \in Int, NEW e \in Int, 1 <= p, p <= e, e <= Len(cs), NEW bp,
           NEW a, a = FromPeak(cs, p, e, bp), a # NoPullback
    PROVE  /\ a \in Pull /\ a.conf = 0 /\ a.peak = cs[p].time /\ a.lowTime <= cs[e].time
           /\ a.peak <= a.lowTime /\ (Detector.disallowSame => p < e /\ a.peak < a.lowTime)
<1>. DEFINE from == IF Detector.disallowSame \/ p < e THEN p + 1 ELSE p
            l == LowestLow(cs, from, e)
<1>1. /\ from <= e
      /\ a = [peak |-> cs[p].time, high |-> cs[p].high, lowTime |-> cs[l].time,
              low |-> LowOf(cs[l]), conf |-> 0]
  BY DEF FromPeak
<1>2. from \in Int /\ 1 <= from /\ p <= from /\ (Detector.disallowSame => from = p + 1)
  OBVIOUS
<1>3. l \in from..e
  <2>. HIDE DEF from
  <2>. QED BY <1>1, <1>2, LowestLowIs
<1>. HIDE DEF from, l
<1>4. l \in Int /\ p <= l /\ l <= e /\ p \in 1..Len(cs) /\ l \in 1..Len(cs) /\ e \in 1..Len(cs)
      /\ (Detector.disallowSame => p < l)
  BY <1>1, <1>2, <1>3, DayLength
<1>5. /\ cs[p].time \in Nat \ {0} /\ cs[l].time \in Nat \ {0} /\ cs[p].high \in Int /\ LowOf(cs[l]) \in Int
  BY <1>4, CandleFacts
<1>6. /\ cs[p].time <= cs[l].time /\ cs[l].time <= cs[e].time
      /\ Detector.disallowSame => cs[p].time < cs[l].time
  BY <1>4, TimesAreUnique
<1>7. a \in Pull
  BY <1>1, <1>5 DEF Pull
<1>8. a.conf = 0 /\ a.peak = cs[p].time /\ a.lowTime = cs[l].time
  BY <1>1
<1>. QED BY <1>4, <1>6, <1>7, <1>8

\* The bounds of the search for a swing high.
LEMMA WindowStart ==
    ASSUME NEW cs, IsDay(cs), NEW i \in 1..Len(cs), NEW seg \in Nat \ {0}, seg <= i,
           NEW b, b = Max({seg, i - Detector.lookback + 1})
    PROVE  b \in Int /\ seg <= b /\ b <= i
<1>1. i \in Int /\ Detector.lookback \in Int /\ Detector.lookback >= 1
  BY DetectorFacts
<1>. DEFINE from == i - Detector.lookback + 1
<1>2. from \in Int /\ from <= i
  BY <1>1
<1>. HIDE DEF from
<1>3. /\ \A y \in {seg, from} : (IF seg >= from THEN seg ELSE from) >= y
      /\ (IF seg >= from THEN seg ELSE from) \in {seg, from}
  BY <1>2
<1>4. Max({seg, from}) \in {seg, from} /\ \A y \in {seg, from} : Max({seg, from}) >= y
  BY <1>3 DEF Max
<1>5. b = Max({seg, from})
  BY DEF from
<1>. QED BY <1>1, <1>2, <1>4, <1>5

\* The state at the start, with nothing seen.
LEMMA StartOK == ASSUME NEW cs PROVE ScanOK(cs, ScanStart, 0)
<1>1. << >> \in Seq(Pull) /\ Len(<< >>) = 0
  BY EmptySeq
<1>2. ScanStart \in ScanStates
  BY <1>1 DEF ScanStart, ScanStates
<1>3. ScanStart.active = NoPullback /\ ScanStart.bars = 0 /\ ScanStart.seg = 1 /\ ScanStart.found = << >>
  BY DEF ScanStart
<1>. QED BY <1>1, <1>2, <1>3 DEF ScanOK, Ended

\* What has ended stays so when a candle is added.
LEMMA EndedLater ==
    ASSUME NEW cs, NEW found, NEW seg, NEW i \in Nat, NEW k \in Nat, i <= k, Ended(cs, found, seg, i)
    PROVE  Ended(cs, found, seg, k)
<1>1. 1..i \subseteq 1..k
  OBVIOUS
<1>. QED BY <1>1 DEF Ended

\* A search for a swing high keeps it.
LEMMA SeekOK ==
    ASSUME NEW cs, IsDay(cs), NEW i \in 1..Len(cs), NEW s, ScanOK(cs, s, i - 1), s.active = NoPullback,
           NEW th, NEW t, t = Seek(cs, s, i, th)
    PROVE  /\ ScanOK(cs, t, i) /\ t.found = s.found /\ t.bars = 0
           /\ t.active # NoPullback /\ Detector.disallowSame => t.peak < i
<1>1. /\ s \in ScanStates /\ s.bars = 0 /\ Ended(cs, s.found, s.seg, i - 1)
      /\ s.seg \in Nat \ {0} /\ s.seg <= i /\ s.wait \in Nat
  BY DEF ScanOK, ScanStates
<1>2. Ended(cs, s.found, s.seg, i)
  BY <1>1, EndedLater, i - 1 \in Nat, i \in Nat, i - 1 <= i
<1>. DEFINE b == Max({s.seg, i - Detector.lookback + 1})
            p == HighestHigh(cs, b, i)
            a == FromPeak(cs, p, i, th.bp)
<1>3. b \in Int /\ s.seg <= b /\ b <= i
  <2>. HIDE DEF b
  <2>1. b = Max({s.seg, i - Detector.lookback + 1})
    BY DEF b
  <2>. QED BY <1>1, <2>1, WindowStart
<1>4. i \in Int /\ i <= Len(cs)
  BY DayLength
<1>5. p \in b..i
  <2>. HIDE DEF b
  <2>1. 1 <= b
    BY <1>1, <1>3
  <2>. QED BY <1>3, <1>4, <2>1, HighestHighIs
<1>6. /\ p \in Nat \ {0} /\ p \in s.seg..i /\ p \in Int /\ 1 <= p /\ p <= i
  <2>. HIDE DEF b, p
  <2>. QED BY <1>1, <1>3, <1>5
<1>7. a # NoPullback => /\ a \in Pull /\ Running(cs, a, s.seg, i)
                        /\ Detector.disallowSame => p < i
  <2>. HIDE DEF b, p
  <2>1. a = FromPeak(cs, p, i, th.bp)
    OBVIOUS
  <2>. HIDE DEF a
  <2>. SUFFICES ASSUME a # NoPullback
                PROVE  a \in Pull /\ Running(cs, a, s.seg, i) /\ (Detector.disallowSame => p < i)
    OBVIOUS
  <2>2. /\ a \in Pull /\ a.conf = 0 /\ a.peak = cs[p].time /\ a.lowTime <= cs[i].time
        /\ a.peak <= a.lowTime /\ (Detector.disallowSame => p < i /\ a.peak < a.lowTime)
    BY <1>4, <1>6, <2>1, FromPeakIs
  <2>. QED BY <1>6, <2>2 DEF Running
<1>8. CASE s.wait > 0
  <2>1. t = [s EXCEPT !.wait = @ - 1]
    BY <1>8 DEF Seek
  <2>2. s.wait - 1 \in Nat
    BY <1>1, <1>8
  <2>3. t \in ScanStates /\ t.active = NoPullback /\ t.bars = 0 /\ t.seg = s.seg /\ t.found = s.found
    BY <1>1, <2>1, <2>2 DEF ScanStates
  <2>. QED BY <1>1, <1>2, <2>3 DEF ScanOK
<1>9. CASE ~(s.wait > 0) /\ i - p < Detector.swingConfirm /\ i < Len(cs)
  <2>1. t = [s EXCEPT !.peak = p]
    BY <1>9 DEF Seek
  <2>. HIDE DEF p
  <2>2. t \in ScanStates /\ t.active = NoPullback /\ t.bars = 0 /\ t.seg = s.seg /\ t.found = s.found
    BY <1>1, <1>6, <2>1 DEF ScanStates
  <2>. QED BY <1>1, <1>2, <2>2 DEF ScanOK
<1>10. CASE ~(s.wait > 0) /\ ~(i - p < Detector.swingConfirm /\ i < Len(cs))
  <2>1. t = [[s EXCEPT !.peak = p] EXCEPT !.active = a]
    BY <1>10 DEF Seek
  <2>. HIDE DEF p, a
  <2>2. a \in Pull \cup {NoPullback}
    BY <1>7
  <2>3. /\ t \in ScanStates /\ t.active = a /\ t.bars = 0 /\ t.seg = s.seg /\ t.found = s.found
        /\ t.peak = p
    BY <1>1, <1>6, <2>1, <2>2 DEF ScanStates
  <2>. QED BY <1>1, <1>2, <1>7, <2>3 DEF ScanOK
<1>. QED BY <1>8, <1>9, <1>10

\* A confirmed pullback joins the others.
LEMMA ConfirmOK ==
    ASSUME NEW cs, IsDay(cs), NEW i \in 1..Len(cs), NEW found \in Seq(Pull), NEW seg \in Nat \ {0},
           seg <= i, Ended(cs, found, seg, i), NEW a \in Pull, Running(cs, a, seg, i),
           NEW e \in Pull, e.peak = a.peak, e.lowTime = a.lowTime, e.conf = cs[i].time
    PROVE  Append(found, e) \in Seq(Pull) /\ Ended(cs, Append(found, e), i, i)
<1>. DEFINE more == Append(found, e)
            n == Len(found)
<1>1. /\ n \in Nat /\ more \in Seq(Pull) /\ Len(more) = n + 1
      /\ more[n + 1] = e /\ \A j \in 1..n : more[j] = found[j]
  BY AppendProperties, LenProperties
<1>. HIDE DEF more, n
<1>2. PICK q \in seg..i : cs[q].time = a.peak
  BY DEF Running
<1>3. /\ a.peak \in Nat /\ a.lowTime \in Nat /\ cs[i].time \in Nat
  BY CandleFacts DEF Pull
<1>4. /\ a.peak <= cs[i].time /\ a.lowTime <= cs[i].time
      /\ Detector.disallowSame => a.peak < cs[i].time /\ a.peak < a.lowTime
  BY <1>3 DEF Running
<1>5. q \in 1..i /\ i \in 1..i /\ q \in 1..Len(cs) /\ seg \in 1..Len(cs) /\ seg <= q
  BY <1>2, DayLength
<1>6. cs[seg].time <= cs[q].time
  BY <1>5, TimesAreUnique
<1>7. ASSUME NEW j \in 1..Len(more)
      PROVE  /\ \E k \in 1..i : more[j].conf = cs[k].time
             /\ \E k \in 1..i : more[j].peak = cs[k].time
             /\ more[j].peak <= more[j].conf
             /\ Detector.disallowSame => more[j].peak < more[j].conf /\ more[j].peak < more[j].lowTime
             /\ more[j].lowTime <= more[j].conf
  <2>1. CASE j \in 1..n
    <3>1. more[j] = found[j]
      BY <1>1, <2>1
    <3>. QED BY <2>1, <3>1 DEF Ended, n
  <2>2. CASE j = n + 1
    <3>1. more[j].conf = cs[i].time /\ more[j].peak = cs[q].time /\ more[j].lowTime = a.lowTime
      BY <1>1, <1>2, <2>2
    <3>. QED BY <1>2, <1>4, <1>5, <3>1
  <2>. QED BY <1>1, <2>1, <2>2
<1>8. ASSUME NEW j \in 2..Len(more)
      PROVE  more[j - 1].conf <= more[j].peak
  <2>1. CASE j \in 2..n
    <3>1. more[j] = found[j] /\ more[j - 1] = found[j - 1]
      BY <1>1, <2>1
    <3>. QED BY <2>1, <3>1 DEF Ended, n
  <2>2. CASE j = n + 1
    <3>1. more[j - 1] = found[n] /\ n > 0 /\ more[j] = e
      BY <1>1, <2>2
    <3>2. found[n].conf = cs[seg].time
      BY <3>1 DEF Ended, n
    <3>. QED BY <1>2, <1>6, <3>1, <3>2
  <2>. QED BY <1>1, <2>1, <2>2
<1>9. more[Len(more)].conf = cs[i].time
  BY <1>1
<1>10. Ended(cs, more, i, i)
  BY <1>7, <1>8, <1>9 DEF Ended
<1>. QED BY <1>1, <1>10 DEF more

\* The parts of Follow: the pullback with its low, the recovery, the candle of
\* the swing high, and the pullback from a later one.
Lowered(cs, s, i) ==
  IF LowOf(cs[i]) < s.active.low
  THEN [s.active EXCEPT !.low = LowOf(cs[i]), !.lowTime = cs[i].time] ELSE s.active

Recovers(cs, s, i, th) ==
  /\ cs[i].close * 10000 >= Lowered(cs, s, i).low * (10000 + th.recovery)
  /\ Detector.closeConfirmation => BullishConfirmation(cs[i])

Bars(cs, s, i, th) ==
  IF Recovers(cs, s, i, th) THEN (IF LowOf(cs[i]) < s.active.low THEN 0 ELSE s.bars) + 1 ELSE 0

PeakAt(cs, time) == CHOOSE k \in 1..Len(cs) : cs[k].time = time

LaterPeak(cs, s, i) ==
  HighestHigh(cs, Max({s.seg, PeakAt(cs, Lowered(cs, s, i).peak), i - Detector.lookback + 1}), i)

Extension(cs, s, i, th) == FromPeak(cs, LaterPeak(cs, s, i), i, th.bp)

Extending(cs, s, i, th) ==
  /\ Detector.peakExtension
  /\ LaterPeak(cs, s, i) # i
  /\ cs[LaterPeak(cs, s, i)].time > Lowered(cs, s, i).peak
  /\ cs[LaterPeak(cs, s, i)].high > Lowered(cs, s, i).high
  /\ Extension(cs, s, i, th) # NoPullback

Reset(i, found) ==
  [active |-> NoPullback, bars |-> 0, wait |-> Detector.minBetween, seg |-> i, peak |-> i, found |-> found]

\* What Follow does: confirm, extend or go on.
LEMMA FollowIs ==
    ASSUME NEW cs, NEW s, NEW i, NEW th
    PROVE  Follow(cs, s, i, th) =
             IF Bars(cs, s, i, th) >= Detector.endBars
             THEN Reset(i, Append(s.found, [Lowered(cs, s, i) EXCEPT !.conf = cs[i].time]))
             ELSE IF Extending(cs, s, i, th)
             THEN [s EXCEPT !.active = Extension(cs, s, i, th), !.bars = 0]
             ELSE [s EXCEPT !.active = Lowered(cs, s, i), !.bars = Bars(cs, s, i, th)]
BY DEF Follow, Bars, Reset, Lowered, Recovers, Extending, Extension, LaterPeak, PeakAt

\* The pullback with its low runs as the one before.
LEMMA LoweredRuns ==
    ASSUME NEW cs, IsDay(cs), NEW i \in 1..Len(cs), NEW s, s.active \in Pull, NEW seg, Running(cs, s.active, seg, i)
    PROVE  /\ Lowered(cs, s, i) \in Pull /\ Running(cs, Lowered(cs, s, i), seg, i)
           /\ Lowered(cs, s, i).peak = s.active.peak
<1>1. LowOf(cs[i]) \in Int /\ cs[i].time \in Nat \ {0}
  BY CandleFacts
<1>2. s.active.peak \in Nat /\ s.active.lowTime \in Nat
  BY DEF Pull
<1>. DEFINE a == Lowered(cs, s, i)
<1>3. CASE LowOf(cs[i]) < s.active.low
  <2>1. a = [[s.active EXCEPT !.low = LowOf(cs[i])] EXCEPT !.lowTime = cs[i].time]
    BY <1>3 DEF Lowered
  <2>2. a \in Pull /\ a.peak = s.active.peak /\ a.conf = s.active.conf /\ a.lowTime = cs[i].time
    BY <1>1, <2>1 DEF Pull
  <2>. HIDE DEF a
  <2>3. a.peak <= a.lowTime /\ (Detector.disallowSame => a.peak < a.lowTime)
    BY <1>1, <1>2, <2>2 DEF Running
  <2>. QED BY <1>1, <2>2, <2>3 DEF Running, a
<1>4. CASE ~(LowOf(cs[i]) < s.active.low)
  BY <1>4 DEF Lowered
<1>. QED BY <1>3, <1>4

\* The candle of a running pullback's swing high.
LEMMA PeakFound ==
    ASSUME NEW cs, IsDay(cs), NEW q \in 1..Len(cs)
    PROVE  PeakAt(cs, cs[q].time) = q
<1>1. \E k \in 1..Len(cs) : cs[k].time = cs[q].time
  OBVIOUS
<1>2. PeakAt(cs, cs[q].time) \in 1..Len(cs) /\ cs[PeakAt(cs, cs[q].time)].time = cs[q].time
  BY <1>1 DEF PeakAt
<1>. QED BY <1>2, TimesAreUnique

\* Where the later swing high lies.
LEMMA LaterPeakIn ==
    ASSUME NEW cs, IsDay(cs), NEW i \in 1..Len(cs), NEW s, s.active \in Pull,
           NEW seg \in Nat \ {0}, s.seg = seg, seg <= i, Running(cs, s.active, seg, i)
    PROVE  LaterPeak(cs, s, i) \in seg..i
<1>1. PICK q \in seg..i : cs[q].time = s.active.peak
  BY DEF Running
<1>2. q \in 1..Len(cs) /\ i \in Int /\ i <= Len(cs)
  BY DayLength
<1>3. PeakAt(cs, Lowered(cs, s, i).peak) = q
  BY <1>1, <1>2, LoweredRuns, PeakFound
<1>. DEFINE from == i - Detector.lookback + 1
            m == IF q >= from THEN q ELSE from
<1>4. from \in Int /\ from <= i
  BY <1>2, DetectorFacts
<1>. HIDE DEF from
<1>5. m \in {seg, q, from} /\ \A y \in {seg, q, from} : m >= y
  BY <1>2, <1>4
<1>6. Max({seg, q, from}) \in {seg, q, from} /\ \A y \in {seg, q, from} : Max({seg, q, from}) >= y
  BY <1>5 DEF Max
<1>7. Max({seg, q, from}) \in Int /\ seg <= Max({seg, q, from}) /\ Max({seg, q, from}) <= i
  BY <1>2, <1>4, <1>6
<1>8. LaterPeak(cs, s, i) = HighestHigh(cs, Max({seg, q, from}), i)
  BY <1>3 DEF LaterPeak, from
<1>9. HighestHigh(cs, Max({seg, q, from}), i) \in Max({seg, q, from})..i
  <2>. DEFINE b == Max({seg, q, from})
  <2>1. b \in Int /\ 1 <= b /\ b <= i
    BY <1>7
  <2>. HIDE DEF b
  <2>2. HighestHigh(cs, b, i) \in b..i
    BY <1>2, <2>1, HighestHighIs
  <2>. QED BY <2>2 DEF b
<1>. QED BY <1>7, <1>8, <1>9

\* Following a pullback keeps the state in order.
LEMMA FollowOK ==
    ASSUME NEW cs, IsDay(cs), NEW i \in 1..Len(cs), NEW s, ScanOK(cs, s, i), s.active # NoPullback, NEW th
    PROVE  ScanOK(cs, Follow(cs, s, i, th), i)
<1>1. /\ s \in ScanStates /\ s.active \in Pull /\ s.seg \in Nat \ {0} /\ s.seg <= i /\ s.bars \in Nat
      /\ s.found \in Seq(Pull) /\ s.peak \in Nat \ {0} /\ s.wait \in Nat
      /\ Running(cs, s.active, s.seg, i) /\ Ended(cs, s.found, s.seg, i)
  BY DEF ScanOK, ScanStates
<1>. DEFINE a == Lowered(cs, s, i)
            t == Follow(cs, s, i, th)
<1>2. a \in Pull /\ Running(cs, a, s.seg, i) /\ a.peak = s.active.peak
  BY <1>1, LoweredRuns
<1>3. CASE Bars(cs, s, i, th) >= Detector.endBars
  <2>. DEFINE e == [a EXCEPT !.conf = cs[i].time]
  <2>1. e \in Pull /\ e.peak = a.peak /\ e.lowTime = a.lowTime /\ e.conf = cs[i].time
    <3>1. cs[i].time \in Nat
      BY CandleFacts
    <3>. HIDE DEF a
    <3>. QED BY <1>2, <3>1 DEF Pull
  <2>2. t = Reset(i, Append(s.found, e))
    BY <1>3, FollowIs
  <2>. HIDE DEF e, a
  <2>3. Append(s.found, e) \in Seq(Pull) /\ Ended(cs, Append(s.found, e), i, i)
    BY <1>1, <1>2, <2>1, ConfirmOK
  <2>4. /\ t.active = NoPullback /\ t.bars = 0 /\ t.wait = Detector.minBetween /\ t.seg = i /\ t.peak = i
        /\ t.found = Append(s.found, e)
    BY <2>2 DEF Reset
  <2>5. t \in ScanStates
    BY <2>2, <2>3, DetectorFacts DEF Reset, ScanStates
  <2>. HIDE DEF t
  <2>. QED BY <2>3, <2>4, <2>5 DEF ScanOK, t
<1>4. CASE ~(Bars(cs, s, i, th) >= Detector.endBars) /\ Extending(cs, s, i, th)
  <2>. DEFINE x == Extension(cs, s, i, th)
              p == LaterPeak(cs, s, i)
  <2>1. p \in s.seg..i
    BY <1>1, LaterPeakIn
  <2>2. x = FromPeak(cs, p, i, th.bp) /\ x # NoPullback
    BY <1>4 DEF Extending, Extension
  <2>3. t = [[s EXCEPT !.active = x] EXCEPT !.bars = 0]
    BY <1>4, FollowIs
  <2>. HIDE DEF x, p, t
  <2>4. p \in Int /\ 1 <= p /\ p <= i /\ i \in Int /\ i <= Len(cs)
    BY <1>1, <2>1, DayLength
  <2>5. x \in Pull /\ Running(cs, x, s.seg, i)
    <3>1. /\ x \in Pull /\ x.conf = 0 /\ x.peak = cs[p].time /\ x.lowTime <= cs[i].time
          /\ x.peak <= x.lowTime /\ (Detector.disallowSame => p < i /\ x.peak < x.lowTime)
      BY <2>2, <2>4, FromPeakIs
    <3>. QED BY <2>1, <3>1 DEF Running
  <2>6. t \in ScanStates /\ t.active = x /\ t.seg = s.seg /\ t.found = s.found
    BY <1>1, <2>3, <2>5 DEF ScanStates
  <2>. QED BY <1>1, <2>5, <2>6, NoneIsNoPull DEF ScanOK, t
<1>5. CASE ~(Bars(cs, s, i, th) >= Detector.endBars) /\ ~Extending(cs, s, i, th)
  <2>. DEFINE n == Bars(cs, s, i, th)
  <2>1. n \in Nat
    BY <1>1 DEF Bars
  <2>2. t = [[s EXCEPT !.active = a] EXCEPT !.bars = n]
    BY <1>5, FollowIs
  <2>. HIDE DEF n, a, t
  <2>3. t \in ScanStates /\ t.active = a /\ t.seg = s.seg /\ t.found = s.found
    BY <1>1, <1>2, <2>1, <2>2 DEF ScanStates
  <2>. QED BY <1>1, <1>2, <2>3, NoneIsNoPull DEF ScanOK, t
<1>. QED BY <1>3, <1>4, <1>5

\* A running pullback still runs a candle later.
LEMMA LaterOK ==
    ASSUME NEW cs, IsDay(cs), NEW i \in 1..Len(cs), NEW s, ScanOK(cs, s, i - 1), s.active # NoPullback
    PROVE  ScanOK(cs, s, i)
<1>2. /\ s \in ScanStates /\ s.active \in Pull /\ s.seg \in Nat \ {0} /\ (s.seg = 1 \/ s.seg <= i - 1)
      /\ Running(cs, s.active, s.seg, i - 1) /\ Ended(cs, s.found, s.seg, i - 1)
  BY DEF ScanOK, ScanStates
<1>3. i - 1 \in Nat /\ i \in Nat /\ i - 1 <= i
  OBVIOUS
<1>4. Ended(cs, s.found, s.seg, i)
  BY <1>2, <1>3, EndedLater
<1>5. PICK q \in s.seg..(i - 1) : cs[q].time = s.active.peak
  BY <1>2 DEF Running
<1>6. /\ s.seg \in Nat \ {0} /\ s.active.lowTime \in Nat
  BY <1>2 DEF ScanOK, ScanStates, Pull
<1>7. q \in s.seg..i /\ i - 1 \in 1..Len(cs) /\ i - 1 < i /\ s.seg <= i
  BY <1>5, <1>6
<1>8. cs[i - 1].time < cs[i].time /\ cs[i - 1].time \in Nat /\ cs[i].time \in Nat
  BY <1>7, TimesAreUnique, CandleFacts
<1>9. Running(cs, s.active, s.seg, i)
  <2>1. s.active.lowTime <= cs[i].time
    BY <1>2, <1>6, <1>8 DEF Running, ScanOK
  <2>. QED BY <1>5, <1>7, <2>1 DEF Running, ScanOK
<1>. QED BY <1>4, <1>7, <1>9 DEF ScanOK

\* Every step of the scan keeps its state in order.
LEMMA StepOK ==
    ASSUME NEW cs, IsDay(cs), NEW i \in 1..Len(cs), NEW s, ScanOK(cs, s, i - 1), NEW th
    PROVE  ScanOK(cs, ScanStep(cs, s, i, th), i)
<1>. DEFINE t == IF s.active = NoPullback THEN Seek(cs, s, i, th) ELSE s
<1>1. ScanOK(cs, t, i)
  <2>1. CASE s.active = NoPullback
    BY <2>1, SeekOK
  <2>2. CASE s.active # NoPullback
    <3>. QED BY <2>2, LaterOK
  <2>. QED BY <2>1, <2>2
<1>2. ScanStep(cs, s, i, th) = FollowActive(cs, t, i, th)
  BY DEF ScanStep
<1>. HIDE DEF t
<1>3. CASE t.active = NoPullback
  BY <1>1, <1>2, <1>3 DEF FollowActive
<1>4. CASE t.active # NoPullback
  BY <1>1, <1>2, <1>4, FollowOK DEF FollowActive
<1>. QED BY <1>3, <1>4

\* The states of a scan, one per candle: the recursion has a solution.
Scans(cs, th, n, st) ==
  st = [i \in 0..n |-> IF i = 0 THEN ScanStart ELSE ScanStep(cs, st[i - 1], i, th)]
States(cs, th) == CHOOSE st : Scans(cs, th, Len(cs), st)

\* The recursive function of the scan exists, and has these values.
LEMMA ScanExists ==
    ASSUME NEW cs, NEW th, NEW n \in Nat
    PROVE  \E st : Scans(cs, th, n, st)
<1>. DEFINE P == {k \in 0..n : \E st : Scans(cs, th, k, st)}
<1>1. 0 \in P
  <2>. DEFINE g == [i \in 0..0 |-> ScanStart]
  <2>1. Scans(cs, th, 0, g)
    BY DEF Scans
  <2>. QED BY <2>1
<1>2. ASSUME NEW k \in 1..n, k - 1 \in P
      PROVE  k \in P
  <2>1. PICK st : Scans(cs, th, k - 1, st)
    BY <1>2
  <2>. DEFINE g == [i \in 0..k |-> IF i = k THEN ScanStep(cs, st[k - 1], k, th) ELSE st[i]]
  <2>2. \A i \in 0..(k - 1) : g[i] = st[i]
    OBVIOUS
  <2>3. \A i \in 0..k : g[i] = IF i = 0 THEN ScanStart ELSE ScanStep(cs, g[i - 1], i, th)
    <3>. TAKE i \in 0..k
    <3>1. CASE i = k
      <4>1. g[i] = ScanStep(cs, st[k - 1], k, th) /\ g[k - 1] = st[k - 1]
        BY <2>2, <3>1
      <4>. HIDE DEF g
      <4>. QED BY <3>1, <4>1
    <3>2. CASE i # k
      <4>1. i \in 0..(k - 1) /\ (i # 0 => i - 1 \in 0..(k - 1))
        BY <3>2
      <4>2. st[i] = IF i = 0 THEN ScanStart ELSE ScanStep(cs, st[i - 1], i, th)
        BY <2>1, <4>1 DEF Scans
      <4>3. g[i] = st[i] /\ (i # 0 => g[i - 1] = st[i - 1])
        BY <2>2, <4>1
      <4>. HIDE DEF g
      <4>. QED BY <4>2, <4>3
    <3>. QED BY <3>1, <3>2
  <2>4. g = [i \in 0..k |-> g[i]]
    OBVIOUS
  <2>. HIDE DEF g
  <2>5. Scans(cs, th, k, g)
    BY <2>3, <2>4 DEF Scans
  <2>. QED BY <2>5
<1>3. n \in P
  <2>. HIDE DEF P
  <2>1. \A k \in 0..n : k \in P
    BY <1>1, <1>2, StepInduction
  <2>. QED BY <2>1
<1>. QED BY <1>3

\* What they are, one after the other.
LEMMA StatesAre ==
    ASSUME NEW cs, IsDay(cs), NEW th
    PROVE  /\ States(cs, th)[0] = ScanStart
           /\ \A i \in 1..Len(cs) : States(cs, th)[i] = ScanStep(cs, States(cs, th)[i - 1], i, th)
           /\ \A i \in 0..Len(cs) : ScanOK(cs, States(cs, th)[i], i)
           /\ Scan(cs, th) = States(cs, th)[Len(cs)]
           /\ Confirmed(cs, th) = States(cs, th)[Len(cs)].found
<1>. DEFINE n == Len(cs)
            st == States(cs, th)
<1>1. n \in Nat /\ n >= 1
  BY DayLength
<1>2. Scans(cs, th, n, st)
  <2>1. \E g : Scans(cs, th, n, g)
    BY <1>1, ScanExists
  <2>. QED BY <2>1 DEF States
<1>3. Scan(cs, th) = st[n]
  BY DEF Scan, States, Scans
<1>. HIDE DEF n, st
<1>4. st[0] = ScanStart /\ \A i \in 1..n : st[i] = ScanStep(cs, st[i - 1], i, th)
  <2>1. \A i \in 0..n : st[i] = IF i = 0 THEN ScanStart ELSE ScanStep(cs, st[i - 1], i, th)
    BY <1>2 DEF Scans
  <2>. QED BY <1>1, <2>1
<1>. DEFINE P == {i \in 0..n : ScanOK(cs, st[i], i)}
<1>5. 0 \in P
  BY <1>1, <1>4, StartOK
<1>6. ASSUME NEW i \in 1..n, i - 1 \in P
      PROVE  i \in P
  BY <1>4, <1>6, StepOK DEF n
<1>7. \A i \in 0..n : i \in P
  <2>. HIDE DEF P
  <2>. QED BY <1>1, <1>5, <1>6, StepInduction
<1>8. cs # << >>
  BY <1>1 DEF n
<1>9. Confirmed(cs, th) = st[n].found
  BY <1>3, <1>8 DEF Confirmed
<1>. QED BY <1>3, <1>4, <1>7, <1>9 DEF n, st

----------------------------------------------------------------------------
(* A scan of a part of the candles: nothing depends on where they begin or on *)
(* what comes later.                                                          *)
Part(ds, cs, k) ==
  /\ IsDay(ds) /\ IsDay(cs) /\ k \in Nat /\ Len(ds) + k <= Len(cs)
  /\ \A i \in 1..Len(ds) : ds[i] = cs[i + k]

\* A shift does not change how many there are.
LEMMA ShiftCardinality ==
    ASSUME NEW A \in SUBSET Int, NEW B \in SUBSET Int, NEW k \in Int, IsFiniteSet(A),
           \A i \in A : i + k \in B, \A j \in B : j - k \in A
    PROVE  Cardinality(B) = Cardinality(A)
<1>. DEFINE f == [i \in A |-> i + k]
<1>1. f \in [A -> B] /\ \A i \in A : f[i] = i + k
  OBVIOUS
<1>. HIDE DEF f
<1>2. \A i, j \in A : f[i] = f[j] => i = j
  BY <1>1
<1>3. \A j \in B : \E i \in A : f[i] = j
  <2>. TAKE j \in B
  <2>1. j - k \in A /\ f[j - k] = (j - k) + k /\ j \in Int
    BY <1>1
  <2>. QED BY <2>1
<1>4. f \in Bijection(A, B)
  BY <1>1, <1>2, <1>3 DEF Bijection, Injection, IsInjective, Surjection
<1>. QED BY <1>4, FS_Bijection DEF ExistsBijection

\* The candles of the part.
LEMMA PartFacts ==
    ASSUME NEW ds, NEW cs, NEW k, Part(ds, cs, k)
    PROVE  /\ IsDay(ds) /\ IsDay(cs) /\ k \in Nat /\ Len(ds) \in Nat /\ Len(cs) \in Nat
           /\ Len(ds) + k <= Len(cs)
           /\ \A i \in 1..Len(ds) : ds[i] = cs[i + k] /\ i + k \in 1..Len(cs)
<1>1. IsDay(ds) /\ IsDay(cs) /\ k \in Nat /\ Len(ds) + k <= Len(cs)
  BY DEF Part
<1>2. Len(ds) \in Nat /\ Len(cs) \in Nat
  BY <1>1, DayLength
<1>. QED BY <1>1, <1>2 DEF Part

\* The highest candle of a part is the highest of the whole there.
LEMMA PartHighest ==
    ASSUME NEW ds, NEW cs, NEW k, Part(ds, cs, k), NEW a \in Int, NEW b \in Int, 1 <= a, a <= b, b <= Len(ds)
    PROVE  /\ HighestHigh(cs, a + k, b + k) = HighestHigh(ds, a, b) + k
           /\ HighestHigh(ds, a, b) \in a..b
<1>. DEFINE h == HighestHigh(ds, a, b)
<1>0. k \in Nat /\ Len(ds) \in Nat /\ Len(cs) \in Nat /\ Len(ds) + k <= Len(cs) /\ IsDay(ds) /\ IsDay(cs)
  BY PartFacts
<1>1. IsHighest(ds, a, b, h) /\ h \in a..b
  BY <1>0, HighestHighIs
<1>. HIDE DEF h
<1>2. ds[h] = cs[h + k]
  BY <1>0, <1>1, PartFacts
<1>3. ASSUME NEW j \in (a + k)..(b + k)
      PROVE  cs[j].high < cs[h + k].high \/ (cs[j].high = cs[h + k].high /\ h + k <= j)
  <2>1. j - k \in a..b /\ j \in Int /\ (j - k) + k = j /\ j - k \in 1..Len(ds)
    BY <1>0
  <2>2. ds[j - k].high < ds[h].high \/ (ds[j - k].high = ds[h].high /\ h <= j - k)
    BY <1>1, <2>1 DEF IsHighest
  <2>3. ds[j - k] = cs[j]
    BY <2>1, PartFacts
  <2>. QED BY <1>0, <1>1, <1>2, <2>1, <2>2, <2>3
<1>4. h + k \in (a + k)..(b + k)
  BY <1>0, <1>1
<1>5. IsHighest(cs, a + k, b + k, h + k)
  BY <1>3, <1>4 DEF IsHighest
<1>6. a + k \in Int /\ b + k \in Int /\ 1 <= a + k /\ a + k <= b + k /\ b + k <= Len(cs)
  BY <1>0
<1>7. h + k = HighestHigh(cs, a + k, b + k)
  BY <1>0, <1>5, <1>6, HighestHighIs
<1>. QED BY <1>1, <1>7 DEF h

\* So is the lowest one,
LEMMA PartLowest ==
    ASSUME NEW ds, NEW cs, NEW k, Part(ds, cs, k), NEW a \in Int, NEW b \in Int, 1 <= a, a <= b, b <= Len(ds)
    PROVE  /\ LowestLow(cs, a + k, b + k) = LowestLow(ds, a, b) + k
           /\ LowestLow(ds, a, b) \in a..b
<1>. DEFINE l == LowestLow(ds, a, b)
<1>0. k \in Nat /\ Len(ds) \in Nat /\ Len(cs) \in Nat /\ Len(ds) + k <= Len(cs) /\ IsDay(ds) /\ IsDay(cs)
  BY PartFacts
<1>1. IsLowest(ds, a, b, l) /\ l \in a..b
  BY <1>0, LowestLowIs
<1>. HIDE DEF l
<1>2. ds[l] = cs[l + k]
  BY <1>0, <1>1, PartFacts
<1>3. ASSUME NEW j \in (a + k)..(b + k)
      PROVE  LowOf(cs[j]) > LowOf(cs[l + k]) \/ (LowOf(cs[j]) = LowOf(cs[l + k]) /\ j <= l + k)
  <2>1. j - k \in a..b /\ j \in Int /\ (j - k) + k = j /\ j - k \in 1..Len(ds)
    BY <1>0
  <2>2. LowOf(ds[j - k]) > LowOf(ds[l]) \/ (LowOf(ds[j - k]) = LowOf(ds[l]) /\ j - k <= l)
    BY <1>1, <2>1 DEF IsLowest
  <2>3. ds[j - k] = cs[j]
    BY <2>1, PartFacts
  <2>. QED BY <1>0, <1>1, <1>2, <2>1, <2>2, <2>3
<1>4. l + k \in (a + k)..(b + k)
  BY <1>0, <1>1
<1>5. IsLowest(cs, a + k, b + k, l + k)
  BY <1>3, <1>4 DEF IsLowest
<1>6. a + k \in Int /\ b + k \in Int /\ 1 <= a + k /\ a + k <= b + k /\ b + k <= Len(cs)
  BY <1>0
<1>7. l + k = LowestLow(cs, a + k, b + k)
  BY <1>0, <1>5, <1>6, LowestLowIs
<1>. QED BY <1>1, <1>7 DEF l

\* the bearish leg,
LEMMA PartLeg ==
    ASSUME NEW ds, NEW cs, NEW k, Part(ds, cs, k), NEW a \in Int, NEW b \in Int, 2 <= a, b <= Len(ds)
    PROVE  BearishLeg(cs, a + k, b + k) <=> BearishLeg(ds, a, b)
<1>0. k \in Nat /\ Len(ds) \in Nat /\ Len(cs) \in Nat /\ Len(ds) + k <= Len(cs)
  BY PartFacts
<1>1. ASSUME NEW i \in a..b
      PROVE  /\ i + k \in (a + k)..(b + k)
             /\ Bearish(cs[i + k]) <=> Bearish(ds[i])
             /\ LowerClose(cs, i + k) <=> LowerClose(ds, i)
  <2>1. i \in Int /\ i \in 1..Len(ds) /\ i - 1 \in 1..Len(ds) /\ (i + k) - 1 = (i - 1) + k /\ i > 1 /\ i + k > 1
        /\ i + k \in (a + k)..(b + k)
    BY <1>0
  <2>2. ds[i] = cs[i + k] /\ ds[i - 1] = cs[(i - 1) + k]
    BY <2>1, PartFacts
  <2>. QED BY <2>1, <2>2 DEF LowerClose
<1>2. \A j \in (a + k)..(b + k) : j - k \in a..b /\ j \in Int /\ (j - k) + k = j
  BY <1>0
<1>. DEFINE bearish == {i \in a..b : Bearish(ds[i])}
            bearishK == {i \in (a + k)..(b + k) : Bearish(cs[i])}
            lower == {i \in a..b : LowerClose(ds, i)}
            lowerK == {i \in (a + k)..(b + k) : LowerClose(cs, i)}
<1>3. IsFiniteSet(a..b)
  BY FS_Interval
<1>4. Cardinality(bearishK) = Cardinality(bearish)
  <2>1. /\ bearish \in SUBSET (a..b) /\ bearish \in SUBSET Int /\ bearishK \in SUBSET Int
        /\ \A i \in bearish : i + k \in bearishK
    BY <1>1
  <2>2. \A j \in bearishK : j - k \in bearish
    <3>. TAKE j \in bearishK
    <3>1. j - k \in a..b /\ (j - k) + k = j /\ Bearish(cs[j])
      BY <1>2
    <3>. QED BY <1>1, <3>1
  <2>. HIDE DEF bearish, bearishK
  <2>3. IsFiniteSet(bearish)
    BY <1>3, <2>1, FS_Subset
  <2>. QED BY <1>0, <2>1, <2>2, <2>3, ShiftCardinality
<1>5. Cardinality(lowerK) = Cardinality(lower)
  <2>1. /\ lower \in SUBSET (a..b) /\ lower \in SUBSET Int /\ lowerK \in SUBSET Int
        /\ \A i \in lower : i + k \in lowerK
    BY <1>1
  <2>2. \A j \in lowerK : j - k \in lower
    <3>. TAKE j \in lowerK
    <3>1. j - k \in a..b /\ (j - k) + k = j /\ LowerClose(cs, j)
      BY <1>2
    <3>. QED BY <1>1, <3>1
  <2>. HIDE DEF lower, lowerK
  <2>3. IsFiniteSet(lower)
    BY <1>3, <2>1, FS_Subset
  <2>. QED BY <1>0, <2>1, <2>2, <2>3, ShiftCardinality
<1>. QED BY <1>4, <1>5 DEF BearishLeg

\* and the pullback from a swing high.
LEMMA PartFromPeak ==
    ASSUME NEW ds, NEW cs, NEW k, Part(ds, cs, k), NEW p \in Int, NEW e \in Int, 1 <= p, p <= e, e <= Len(ds), NEW bp
    PROVE  FromPeak(cs, p + k, e + k, bp) = FromPeak(ds, p, e, bp)
<1>0. k \in Nat /\ Len(ds) \in Nat /\ Len(cs) \in Nat /\ Len(ds) + k <= Len(cs)
  BY PartFacts
<1>. DEFINE from == IF Detector.disallowSame \/ p < e THEN p + 1 ELSE p
            fromK == IF Detector.disallowSame \/ p + k < e + k THEN (p + k) + 1 ELSE p + k
            l == LowestLow(ds, from, e)
            lK == LowestLow(cs, fromK, e + k)
<1>1. /\ from \in Int /\ 1 <= from /\ fromK = from + k /\ (from <= e <=> fromK <= e + k)
  BY <1>0
<1>2. CASE ~(from <= e)
  <2>1. FromPeak(ds, p, e, bp) = NoPullback
    BY <1>2 DEF FromPeak
  <2>2. FromPeak(cs, p + k, e + k, bp) = NoPullback
    BY <1>1, <1>2 DEF FromPeak
  <2>. QED BY <2>1, <2>2
<1>3. CASE from <= e
  <2>. HIDE DEF from, fromK
  <2>1. lK = l + k /\ l \in from..e
    BY <1>1, <1>3, PartLowest
  <2>. HIDE DEF l, lK
  <2>2. l \in Int /\ l \in 1..Len(ds) /\ p \in 1..Len(ds) /\ l <= Len(ds) /\ p + 1 \in Int /\ 2 <= p + 1
        /\ (p + k) + 1 = (p + 1) + k
    BY <1>0, <1>1, <2>1
  <2>3. cs[lK] = ds[l] /\ cs[p + k] = ds[p]
    <3>1. \A i \in 1..Len(ds) : ds[i] = cs[i + k]
      BY PartFacts
    <3>. QED BY <2>1, <2>2, <3>1
  <2>4. BearishLeg(cs, (p + k) + 1, lK) <=> BearishLeg(ds, p + 1, l)
    <3>. DEFINE q == p + 1
    <3>1. q \in Int /\ 2 <= q
      BY <2>2
    <3>. HIDE DEF q
    <3>2. BearishLeg(cs, q + k, l + k) <=> BearishLeg(ds, q, l)
      BY <2>2, <3>1, PartLeg
    <3>. QED BY <2>1, <2>2, <3>2 DEF q
  <2>. DEFINE legK == BearishLeg(cs, (p + k) + 1, lK)
              leg == BearishLeg(ds, p + 1, l)
  <2>5. FromPeak(ds, p, e, bp) =
          IF /\ ds[p].high > 0 /\ from <= e
             /\ Detector.requireLeg => leg
             /\ Detector.impulseFilter /\ Bullish(ds[l]) => leg
             /\ LowOf(ds[l]) < ds[p].high
             /\ Declined(ds[p].high, LowOf(ds[l]), bp)
          THEN [peak |-> ds[p].time, high |-> ds[p].high,
                lowTime |-> ds[l].time, low |-> LowOf(ds[l]), conf |-> 0]
          ELSE NoPullback
    BY DEF FromPeak, from, l
  <2>6. FromPeak(cs, p + k, e + k, bp) =
          IF /\ cs[p + k].high > 0 /\ fromK <= e + k
             /\ Detector.requireLeg => legK
             /\ Detector.impulseFilter /\ Bullish(cs[lK]) => legK
             /\ LowOf(cs[lK]) < cs[p + k].high
             /\ Declined(cs[p + k].high, LowOf(cs[lK]), bp)
          THEN [peak |-> cs[p + k].time, high |-> cs[p + k].high,
                lowTime |-> cs[lK].time, low |-> LowOf(cs[lK]), conf |-> 0]
          ELSE NoPullback
    BY DEF FromPeak, fromK, lK
  <2>7. legK <=> leg
    BY <2>4
  <2>. HIDE DEF leg, legK
  <2>. QED BY <1>1, <2>3, <2>5, <2>6, <2>7
<1>. QED BY <1>2, <1>3

\* The scan of the part is that of the whole, moved.
Shifted(s, t, k, before) ==
  /\ s \in ScanStates /\ t \in ScanStates /\ before \in Seq(Pull)
  /\ t.active = s.active /\ t.bars = s.bars /\ t.wait = s.wait
  /\ t.seg = s.seg + k /\ t.peak = s.peak + k
  /\ t.found = before \o s.found

\* A field of both is changed in the same way.
LEMMA ShiftedWith ==
    ASSUME NEW s, NEW t, NEW k, NEW before, Shifted(s, t, k, before)
    PROVE  /\ \A w \in Nat : Shifted([s EXCEPT !.wait = w], [t EXCEPT !.wait = w], k, before)
           /\ \A n \in Nat : Shifted([s EXCEPT !.bars = n], [t EXCEPT !.bars = n], k, before)
           /\ \A a \in Pull \cup {NoPullback} :
                Shifted([s EXCEPT !.active = a], [t EXCEPT !.active = a], k, before)
           /\ \A p, q \in Nat \ {0} : q = p + k => Shifted([s EXCEPT !.peak = p], [t EXCEPT !.peak = q], k, before)
<1>1. ASSUME NEW w \in Nat
      PROVE  Shifted([s EXCEPT !.wait = w], [t EXCEPT !.wait = w], k, before)
  BY DEF Shifted, ScanStates
<1>2. ASSUME NEW n \in Nat
      PROVE  Shifted([s EXCEPT !.bars = n], [t EXCEPT !.bars = n], k, before)
  BY DEF Shifted, ScanStates
<1>3. ASSUME NEW a \in Pull \cup {NoPullback}
      PROVE  Shifted([s EXCEPT !.active = a], [t EXCEPT !.active = a], k, before)
  BY DEF Shifted, ScanStates
<1>4. ASSUME NEW p \in Nat \ {0}, NEW q \in Nat \ {0}, q = p + k
      PROVE  Shifted([s EXCEPT !.peak = p], [t EXCEPT !.peak = q], k, before)
  BY <1>4 DEF Shifted, ScanStates
<1>. QED BY <1>1, <1>2, <1>3, <1>4

\* The greatest of three ...
LEMMA MaxOfThree ==
    ASSUME NEW x \in Int, NEW y \in Int, NEW z \in Int
    PROVE  Max({x, y, z}) = IF x >= y /\ x >= z THEN x ELSE IF y >= z THEN y ELSE z
<1>. DEFINE n == IF x >= y /\ x >= z THEN x ELSE IF y >= z THEN y ELSE z
            N == Max({x, y, z})
<1>1. n \in {x, y, z} /\ \A u \in {x, y, z} : n >= u
  OBVIOUS
<1>. HIDE DEF n
<1>2. N \in {x, y, z} /\ \A u \in {x, y, z} : N >= u
  BY <1>1 DEF Max
<1>3. N \in Int /\ n \in Int /\ N >= n /\ n >= N
  BY <1>1, <1>2
<1>. HIDE DEF N
<1>. QED BY <1>3 DEF n, N

\* ... moved.
Top2(a, b) == Max({a, b})
Top3(a, b, c) == Max({a, b, c})

\* Where the search for the swing high begins, moves along.
LEMMA TopMoves ==
    ASSUME NEW a \in Int, NEW b \in Int, NEW c \in Int, NEW k \in Int
    PROVE  Top3(a + k, b + k, c + k) = Top3(a, b, c) + k
<1>. DEFINE aK == a + k
            bK == b + k
            cK == c + k
<1>1. aK \in Int /\ bK \in Int /\ cK \in Int /\ aK = a + k /\ bK = b + k /\ cK = c + k
  OBVIOUS
<1>. HIDE DEF aK, bK, cK
<1>2. /\ Max({a, b, c}) = IF a >= b /\ a >= c THEN a ELSE IF b >= c THEN b ELSE c
      /\ Max({aK, bK, cK}) = IF aK >= bK /\ aK >= cK THEN aK ELSE IF bK >= cK THEN bK ELSE cK
  BY <1>1, MaxOfThree
<1>3. (aK >= bK <=> a >= b) /\ (aK >= cK <=> a >= c) /\ (bK >= cK <=> b >= c)
  BY <1>1
<1>4. Max({aK, bK, cK}) = Max({a, b, c}) + k
  BY <1>1, <1>2, <1>3
<1>. QED BY <1>4 DEF Top3, aK, bK, cK

\* The same with a pullback that is followed.
LEMMA TopOfTwoMoves ==
    ASSUME NEW a \in Int, NEW b \in Int, NEW k \in Int
    PROVE  Top2(a + k, b + k) = Top2(a, b) + k
<1>1. {a, b} = {a, b, b} /\ {a + k, b + k} = {a + k, b + k, b + k}
  OBVIOUS
<1>2. Top3(a + k, b + k, b + k) = Top3(a, b, b) + k
  BY TopMoves
<1>. QED BY <1>1, <1>2 DEF Top2, Top3

\* The greatest of three is no less than each of them, and is one of them.
LEMMA TopBounds ==
    ASSUME NEW a \in Int, NEW b \in Int, NEW c \in Int, NEW i \in Int, a <= i, b <= i, c <= i
    PROVE  Top3(a, b, c) \in Int /\ a <= Top3(a, b, c) /\ Top3(a, b, c) <= i
<1>1. Top3(a, b, c) = IF a >= b /\ a >= c THEN a ELSE IF b >= c THEN b ELSE c
  BY MaxOfThree DEF Top3
<1>. QED BY <1>1

\* The reach of the search, moved.
LEMMA ReachMoves ==
    ASSUME NEW i \in Int, NEW k \in Int
    PROVE  /\ i - Detector.lookback + 1 \in Int /\ i - Detector.lookback + 1 <= i
           /\ (i + k) - Detector.lookback + 1 = (i - Detector.lookback + 1) + k
<1>1. PICK n \in Int : n = Detector.lookback /\ n >= 1
  BY DetectorFacts
<1>. QED BY <1>1

\* To append to two sequences is to append to the second.
LEMMA AppendOfConcat ==
    ASSUME NEW u \in Seq(Pull), NEW v \in Seq(Pull), NEW e \in Pull, NEW w, w = Append(v, e)
    PROVE  Append(u \o v, e) = u \o w
<1>1. <<e>> \in Seq(Pull) /\ u \o v \in Seq(Pull)
  BY ConcatProperties
<1>2. Append(u \o v, e) = (u \o v) \o <<e>> /\ w = v \o <<e>>
  BY <1>1, AppendIsConcat
<1>3. (u \o v) \o <<e>> = u \o (v \o <<e>>)
  BY <1>1, ConcatAssociative
<1>. QED BY <1>2, <1>3

\* A swing high needs at most one candle after it, and its low is another candle:
\* then the last candle of a history is no exception.
Settled == Detector.disallowSame /\ Detector.swingConfirm <= 1

\* The part and the whole find the same swing high.
LEMMA PartSeek ==
    ASSUME NEW ds, NEW cs, NEW k, Part(ds, cs, k), NEW i \in 1..Len(ds),
           (i < Len(ds) <=> i + k < Len(cs)) \/ Settled,
           NEW s, ScanOK(ds, s, i - 1), s.active = NoPullback, NEW t, NEW before, Shifted(s, t, k, before), NEW th
    PROVE  Shifted(Seek(ds, s, i, th), Seek(cs, t, i + k, th), k, before)
<1>0. k \in Nat /\ Len(ds) \in Nat /\ Len(cs) \in Nat /\ Len(ds) + k <= Len(cs) /\ IsDay(ds)
  BY PartFacts
<1>1. /\ s \in ScanStates /\ t \in ScanStates /\ before \in Seq(Pull)
      /\ s.seg \in Nat \ {0} /\ s.seg <= i /\ s.wait \in Nat /\ t.wait = s.wait /\ t.seg = s.seg + k
  BY DEF ScanOK, ScanStates, Shifted
<1>. DEFINE from == i - Detector.lookback + 1
            fromK == (i + k) - Detector.lookback + 1
            b == Max({s.seg, from})
            bK == Max({t.seg, fromK})
            p == HighestHigh(ds, b, i)
            pK == HighestHigh(cs, bK, i + k)
            a == FromPeak(ds, p, i, th.bp)
            aK == FromPeak(cs, pK, i + k, th.bp)
<1>2. bK = b + k
  <2>1. i \in Int /\ s.seg \in Int /\ k \in Int
    BY <1>0, <1>1
  <2>2. from \in Int /\ fromK = from + k
    BY <2>1, ReachMoves
  <2>. HIDE DEF from, fromK
  <2>3. Top2(s.seg + k, from + k) = Top2(s.seg, from) + k
    BY <2>1, <2>2, TopOfTwoMoves
  <2>4. b = Top2(s.seg, from) /\ bK = Top2(t.seg, fromK)
    BY DEF Top2
  <2>. HIDE DEF b, bK
  <2>. QED BY <1>1, <2>2, <2>3, <2>4
<1>3. b \in Int /\ s.seg <= b /\ b <= i
  <2>. HIDE DEF b
  <2>1. b = Max({s.seg, i - Detector.lookback + 1})
    BY DEF b
  <2>. QED BY <1>0, <1>1, <2>1, WindowStart
<1>. HIDE DEF b, bK
<1>4. i \in Int /\ 1 <= b /\ i <= Len(ds)
  BY <1>1, <1>3
<1>5. pK = p + k /\ p \in b..i
  BY <1>2, <1>3, <1>4, PartHighest
<1>. HIDE DEF p, pK
<1>6. p \in Int /\ 1 <= p /\ p <= i /\ (i + k) - pK = i - p /\ pK \in Nat \ {0} /\ p \in Nat \ {0}
  BY <1>0, <1>3, <1>4, <1>5
<1>7. aK = a
  BY <1>4, <1>5, <1>6, PartFromPeak
<1>8. a \in Pull \cup {NoPullback}
  <2>1. a = FromPeak(ds, p, i, th.bp)
    OBVIOUS
  <2>. HIDE DEF a
  <2>. QED BY <1>0, <1>4, <1>6, <2>1, FromPeakIs
<1>. DEFINE waits == i - p < Detector.swingConfirm /\ i < Len(ds)
            waitsK == (i + k) - pK < Detector.swingConfirm /\ i + k < Len(cs)
            x == IF waits THEN NoPullback ELSE a
            xK == IF waitsK THEN NoPullback ELSE aK
<1>9. /\ Seek(ds, s, i, th) = IF s.wait > 0 THEN [s EXCEPT !.wait = @ - 1]
                              ELSE IF waits THEN [s EXCEPT !.peak = p]
                              ELSE [[s EXCEPT !.peak = p] EXCEPT !.active = a]
      /\ Seek(cs, t, i + k, th) = IF t.wait > 0 THEN [t EXCEPT !.wait = @ - 1]
                                  ELSE IF waitsK THEN [t EXCEPT !.peak = pK]
                                  ELSE [[t EXCEPT !.peak = pK] EXCEPT !.active = aK]
  BY DEF Seek, p, pK, b, bK
<1>10. x = xK /\ x \in Pull \cup {NoPullback}
  <2>1. CASE Settled /\ i - p < Detector.swingConfirm
    <3>1. p = i /\ Detector.disallowSame
      BY <1>6, <2>1, DetectorFacts DEF Settled
    <3>2. a = NoPullback
      <4>1. a = FromPeak(ds, p, i, th.bp)
        OBVIOUS
      <4>. HIDE DEF a
      <4>. QED BY <1>0, <1>4, <1>6, <3>1, <4>1, FromPeakIs
    <3>. HIDE DEF a, aK
    <3>. QED BY <1>7, <3>2
  <2>2. CASE ~(Settled /\ i - p < Detector.swingConfirm)
    <3>1. waits <=> waitsK
      BY <1>6, <2>2
    <3>. HIDE DEF a, aK, waits, waitsK
    <3>. QED BY <1>7, <1>8, <3>1
  <2>. QED BY <2>1, <2>2
<1>. HIDE DEF a, aK, waits, waitsK
<1>11. CASE s.wait > 0
  <2>1. Seek(ds, s, i, th) = [s EXCEPT !.wait = @ - 1] /\ Seek(cs, t, i + k, th) = [t EXCEPT !.wait = @ - 1]
    BY <1>1, <1>9, <1>11
  <2>2. PICK w \in Nat : w = s.wait - 1 /\ w = t.wait - 1
    BY <1>1, <1>11
  <2>3. Seek(ds, s, i, th) = [s EXCEPT !.wait = w] /\ Seek(cs, t, i + k, th) = [t EXCEPT !.wait = w]
    BY <2>1, <2>2
  <2>. QED BY <2>2, <2>3, ShiftedWith
<1>12. CASE ~(s.wait > 0)
  <2>1. s.active = NoPullback /\ t.active = NoPullback /\ s \in ScanStates /\ t \in ScanStates
    BY DEF Shifted
  <2>2. /\ Seek(ds, s, i, th) = [[s EXCEPT !.peak = p] EXCEPT !.active = x]
        /\ Seek(cs, t, i + k, th) = [[t EXCEPT !.peak = pK] EXCEPT !.active = xK]
    <3>1. /\ [s EXCEPT !.peak = p] = [[s EXCEPT !.peak = p] EXCEPT !.active = NoPullback]
          /\ [t EXCEPT !.peak = pK] = [[t EXCEPT !.peak = pK] EXCEPT !.active = NoPullback]
      BY <2>1 DEF ScanStates
    <3>2. ~(t.wait > 0)
      BY <1>1, <1>12
    <3>. QED BY <1>9, <1>12, <3>1, <3>2
  <2>. HIDE DEF x, xK
  <2>3. Shifted([s EXCEPT !.peak = p], [t EXCEPT !.peak = pK], k, before)
    BY <1>5, <1>6, ShiftedWith
  <2>4. Shifted([[s EXCEPT !.peak = p] EXCEPT !.active = x], [[t EXCEPT !.peak = pK] EXCEPT !.active = x], k, before)
    BY <1>10, <2>3, ShiftedWith
  <2>. QED BY <1>10, <2>2, <2>4
<1>. QED BY <1>11, <1>12

\* And they follow the same pullback.
LEMMA PartFollow ==
    ASSUME NEW ds, NEW cs, NEW k, Part(ds, cs, k), NEW i \in 1..Len(ds),
           NEW s, ScanOK(ds, s, i), s.active # NoPullback, NEW t, NEW before, Shifted(s, t, k, before), NEW th
    PROVE  Shifted(Follow(ds, s, i, th), Follow(cs, t, i + k, th), k, before)
<1>0. k \in Nat /\ Len(ds) \in Nat /\ Len(cs) \in Nat /\ Len(ds) + k <= Len(cs) /\ IsDay(ds) /\ IsDay(cs)
  BY PartFacts
<1>1. /\ s \in ScanStates /\ t \in ScanStates /\ before \in Seq(Pull)
      /\ s.seg \in Nat \ {0} /\ s.seg <= i /\ t.seg = s.seg + k /\ t.active = s.active /\ t.bars = s.bars
      /\ t.found = before \o s.found /\ s.active \in Pull /\ Running(ds, s.active, s.seg, i) /\ s.bars \in Nat
      /\ s.found \in Seq(Pull)
  BY DEF ScanOK, ScanStates, Shifted
<1>2. cs[i + k] = ds[i] /\ i + k \in 1..Len(cs) /\ i \in Int /\ i <= Len(ds)
  <2>1. \A j \in 1..Len(ds) : ds[j] = cs[j + k] /\ j + k \in 1..Len(cs)
    BY PartFacts
  <2>. QED BY <1>0, <2>1
<1>3. Lowered(cs, t, i + k) = Lowered(ds, s, i)
  BY <1>1, <1>2 DEF Lowered
<1>4. Bars(cs, t, i + k, th) = Bars(ds, s, i, th)
  BY <1>1, <1>2, <1>3 DEF Bars, Recovers
<1>. DEFINE a == Lowered(ds, s, i)
<1>5. a \in Pull /\ Running(ds, a, s.seg, i) /\ a.peak = s.active.peak
  BY <1>0, <1>1, LoweredRuns
<1>6. PICK q \in s.seg..i : ds[q].time = a.peak
  BY <1>5 DEF Running
<1>7. q \in 1..Len(ds) /\ q \in Int /\ q + k \in 1..Len(cs) /\ cs[q + k].time = a.peak
  <2>1. \A j \in 1..Len(ds) : ds[j] = cs[j + k] /\ j + k \in 1..Len(cs)
    BY PartFacts
  <2>2. q \in 1..Len(ds) /\ q \in Int
    BY <1>1, <1>2
  <2>. QED BY <1>6, <2>1, <2>2
<1>8. PeakAt(ds, a.peak) = q /\ PeakAt(cs, a.peak) = q + k
  <2>1. PeakAt(ds, ds[q].time) = q /\ PeakAt(cs, cs[q + k].time) = q + k
    BY <1>0, <1>7, PeakFound
  <2>. QED BY <1>6, <1>7, <2>1
<1>9. LaterPeak(ds, s, i) \in s.seg..i
  BY <1>0, <1>1, LaterPeakIn
<1>. DEFINE from == i - Detector.lookback + 1
            fromK == (i + k) - Detector.lookback + 1
            b == Max({s.seg, q, from})
            bK == Max({t.seg, q + k, fromK})
            p == LaterPeak(ds, s, i)
            pK == LaterPeak(cs, t, i + k)
<1>10. /\ p = HighestHigh(ds, b, i)
       /\ pK = HighestHigh(cs, bK, i + k)
  BY <1>3, <1>8 DEF LaterPeak
<1>11. bK = b + k /\ b \in Int /\ s.seg <= b /\ b <= i
  <2>0. i \in Int /\ s.seg \in Int /\ k \in Int
    BY <1>0, <1>1
  <2>1. from \in Int /\ fromK = from + k /\ from <= i
    BY <2>0, ReachMoves
  <2>. HIDE DEF from, fromK
  <2>2. b = Top3(s.seg, q, from) /\ bK = Top3(t.seg, q + k, fromK)
    BY DEF Top3
  <2>. HIDE DEF b, bK
  <2>3. q \in Int /\ q <= i /\ s.seg <= i
    BY <1>1, <1>6, <1>7
  <2>4. Top3(s.seg + k, q + k, from + k) = Top3(s.seg, q, from) + k
    <3>. DEFINE x == s.seg
    <3>1. x \in Int /\ q \in Int /\ from \in Int /\ k \in Int
      BY <2>0, <2>1, <2>3
    <3>. HIDE DEF x
    <3>2. Top3(x + k, q + k, from + k) = Top3(x, q, from) + k
      BY <3>1, TopMoves
    <3>. QED BY <3>2 DEF x
  <2>5. Top3(s.seg, q, from) \in Int /\ s.seg <= Top3(s.seg, q, from) /\ Top3(s.seg, q, from) <= i
    BY <2>0, <2>1, <2>3, TopBounds
  <2>. QED BY <1>1, <2>1, <2>2, <2>4, <2>5
<1>. HIDE DEF b, bK, p, pK
<1>12. pK = p + k /\ p \in b..i
  <2>1. 1 <= b
    BY <1>1, <1>11
  <2>. QED BY <1>2, <1>10, <1>11, <2>1, PartHighest
<1>13. p \in Int /\ 1 <= p /\ p <= i /\ (pK # i + k <=> p # i) /\ p \in 1..Len(ds)
  <2>1. p \in Int /\ 1 <= p /\ p <= i
    BY <1>1, <1>11, <1>12
  <2>. QED BY <1>0, <1>2, <1>12, <2>1
<1>14. cs[pK] = ds[p]
  <2>1. \A j \in 1..Len(ds) : ds[j] = cs[j + k]
    BY PartFacts
  <2>. QED BY <1>12, <1>13, <2>1
<1>15. Extension(cs, t, i + k, th) = Extension(ds, s, i, th)
  <2>1. FromPeak(cs, p + k, i + k, th.bp) = FromPeak(ds, p, i, th.bp)
    BY <1>2, <1>13, PartFromPeak
  <2>. QED BY <1>12, <2>1 DEF Extension, p, pK
<1>16. Extending(cs, t, i + k, th) <=> Extending(ds, s, i, th)
  BY <1>3, <1>13, <1>14, <1>15 DEF Extending, p, pK
<1>17. CASE Bars(ds, s, i, th) >= Detector.endBars
  <2>. DEFINE e == [a EXCEPT !.conf = ds[i].time]
  <2>1. /\ Follow(ds, s, i, th) = Reset(i, Append(s.found, e))
        /\ Follow(cs, t, i + k, th) = Reset(i + k, Append(t.found, e))
    BY <1>2, <1>3, <1>4, <1>17, FollowIs
  <2>2. e \in Pull
    <3>1. ds[i].time \in Nat
      BY <1>0, CandleFacts
    <3>. HIDE DEF a
    <3>. QED BY <1>5, <3>1 DEF Pull
  <2>. HIDE DEF e
  <2>3. /\ Append(s.found, e) \in Seq(Pull) /\ t.found \in Seq(Pull) /\ Append(t.found, e) \in Seq(Pull)
        /\ Append(t.found, e) = before \o Append(s.found, e)
    <3>1. t.found \in Seq(Pull)
      BY <1>1 DEF ScanStates
    <3>2. Append(before \o s.found, e) = before \o Append(s.found, e)
      <4>. DEFINE v == s.found
                  w == Append(s.found, e)
      <4>1. before \in Seq(Pull) /\ v \in Seq(Pull) /\ w = Append(v, e)
        BY <1>1
      <4>. HIDE DEF v, w
      <4>2. Append(before \o v, e) = before \o w
        BY <2>2, <4>1, AppendOfConcat
      <4>. QED BY <4>2 DEF v, w
    <3>. QED BY <1>1, <2>2, <3>1, <3>2, AppendProperties
  <2>4. i \in Nat \ {0} /\ i + k \in Nat \ {0}
    BY <1>0
  <2>5. /\ Reset(i, Append(s.found, e)) \in ScanStates /\ Reset(i + k, Append(t.found, e)) \in ScanStates
    BY <2>3, <2>4, DetectorFacts DEF ScanStates, Reset
  <2>6. Shifted(Reset(i, Append(s.found, e)), Reset(i + k, Append(t.found, e)), k, before)
    BY <1>1, <2>3, <2>5 DEF Shifted, Reset
  <2>. QED BY <2>1, <2>6
<1>18. CASE ~(Bars(ds, s, i, th) >= Detector.endBars) /\ Extending(ds, s, i, th)
  <2>. DEFINE x == Extension(ds, s, i, th)
  <2>1. /\ Follow(ds, s, i, th) = [[s EXCEPT !.active = x] EXCEPT !.bars = 0]
        /\ Follow(cs, t, i + k, th) = [[t EXCEPT !.active = x] EXCEPT !.bars = 0]
    BY <1>4, <1>15, <1>16, <1>18, FollowIs
  <2>2. x \in Pull
    <3>1. x = FromPeak(ds, p, i, th.bp) /\ x # NoPullback
      BY <1>18 DEF Extending, Extension, p
    <3>. HIDE DEF x
    <3>. QED BY <1>0, <1>2, <1>13, <3>1, FromPeakIs
  <2>. HIDE DEF x
  <2>3. Shifted([s EXCEPT !.active = x], [t EXCEPT !.active = x], k, before)
    BY <2>2, ShiftedWith
  <2>4. Shifted([[s EXCEPT !.active = x] EXCEPT !.bars = 0], [[t EXCEPT !.active = x] EXCEPT !.bars = 0], k, before)
    BY <2>3, ShiftedWith
  <2>. QED BY <2>1, <2>4
<1>19. CASE ~(Bars(ds, s, i, th) >= Detector.endBars) /\ ~Extending(ds, s, i, th)
  <2>. DEFINE n == Bars(ds, s, i, th)
  <2>1. n \in Nat
    BY <1>1 DEF Bars
  <2>2. /\ Follow(ds, s, i, th) = [[s EXCEPT !.active = a] EXCEPT !.bars = n]
        /\ Follow(cs, t, i + k, th) = [[t EXCEPT !.active = a] EXCEPT !.bars = n]
    BY <1>3, <1>4, <1>16, <1>19, FollowIs
  <2>. HIDE DEF n, a
  <2>3. Shifted([s EXCEPT !.active = a], [t EXCEPT !.active = a], k, before)
    BY <1>5, ShiftedWith
  <2>4. Shifted([[s EXCEPT !.active = a] EXCEPT !.bars = n], [[t EXCEPT !.active = a] EXCEPT !.bars = n], k, before)
    BY <2>1, <2>3, ShiftedWith
  <2>. QED BY <2>2, <2>4
<1>. QED BY <1>17, <1>18, <1>19

\* A step of the scan of the part is one of the whole.
LEMMA PartStep ==
    ASSUME NEW ds, NEW cs, NEW k, Part(ds, cs, k), NEW i \in 1..Len(ds),
           (i < Len(ds) <=> i + k < Len(cs)) \/ Settled,
           NEW s, ScanOK(ds, s, i - 1), NEW t, NEW before, Shifted(s, t, k, before), NEW th
    PROVE  Shifted(ScanStep(ds, s, i, th), ScanStep(cs, t, i + k, th), k, before)
<1>. DEFINE u == IF s.active = NoPullback THEN Seek(ds, s, i, th) ELSE s
            v == IF t.active = NoPullback THEN Seek(cs, t, i + k, th) ELSE t
<1>0. IsDay(ds) /\ i - 1 \in Nat /\ i - 1 <= i /\ i \in Nat
  BY PartFacts
<1>1. t.active = s.active
  BY DEF Shifted
<1>2. ScanOK(ds, u, i) /\ Shifted(u, v, k, before)
  <2>1. CASE s.active = NoPullback
    BY <1>0, <1>1, <2>1, SeekOK, PartSeek
  <2>2. CASE s.active # NoPullback
    <3>1. ScanOK(ds, s, i)
      BY <1>0, <2>2, LaterOK
    <3>. QED BY <1>1, <2>2, <3>1
  <2>. QED BY <2>1, <2>2
<1>3. /\ ScanStep(ds, s, i, th) = IF u.active = NoPullback THEN u ELSE Follow(ds, u, i, th)
      /\ ScanStep(cs, t, i + k, th) = IF v.active = NoPullback THEN v ELSE Follow(cs, v, i + k, th)
  BY DEF ScanStep, FollowActive
<1>4. v.active = u.active
  BY <1>2 DEF Shifted
<1>. HIDE DEF u, v
<1>5. CASE u.active = NoPullback
  BY <1>2, <1>3, <1>4, <1>5
<1>6. CASE u.active # NoPullback
  BY <1>2, <1>3, <1>4, <1>6, PartFollow
<1>. QED BY <1>5, <1>6

\* Step by step, as far as the part goes.
LEMMA PartStates ==
    ASSUME NEW ds, NEW cs, NEW k, Part(ds, cs, k), NEW th, NEW before, NEW n \in 0..Len(ds), NEW j \in 0..n,
           Shifted(States(ds, th)[j], States(cs, th)[j + k], k, before),
           (n < Len(ds) \/ Len(ds) + k = Len(cs)) \/ Settled
    PROVE  \A i \in j..n : Shifted(States(ds, th)[i], States(cs, th)[i + k], k, before)
<1>. DEFINE sd == States(ds, th)
            sc == States(cs, th)
            P == {i \in 0..n : i >= j => Shifted(sd[i], sc[i + k], k, before)}
<1>0. /\ IsDay(ds) /\ IsDay(cs) /\ k \in Nat /\ Len(ds) \in Nat /\ Len(cs) \in Nat /\ Len(ds) + k <= Len(cs)
      /\ n \in Nat /\ j \in Nat
  BY PartFacts
<1>2. \A i \in 1..n : /\ sd[i] = ScanStep(ds, sd[i - 1], i, th)
                      /\ sc[i + k] = ScanStep(cs, sc[(i - 1) + k], i + k, th)
                      /\ ScanOK(ds, sd[i - 1], i - 1)
  <2>. TAKE i \in 1..n
  <2>1. i \in 1..Len(ds) /\ i + k \in 1..Len(cs) /\ (i + k) - 1 = (i - 1) + k /\ i - 1 \in 0..Len(ds)
    BY <1>0
  <2>2. sd[i] = ScanStep(ds, sd[i - 1], i, th) /\ ScanOK(ds, sd[i - 1], i - 1)
    BY <1>0, <2>1, StatesAre
  <2>3. sc[i + k] = ScanStep(cs, sc[(i + k) - 1], i + k, th)
    BY <1>0, <2>1, StatesAre
  <2>. QED BY <2>1, <2>2, <2>3
<1>1. Shifted(sd[j], sc[j + k], k, before)
  OBVIOUS
<1>. HIDE DEF sd, sc
<1>3. 0 \in P
  <2>1. 0 \in 0..n /\ (0 >= j => j = 0)
    BY <1>0
  <2>. QED BY <1>1, <2>1
<1>4. ASSUME NEW i \in 1..n, i - 1 \in P
      PROVE  i \in P
  <2>1. CASE i - 1 >= j
    <3>1. Shifted(sd[i - 1], sc[(i - 1) + k], k, before)
      BY <1>4, <2>1
    <3>2. i \in 1..Len(ds) /\ ((i < Len(ds) <=> i + k < Len(cs)) \/ Settled)
      BY <1>0
    <3>3. Shifted(ScanStep(ds, sd[i - 1], i, th), ScanStep(cs, sc[(i - 1) + k], i + k, th), k, before)
      BY <1>2, <3>1, <3>2, PartStep
    <3>. QED BY <1>2, <3>3
  <2>2. CASE ~(i - 1 >= j)
    <3>1. i \in 0..n /\ (i >= j => i = j)
      BY <1>0, <2>2
    <3>. QED BY <1>1, <3>1
  <2>. QED BY <2>1, <2>2
<1>5. \A i \in 0..n : i \in P
  <2>. HIDE DEF P
  <2>. QED BY <1>0, <1>3, <1>4, StepInduction
<1>6. \A i \in j..n : i \in 0..n /\ i >= j
  BY <1>0
<1>. QED BY <1>5, <1>6 DEF sd, sc

\* What a step of the scan finds: nothing, or one pullback that its candle confirms.
LEMMA StepFound ==
    ASSUME NEW cs, IsDay(cs), NEW i \in 1..Len(cs), NEW s, ScanOK(cs, s, i - 1), NEW th,
           NEW t, t = ScanStep(cs, s, i, th)
    PROVE  /\ \/ t.found = s.found
              \/ \E e \in Pull : e.conf = cs[i].time /\ t = Reset(i, Append(s.found, e))
           /\ s.active = NoPullback /\ Detector.endBars >= 2 => t.found = s.found
           /\ s.found \in Seq(Pull)
<1>. DEFINE u == IF s.active = NoPullback THEN Seek(cs, s, i, th) ELSE s
<1>1. ScanOK(cs, u, i) /\ u.found = s.found /\ (s.active = NoPullback => u.bars = 0)
  <2>1. CASE s.active = NoPullback
    BY <2>1, SeekOK
  <2>2. CASE s.active # NoPullback
    BY <2>2, LaterOK
  <2>. QED BY <2>1, <2>2
<1>2. t = IF u.active = NoPullback THEN u ELSE Follow(cs, u, i, th)
  BY DEF ScanStep, FollowActive
<1>. HIDE DEF u
<1>3. s.found \in Seq(Pull) /\ u \in ScanStates
  BY <1>1 DEF ScanOK, ScanStates
<1>4. CASE u.active = NoPullback
  BY <1>1, <1>2, <1>3, <1>4
<1>5. CASE u.active # NoPullback /\ Bars(cs, u, i, th) >= Detector.endBars
  <2>. DEFINE e == [Lowered(cs, u, i) EXCEPT !.conf = cs[i].time]
  <2>1. t = Reset(i, Append(u.found, e))
    BY <1>2, <1>5, FollowIs
  <2>2. u.active \in Pull /\ Running(cs, u.active, u.seg, i)
    BY <1>1, <1>5 DEF ScanOK, ScanStates
  <2>3. Lowered(cs, u, i) \in Pull /\ cs[i].time \in Nat
    BY <2>2, LoweredRuns, CandleFacts
  <2>4. e \in Pull /\ e.conf = cs[i].time
    <3>. DEFINE a == Lowered(cs, u, i)
    <3>1. a \in Pull
      BY <2>3
    <3>. HIDE DEF a
    <3>. QED BY <2>3, <3>1 DEF Pull
  <2>. HIDE DEF e
  <2>5. ~(s.active = NoPullback /\ Detector.endBars >= 2)
    <3>. SUFFICES ASSUME s.active = NoPullback, Detector.endBars >= 2 PROVE FALSE
      OBVIOUS
    <3>1. u.bars = 0
      BY <1>1
    <3>2. Bars(cs, u, i, th) \in {0, 1}
      BY <3>1 DEF Bars
    <3>. QED BY <1>5, <3>2, DetectorFacts
  <2>. QED BY <1>1, <1>3, <2>1, <2>4, <2>5
<1>6. CASE u.active # NoPullback /\ ~(Bars(cs, u, i, th) >= Detector.endBars)
  <2>1. t = IF Extending(cs, u, i, th) THEN [u EXCEPT !.active = Extension(cs, u, i, th), !.bars = 0]
            ELSE [u EXCEPT !.active = Lowered(cs, u, i), !.bars = Bars(cs, u, i, th)]
    BY <1>2, <1>6, FollowIs
  <2>2. t.found = u.found
    BY <1>3, <2>1 DEF ScanStates
  <2>. QED BY <1>1, <1>3, <2>2
<1>. QED BY <1>4, <1>5, <1>6

\* What is a prefix.
LEMMA PrefixIs ==
    ASSUME NEW u \in Seq(Pull), NEW v \in Seq(Pull), Len(u) <= Len(v), \A j \in 1..Len(u) : u[j] = v[j]
    PROVE  IsPrefix(u, v)
<1>1. Len(u) \in Nat /\ Len(v) \in Nat
  BY LenProperties
<1>2. SubSeq(u, 1, Len(u)) = u
  BY SubSeqFull
<1>. DEFINE w == SubSeq(v, 1, Len(u))
<1>3. w \in Seq(Pull) /\ Len(w) = Len(u) /\ \A j \in 1..Len(u) : w[j] = v[j]
  <2>1. \A j \in 1..Len(u) : v[j] \in Pull
    BY <1>1, ElementOfSeq
  <2>2. /\ w \in Seq(Pull) /\ Len(w) = (IF 1 <= Len(u) THEN Len(u) - 1 + 1 ELSE 0)
        /\ \A j \in 1..(Len(u) - 1 + 1) : w[j] = v[1 + j - 1]
    BY <1>1, <2>1, SubSeqProperties
  <2>. HIDE DEF w
  <2>. QED BY <1>1, <2>2
<1>. HIDE DEF w
<1>4. w = u
  BY <1>3, SeqEqual
<1>. QED BY <1>2, <1>4 DEF IsPrefix, w

\* A sequence is a prefix of itself.
LEMMA SameIsPrefix ==
    ASSUME NEW u \in Seq(Pull), NEW v, v = << >> \o u
    PROVE  IsPrefix(u, v)
<1>1. v = u /\ Len(u) \in Nat
  BY ConcatEmptySeq, LenProperties
<1>. QED BY <1>1, PrefixIs

\* A prefix of what one more candle finds.
LEMMA FoundStays ==
    ASSUME NEW cs, IsDay(cs), NEW i \in 1..Len(cs), NEW s, ScanOK(cs, s, i - 1), NEW th
    PROVE  IsPrefix(s.found, ScanStep(cs, s, i, th).found)
<1>. DEFINE t == ScanStep(cs, s, i, th)
<1>1. /\ \/ t.found = s.found
         \/ \E e \in Pull : e.conf = cs[i].time /\ t = Reset(i, Append(s.found, e))
      /\ s.found \in Seq(Pull)
  BY StepFound
<1>. HIDE DEF t
<1>2. Len(s.found) \in Nat
  BY <1>1, LenProperties
<1>3. CASE t.found = s.found
  <2>. DEFINE u == s.found
  <2>1. u \in Seq(Pull) /\ Len(u) \in Nat
    BY <1>1, <1>2
  <2>. HIDE DEF u
  <2>2. IsPrefix(u, u)
    BY <2>1, PrefixIs
  <2>. QED BY <1>3, <2>2 DEF t, u
<1>4. CASE \E e \in Pull : e.conf = cs[i].time /\ t = Reset(i, Append(s.found, e))
  <2>1. PICK e \in Pull : t = Reset(i, Append(s.found, e))
    BY <1>4
  <2>. DEFINE u == s.found
              v == Append(s.found, e)
  <2>2. t.found = v /\ v = Append(u, e) /\ u \in Seq(Pull) /\ Len(u) \in Nat
    BY <1>1, <1>2, <2>1 DEF Reset
  <2>. HIDE DEF u, v
  <2>3. v \in Seq(Pull) /\ Len(v) = Len(u) + 1 /\ \A j \in 1..Len(u) : v[j] = u[j]
    BY <2>2, AppendProperties
  <2>4. IsPrefix(u, v)
    <3>1. Len(u) <= Len(v) /\ \A j \in 1..Len(u) : u[j] = v[j]
      BY <2>2, <2>3
    <3>. QED BY <2>2, <2>3, <3>1, PrefixIs
  <2>. QED BY <2>2, <2>4 DEF t, u
<1>. QED BY <1>1, <1>3, <1>4

\* A prefix says what the whole begins with.
LEMMA PrefixTells ==
    ASSUME NEW x \in Seq(Pull), NEW y \in Seq(Pull), IsPrefix(x, y)
    PROVE  \A j \in 1..Len(x) : x[j] = y[j]
<1>. TAKE j \in 1..Len(x)
<1>1. Len(x) \in Nat /\ Len(y) \in Nat /\ Len(x) <= Len(y) /\ SubSeq(x, 1, Len(x)) = SubSeq(y, 1, Len(x))
  BY LenProperties DEF IsPrefix
<1>2. /\ \A k \in 1..(Len(x) - 1 + 1) : SubSeq(x, 1, Len(x))[k] = x[1 + k - 1]
      /\ \A k \in 1..(Len(x) - 1 + 1) : SubSeq(y, 1, Len(x))[k] = y[1 + k - 1]
  <2>1. \A k \in 1..Len(x) : x[k] \in Pull /\ y[k] \in Pull
    BY <1>1, ElementOfSeq
  <2>. QED BY <1>1, <2>1, SubSeqProperties
<1>3. j \in 1..(Len(x) - 1 + 1) /\ 1 + j - 1 = j
  BY <1>1
<1>. QED BY <1>1, <1>2, <1>3

\* One step after the other.
LEMMA PrefixTransitive ==
    ASSUME NEW u \in Seq(Pull), NEW v \in Seq(Pull), NEW w \in Seq(Pull), IsPrefix(u, v), IsPrefix(v, w)
    PROVE  IsPrefix(u, w)
<1>1. Len(u) \in Nat /\ Len(v) \in Nat /\ Len(w) \in Nat /\ Len(u) <= Len(v) /\ Len(v) <= Len(w)
  BY LenProperties DEF IsPrefix
<1>2. \A x, y \in Seq(Pull) : IsPrefix(x, y) => \A j \in 1..Len(x) : x[j] = y[j]
  BY PrefixTells
<1>3. \A j \in 1..Len(u) : u[j] = w[j]
  <2>. TAKE j \in 1..Len(u)
  <2>1. j \in 1..Len(v)
    BY <1>1
  <2>2. u[j] = v[j]
    BY <1>2
  <2>3. v[j] = w[j]
    BY <1>2, <2>1
  <2>. QED BY <2>2, <2>3
<1>. QED BY <1>1, <1>3, PrefixIs

\* The premise: the last candle of a history is no exception, or what it starts
\* cannot be confirmed with the same candle.
Final == Settled \/ Detector.endBars >= 2

\* Two scans of the same candles, of which one goes on.
LEMMA OneMoreCandle ==
    ASSUME Final, NEW cs, NEW ds, Part(cs, ds, 0), Len(ds) = Len(cs) + 1, NEW th
    PROVE  IsPrefix(Confirmed(cs, th), Confirmed(ds, th))
<1>0. /\ IsDay(cs) /\ IsDay(ds) /\ Len(cs) \in Nat /\ Len(ds) \in Nat /\ Len(cs) >= 1
      /\ Len(ds) = Len(cs) + 1 /\ \A i \in 1..Len(cs) : cs[i] = ds[i + 0]
  BY PartFacts, DayLength
<1>. DEFINE n == Len(cs)
            s == States(cs, th)
            t == States(ds, th)
<1>1. /\ s[0] = ScanStart /\ Confirmed(cs, th) = s[n].found
      /\ \A i \in 1..n : s[i] = ScanStep(cs, s[i - 1], i, th)
      /\ \A i \in 0..n : ScanOK(cs, s[i], i)
  BY <1>0, StatesAre
<1>2. /\ t[0] = ScanStart /\ Confirmed(ds, th) = t[Len(ds)].found
      /\ \A i \in 1..Len(ds) : t[i] = ScanStep(ds, t[i - 1], i, th)
      /\ \A i \in 0..Len(ds) : ScanOK(ds, t[i], i)
  BY <1>0, StatesAre
<1>3. Shifted(States(cs, th)[0], States(ds, th)[0 + 0], 0, << >>)
  <2>1. ScanStart \in ScanStates
    BY StartOK DEF ScanOK
  <2>2. << >> \in Seq(Pull) /\ ScanStart.seg + 0 = ScanStart.seg /\ ScanStart.peak + 0 = ScanStart.peak
        /\ << >> \o ScanStart.found = ScanStart.found
    BY DEF ScanStart
  <2>3. States(cs, th)[0] = ScanStart /\ States(ds, th)[0 + 0] = ScanStart
    BY <1>1, <1>2
  <2>. QED BY <2>1, <2>2, <2>3 DEF Shifted
<1>. HIDE DEF s, t
<1>4. \A i \in 0..n : s[i].found \in Seq(Pull)
  BY <1>1 DEF ScanOK, ScanStates
<1>5. \A i \in 0..Len(ds) : t[i].found \in Seq(Pull)
  BY <1>2 DEF ScanOK, ScanStates
<1>6. n \in 0..Len(ds) /\ n \in 0..n /\ n \in 1..n /\ n - 1 \in 0..n /\ n - 1 \in 0..Len(ds) /\ n \in 1..Len(ds)
      /\ n + 1 \in 1..Len(ds) /\ (n + 1) - 1 = n /\ Len(ds) = n + 1 /\ n \in Nat
  BY <1>0
<1>. HIDE DEF n
<1>7. IsPrefix(s[n].found, t[n].found)
  <2>1. CASE Settled
    <3>1. \A i \in 0..Len(cs) : Shifted(States(cs, th)[i], States(ds, th)[i + 0], 0, << >>)
      <4>1. Len(cs) \in 0..Len(cs) /\ 0 \in 0..Len(cs)
        BY <1>0
      <4>. QED BY <1>3, <2>1, <4>1, PartStates
    <3>2. Shifted(s[n], t[n], 0, << >>)
      <4>1. n + 0 = n
        BY <1>6
      <4>. QED BY <1>6, <3>1, <4>1 DEF s, t, n
    <3>3. t[n].found = << >> \o s[n].found
      BY <3>2 DEF Shifted
    <3>. QED BY <1>4, <1>6, <3>3, SameIsPrefix
  <2>2. CASE ~Settled
    <3>0. Detector.endBars >= 2
      BY <2>2 DEF Final
    <3>1. \A i \in 0..(Len(cs) - 1) : Shifted(States(cs, th)[i], States(ds, th)[i + 0], 0, << >>)
      <4>1. Len(cs) - 1 \in 0..Len(cs) /\ Len(cs) - 1 < Len(cs) /\ 0 \in 0..(Len(cs) - 1)
        BY <1>0
      <4>. QED BY <1>3, <4>1, PartStates
    <3>2. Shifted(s[n - 1], t[n - 1], 0, << >>)
      <4>1. (n - 1) + 0 = n - 1 /\ n - 1 \in 0..(n - 1)
        BY <1>6
      <4>. QED BY <1>6, <3>1, <4>1 DEF s, t, n
    <3>3. s[n] = ScanStep(cs, s[n - 1], n, th) /\ t[n] = ScanStep(ds, t[n - 1], n, th)
          /\ ScanOK(cs, s[n - 1], n - 1) /\ ScanOK(ds, t[n - 1], n - 1)
      BY <1>1, <1>2, <1>6
    <3>4. CASE s[n - 1].active = NoPullback
      <4>1. s[n].found = s[n - 1].found
        BY <1>0, <1>6, <3>0, <3>3, <3>4, StepFound DEF n
      <4>2. t[n - 1].found = << >> \o s[n - 1].found
        BY <3>2 DEF Shifted
      <4>3. IsPrefix(t[n - 1].found, t[n].found)
        BY <1>0, <1>6, <3>3, FoundStays
      <4>4. t[n - 1].found = s[n - 1].found
        BY <1>4, <1>6, <4>2, ConcatEmptySeq
      <4>. QED BY <4>1, <4>3, <4>4
    <3>5. CASE s[n - 1].active # NoPullback
      <4>1. t[n - 1].active = s[n - 1].active
        BY <3>2 DEF Shifted
      <4>2. s[n] = Follow(cs, s[n - 1], n, th) /\ t[n] = Follow(ds, t[n - 1], n, th)
        BY <3>3, <3>5, <4>1 DEF ScanStep, FollowActive
      <4>3. ScanOK(cs, s[n - 1], n)
        BY <1>0, <1>6, <3>3, <3>5, LaterOK DEF n
      <4>4. Shifted(Follow(cs, s[n - 1], n, th), Follow(ds, t[n - 1], n + 0, th), 0, << >>)
        BY <1>6, <3>2, <3>5, <4>3, PartFollow DEF n
      <4>5. t[n].found = << >> \o s[n].found
        <5>1. n + 0 = n
          BY <1>6
        <5>. QED BY <4>2, <4>4, <5>1 DEF Shifted
      <4>. QED BY <1>4, <1>6, <4>5, SameIsPrefix
    <3>. QED BY <3>4, <3>5
  <2>. QED BY <2>1, <2>2
<1>8. IsPrefix(t[n].found, t[n + 1].found)
  <2>1. ScanOK(ds, t[n], (n + 1) - 1) /\ t[n + 1] = ScanStep(ds, t[n], n + 1, th)
    BY <1>2, <1>6
  <2>. QED BY <1>0, <1>6, <2>1, FoundStays
<1>9. s[n].found \in Seq(Pull) /\ t[n].found \in Seq(Pull) /\ t[n + 1].found \in Seq(Pull)
  <2>1. n + 1 \in 0..Len(ds)
    BY <1>6
  <2>. QED BY <1>4, <1>5, <1>6, <2>1
<1>10. IsPrefix(s[n].found, t[n + 1].found)
  BY <1>7, <1>8, <1>9, PrefixTransitive
<1>. QED BY <1>1, <1>2, <1>6, <1>10 DEF n

----------------------------------------------------------------------------
(* The day: its candles follow each other.                                 *)

Day ==
  /\ candles \in Seq(Candle) /\ Len(candles) \in 1..MaxCandles
  /\ \A i \in 1..Len(candles) : candles[i].time = Bar * i

\* A day as the detector wants it.
LEMMA DayIsDay == ASSUME Day PROVE IsDay(candles)
BY LenProperties DEF Day, IsDay, Bar

\* The greatest and the least of two numbers are numbers.
LEMMA PairBounds ==
    ASSUME NEW x \in Int, NEW y \in Int
    PROVE  Max({x, y}) \in Int /\ Min({x, y}) \in Int /\ x <= Max({x, y})
<1>1. {x, y} \in SUBSET Int /\ IsFiniteSet({x, y}) /\ {x, y} # {}
  <2>1. {x, y} = {x} \cup {y}
    OBVIOUS
  <2>2. IsFiniteSet({x}) /\ IsFiniteSet({y})
    BY FS_Singleton
  <2>. QED BY <2>1, <2>2, FS_Union
<1>2. PICK S : S = {x, y}
  OBVIOUS
<1>. QED BY <1>1, <1>2, MaxIsGreatest, MinIsLeast

\* The candle that closes next is a candle, in its place.
LEMMA NextIsCandle ==
    ASSUME Day, NEW s \in Shapes
    PROVE  NextCandle(s) \in Candle /\ NextCandle(s).time = Bar * (Len(candles) + 1)
<1>. DEFINE n == Len(candles)
            o == LastClose
            c == o + s.body
<1>1. n \in Nat /\ n >= 1 /\ candles[n] \in Candle
  BY LenProperties, ElementOfSeq DEF Day
<1>2. s.body \in Int /\ s.up \in Nat /\ s.down \in Nat
  BY LiveAssumption
<1>3. o \in Int /\ c \in Int
  BY <1>1, <1>2 DEF LastClose, Candle
<1>. HIDE DEF o
<1>4. NextCandle(s) = [time |-> Bar * (n + 1), open |-> o, close |-> c,
                       high |-> Max({o, c}) + s.up, low |-> Min({o, c}) - s.down]
  BY DEF NextCandle, CandleOf, o
<1>. HIDE DEF n, c
<1>5. Max({o, c}) \in Int /\ Min({o, c}) \in Int
  BY <1>3, PairBounds
<1>6. Bar * (n + 1) \in Nat \ {0}
  BY <1>1 DEF Bar
<1>. QED BY <1>2, <1>3, <1>4, <1>5, <1>6 DEF Candle, n

\* It is a day in the beginning,
LEMMA DayStarts == Init => Day
<1>. SUFFICES ASSUME Init PROVE Day
  OBVIOUS
<1>1. PICK m \in Mornings : candles = m
  BY DEF Init
<1>2. /\ m \in Seq([time : Nat, open : Int, close : Int, high : Int, low : Int]) /\ Len(m) \in 1..MaxCandles
      /\ \A i \in DOMAIN m : m[i].time = Bar * i
  BY LiveAssumption
<1>3. DOMAIN m = 1..Len(m) /\ Len(m) \in Nat
  BY <1>2, LenProperties
<1>4. \A i \in 1..Len(m) : m[i] \in Candle
  <2>. TAKE i \in 1..Len(m)
  <2>1. m[i] \in [time : Nat, open : Int, close : Int, high : Int, low : Int]
    BY <1>2, ElementOfSeq
  <2>2. m[i].time = Bar * i
    BY <1>2, <1>3
  <2>3. m[i].time \in Nat \ {0}
    BY <1>3, <2>2 DEF Bar
  <2>. QED BY <2>1, <2>3 DEF Candle
<1>5. m \in Seq(Candle)
  <2>1. m = [i \in 1..Len(m) |-> m[i]]
    BY <1>2, LenProperties
  <2>2. [i \in 1..Len(m) |-> m[i]] \in Seq(Candle)
    BY <1>3, <1>4, IsASeq
  <2>. QED BY <2>1, <2>2
<1>. QED BY <1>1, <1>2, <1>3, <1>5 DEF Day

\* What a candle that closes makes of the day.
LEMMA CandleCloses ==
    ASSUME Day, CloseCandle
    PROVE  Day' /\ Len(candles') = Len(candles) + 1 /\ Part(candles, candles', 0)
<1>1. PICK s \in Shapes : candles' = Append(candles, NextCandle(s))
  BY DEF CloseCandle
<1>. DEFINE c == NextCandle(s)
            n == Len(candles)
<1>2. c \in Candle /\ c.time = Bar * (n + 1)
  BY NextIsCandle
<1>. HIDE DEF c
<1>3. /\ candles \in Seq(Candle) /\ n \in Nat /\ n >= 1 /\ n < MaxCandles /\ MaxCandles \in Nat
      /\ \A i \in 1..n : candles[i].time = Bar * i
  BY LenProperties, LiveAssumption DEF Day, CloseCandle
<1>4. /\ candles' \in Seq(Candle) /\ Len(candles') = n + 1
      /\ \A i \in 1..n : candles'[i] = candles[i]
      /\ candles'[n + 1] = c
  <2>1. candles' = Append(candles, c)
    BY <1>1 DEF c
  <2>. QED BY <1>2, <1>3, <2>1, AppendProperties
<1>. HIDE DEF n
<1>5. Day'
  <2>1. \A i \in 1..(n + 1) : candles'[i].time = Bar * i
    <3>. TAKE i \in 1..(n + 1)
    <3>1. CASE i = n + 1
      BY <1>2, <1>4, <3>1
    <3>2. CASE i # n + 1
      <4>1. i \in 1..n
        BY <1>3, <3>2
      <4>. QED BY <1>3, <1>4, <4>1
    <3>. QED BY <3>1, <3>2
  <2>2. n + 1 \in 1..MaxCandles
    BY <1>3
  <2>. QED BY <1>4, <2>1, <2>2 DEF Day
<1>6. IsDay(candles) /\ IsDay(candles')
  <2>1. IsDay(candles)
    BY DayIsDay
  <2>2. IsDay(candles')
    BY <1>5, LenProperties DEF Day, IsDay, Bar
  <2>. QED BY <2>1, <2>2
<1>7. Part(candles, candles', 0)
  <2>1. n + 0 <= n + 1 /\ \A i \in 1..n : i + 0 = i
    BY <1>3
  <2>. QED BY <1>4, <1>6, <2>1 DEF Part, n
<1>. QED BY <1>4, <1>5, <1>7 DEF n

\* Nothing else touches the candles.
LEMMA CandlesStay ==
    ASSUME [Next]_vars, ~CloseCandle
    PROVE  candles' = candles
BY DEF Next, vars, StayLocked, Load, LockTimeout, Evaluate, Executed, Failed, Ambiguous, SyncExecuted,
       SyncFailed, ManualUnlock, SaveForm

\* it is one after every step,
LEMMA DayGoesOn == Day /\ [Next]_vars => Day'
<1>. SUFFICES ASSUME Day, [Next]_vars PROVE Day'
  OBVIOUS
<1>1. CASE CloseCandle
  BY <1>1, CandleCloses
<1>2. CASE ~CloseCandle
  <2>1. candles' = candles
    BY <1>2, CandlesStay
  <2>. QED BY <2>1 DEF Day
<1>. QED BY <1>1, <1>2

\* and so always.
LEMMA DayAlways == Spec => []Day
BY DayStarts, DayGoesOn, PTL DEF Spec

(* For every detector that has no exception for the last candle or needs two   *)
(* candles to confirm, every morning and whatever candles follow: a candle     *)
(* that closes adds pullbacks to the confirmed ones, it takes none back and    *)
(* moves none.                                                                 *)
THEOREM PullbacksAreFinal == ASSUME Final PROVE Spec => ConfirmedPullbacksAreFinal
<1>. DEFINE th == EntryThresholds(Thresholds[1])
            grows == candles' # candles => IsPrefix(Confirmed(candles, th), Confirmed(candles', th))
<1>1. ASSUME Day, [Next]_vars PROVE grows
  <2>1. CASE CloseCandle
    <3>1. Len(candles') = Len(candles) + 1 /\ Part(candles, candles', 0)
      BY <1>1, <2>1, CandleCloses
    <3>. HIDE DEF th
    <3>2. \A cs, ds, x : Part(cs, ds, 0) /\ Len(ds) = Len(cs) + 1 => IsPrefix(Confirmed(cs, x), Confirmed(ds, x))
      BY OneMoreCandle
    <3>. QED BY <3>1, <3>2
  <2>2. CASE ~CloseCandle
    <3>1. candles' = candles
      BY <1>1, <2>2, CandlesStay
    <3>. QED BY <3>1
  <2>. QED BY <2>1, <2>2
<1>2. Day /\ [Next]_vars => [grows]_candles
  BY <1>1
<1>3. ConfirmedPullbacksAreFinal <=> [][grows]_candles
  BY DEF ConfirmedPullbacksAreFinal
<1>. HIDE DEF grows
<1>. QED BY <1>2, <1>3, DayAlways, PTL DEF Spec

----------------------------------------------------------------------------
(* The cut.  The history is cut at the last executed entry, where the scan    *)
(* of the whole history begins anew; so the scan of what is left finds the    *)
(* same pullbacks as the scan of the whole.                                   *)

\* Wherever a pullback is confirmed, the scan is reset.
LEMMA ResetAt ==
    ASSUME NEW cs, IsDay(cs), NEW th, NEW j \in 1..Len(Confirmed(cs, th))
    PROVE  \E k \in 1..Len(cs) : \E f \in Seq(Pull) :
             cs[k].time = Confirmed(cs, th)[j].conf /\ States(cs, th)[k] = Reset(k, f)
<1>. DEFINE st == States(cs, th)
            n == Len(cs)
            P == {i \in 0..n : \A m \in 1..Len(st[i].found) : \E k \in 1..i : \E f \in Seq(Pull) :
                                 cs[k].time = st[i].found[m].conf /\ st[k] = Reset(k, f)}
<1>0. n \in Nat /\ n >= 1
  BY DayLength
<1>1. /\ st[0] = ScanStart /\ Confirmed(cs, th) = st[n].found
      /\ \A i \in 1..n : st[i] = ScanStep(cs, st[i - 1], i, th)
      /\ \A i \in 0..n : ScanOK(cs, st[i], i)
  BY StatesAre
<1>. HIDE DEF st
<1>2. 0 \in P
  <2>1. Len(st[0].found) = 0
    BY <1>1 DEF ScanStart
  <2>. QED BY <1>0, <2>1
<1>3. ASSUME NEW i \in 1..n, i - 1 \in P
      PROVE  i \in P
  <2>0. i - 1 \in 0..n /\ i \in 0..n /\ i \in Nat
    BY <1>0
  <2>. DEFINE s == st[i - 1].found
              t == st[i].found
  <2>1. /\ \/ t = s
           \/ \E e \in Pull : e.conf = cs[i].time /\ st[i] = Reset(i, Append(s, e))
        /\ s \in Seq(Pull)
    <3>1. ScanOK(cs, st[i - 1], i - 1) /\ st[i] = ScanStep(cs, st[i - 1], i, th)
      BY <1>1, <2>0
    <3>. QED BY <3>1, StepFound
  <2>2. \A m \in 1..Len(s) : \E k \in 1..(i - 1) : \E f \in Seq(Pull) :
          cs[k].time = s[m].conf /\ st[k] = Reset(k, f)
    BY <1>3
  <2>3. Len(s) \in Nat
    BY <2>1, LenProperties
  <2>. SUFFICES ASSUME NEW m \in 1..Len(t)
                PROVE  \E k \in 1..i : \E f \in Seq(Pull) : cs[k].time = t[m].conf /\ st[k] = Reset(k, f)
    BY <2>0
  <2>4. CASE t = s
    <3>1. PICK k \in 1..(i - 1) : \E f \in Seq(Pull) : cs[k].time = t[m].conf /\ st[k] = Reset(k, f)
      BY <2>2, <2>4
    <3>2. k \in 1..i
      BY <2>0
    <3>. QED BY <3>1, <3>2
  <2>5. CASE \E e \in Pull : e.conf = cs[i].time /\ st[i] = Reset(i, Append(s, e))
    <3>1. PICK e \in Pull : e.conf = cs[i].time /\ st[i] = Reset(i, Append(s, e))
      BY <2>5
    <3>2. t = Append(s, e)
      BY <3>1 DEF Reset
    <3>. HIDE DEF s, t
    <3>3. /\ t \in Seq(Pull) /\ Len(t) = Len(s) + 1
          /\ \A x \in 1..Len(s) : t[x] = s[x]
          /\ t[Len(s) + 1] = e
      BY <2>1, <3>2, AppendProperties
    <3>4. CASE m = Len(s) + 1
      <4>1. cs[i].time = t[m].conf /\ st[i] = Reset(i, t)
        BY <3>1, <3>2, <3>3, <3>4
      <4>2. i \in 1..i
        BY <2>0
      <4>. QED BY <3>3, <4>1, <4>2
    <3>5. CASE m # Len(s) + 1
      <4>1. m \in 1..Len(s)
        BY <2>3, <3>3, <3>5
      <4>2. PICK k \in 1..(i - 1) : \E f \in Seq(Pull) : cs[k].time = s[m].conf /\ st[k] = Reset(k, f)
        BY <2>2, <4>1
      <4>3. k \in 1..i /\ t[m] = s[m]
        BY <2>0, <3>3, <4>1
      <4>. QED BY <4>2, <4>3
    <3>. QED BY <3>4, <3>5
  <2>. QED BY <2>1, <2>4, <2>5
<1>4. n \in P
  <2>. HIDE DEF P, n
  <2>1. \A i \in 0..n : i \in P
    BY <1>0, <1>2, <1>3, StepInduction
  <2>2. n \in 0..n
    BY <1>0
  <2>. QED BY <2>1, <2>2
<1>5. j \in 1..Len(st[n].found) /\ Confirmed(cs, th)[j] = st[n].found[j]
  BY <1>1
<1>6. \E k \in 1..n : \E f \in Seq(Pull) : cs[k].time = st[n].found[j].conf /\ st[k] = Reset(k, f)
  BY <1>4, <1>5
<1>. QED BY <1>5, <1>6 DEF st

\* The first candle only becomes the swing high.
LEMMA FirstStep ==
    ASSUME NEW ds, IsDay(ds), NEW th, Detector.disallowSame
    PROVE  ScanStep(ds, ScanStart, 1, th) = ScanStart
<1>. DEFINE s == ScanStart
            b == Max({s.seg, 1 - Detector.lookback + 1})
            p == HighestHigh(ds, b, 1)
            a == FromPeak(ds, p, 1, th.bp)
<1>0. Len(ds) \in Nat /\ Len(ds) >= 1 /\ 1 \in 1..Len(ds) /\ s.seg = 1 /\ s.wait = 0 /\ s.active = NoPullback
  BY DayLength DEF ScanStart
<1>1. b = 1
  <2>. HIDE DEF b
  <2>1. b = Max({1, 1 - Detector.lookback + 1})
    BY <1>0 DEF b
  <2>2. b \in Int /\ 1 <= b /\ b <= 1
    BY <1>0, <2>1, WindowStart
  <2>. QED BY <2>2
<1>2. p = 1
  <2>. HIDE DEF b
  <2>1. HighestHigh(ds, 1, 1) \in 1..1
    BY <1>0, HighestHighIs
  <2>. QED BY <1>1, <2>1
<1>3. a = NoPullback
  <2>. HIDE DEF b, p
  <2>1. a = FromPeak(ds, 1, 1, th.bp)
    BY <1>2
  <2>. HIDE DEF a
  <2>. QED BY <1>0, <2>1, FromPeakIs
<1>4. Seek(ds, s, 1, th) = IF 1 - p < Detector.swingConfirm /\ 1 < Len(ds) THEN [s EXCEPT !.peak = p]
                           ELSE [[s EXCEPT !.peak = p] EXCEPT !.active = a]
  BY <1>0 DEF Seek
<1>. HIDE DEF a, p, b
<1>5. s \in ScanStates /\ s.peak = 1
  BY StartOK DEF ScanOK, ScanStart
<1>6. Seek(ds, s, 1, th) = s
  <2>. HIDE DEF s
  <2>1. [s EXCEPT !.peak = 1] = s
    BY <1>5 DEF ScanStates
  <2>2. [s EXCEPT !.active = NoPullback] = s
    BY <1>0, <1>5 DEF ScanStates
  <2>. QED BY <1>2, <1>3, <1>4, <2>1, <2>2
<1>. QED BY <1>0, <1>6 DEF ScanStep, FollowActive

\* The scan of a history that is cut where the scan of the whole was reset.
LEMMA CutAt ==
    ASSUME NEW cs, IsDay(cs), NEW th, Detector.disallowSame, Detector.minBetween = 0,
           NEW k \in 1..Len(cs), NEW f \in Seq(Pull), States(cs, th)[k] = Reset(k, f),
           NEW ds, Part(ds, cs, k - 1), Len(ds) + (k - 1) = Len(cs)
    PROVE  Confirmed(ds, th) \in Seq(Pull) /\ Confirmed(cs, th) = f \o Confirmed(ds, th)
<1>0. /\ IsDay(ds) /\ Len(ds) \in Nat /\ Len(ds) >= 1 /\ Len(cs) \in Nat /\ k \in Nat
  BY PartFacts, DayLength
<1>. DEFINE n == Len(ds)
            sd == States(ds, th)
            sc == States(cs, th)
<1>1. sd[1] = ScanStart
  <2>1. sd[0] = ScanStart /\ sd[1] = ScanStep(ds, sd[1 - 1], 1, th)
    <3>1. 1 \in 1..n
      BY <1>0
    <3>. QED BY <1>0, <3>1, StatesAre
  <2>2. 1 - 1 = 0
    OBVIOUS
  <2>. HIDE DEF sd
  <2>. QED BY <1>0, <2>1, <2>2, FirstStep
<1>2. Shifted(sd[1], sc[1 + (k - 1)], k - 1, f)
  <2>1. 1 + (k - 1) = k
    BY <1>0
  <2>2. sc[1 + (k - 1)] = Reset(k, f)
    BY <2>1
  <2>3. ScanStart \in ScanStates
    BY StartOK DEF ScanOK
  <2>4. Reset(k, f) \in ScanStates /\ f \o << >> = f
    BY <1>0, DetectorFacts, ConcatEmptySeq DEF Reset, ScanStates
  <2>. HIDE DEF sd, sc
  <2>. QED BY <1>0, <1>1, <2>1, <2>2, <2>3, <2>4 DEF Shifted, ScanStart, Reset
<1>3. \A i \in 1..n : Shifted(sd[i], sc[i + (k - 1)], k - 1, f)
  <2>1. n \in 0..Len(ds) /\ 1 \in 0..n
    BY <1>0
  <2>. QED BY <1>2, <2>1, PartStates
<1>4. /\ Confirmed(ds, th) = sd[n].found /\ Confirmed(cs, th) = sc[Len(cs)].found
      /\ ScanOK(ds, sd[n], n)
  BY <1>0, StatesAre
<1>5. Shifted(sd[n], sc[n + (k - 1)], k - 1, f)
  BY <1>0, <1>3
<1>. HIDE DEF sd, sc, n
<1>6. sc[n + (k - 1)] = sc[Len(cs)]
  BY DEF n
<1>. QED BY <1>4, <1>5, <1>6 DEF Shifted, ScanStates

\* Since cuts where it says.
LEMMA SinceIsPart ==
    ASSUME NEW cs, IsDay(cs), NEW k \in 1..Len(cs), NEW ds, ds = Since(cs, cs[k].time)
    PROVE  Part(ds, cs, k - 1) /\ Len(ds) + (k - 1) = Len(cs)
<1>0. Len(cs) \in Nat /\ DOMAIN cs = 1..Len(cs) /\ k \in Nat /\ k >= 1 /\ cs \in Seq(Candle)
  BY DayLength DEF IsDay
<1>. DEFINE A == {0} \cup {i \in DOMAIN cs : cs[i].time < cs[k].time}
<1>1. A = 0..(k - 1)
  <2>1. \A i \in DOMAIN cs : cs[i].time < cs[k].time <=> i < k
    BY <1>0, TimesAreUnique
  <2>. QED BY <1>0, <2>1
<1>2. Max(A) = k - 1
  <2>. HIDE DEF A
  <2>1. A \in SUBSET Int /\ IsFiniteSet(A) /\ A # {}
    <3>1. PICK a, b \in Int : a = 0 /\ b = k - 1
      BY <1>0
    <3>2. IsFiniteSet(a..b)
      BY FS_Interval
    <3>3. A = a..b
      BY <1>1, <3>1
    <3>4. 0 \in a..b
      BY <1>0, <3>1
    <3>5. IsFiniteSet(A)
      BY <3>2, <3>3
    <3>6. A \in SUBSET Int /\ A # {}
      BY <3>3, <3>4
    <3>. QED BY <3>5, <3>6
  <2>2. Max(A) \in A /\ \A y \in A : y <= Max(A)
    BY <2>1, MaxIsGreatest
  <2>3. k - 1 \in A
    BY <1>0, <1>1
  <2>. QED BY <1>0, <1>1, <2>2, <2>3
<1>3. ds = SubSeq(cs, k, Len(cs))
  <2>1. ds = SubSeq(cs, Max(A) + 1, Len(cs))
    BY DEF Since
  <2>. HIDE DEF A
  <2>2. Max(A) + 1 = k
    BY <1>0, <1>2
  <2>. QED BY <2>1, <2>2
<1>4. /\ ds \in Seq(Candle) /\ Len(ds) = Len(cs) - k + 1
      /\ \A i \in 1..(Len(cs) - k + 1) : ds[i] = cs[k + i - 1]
  <2>1. \A i \in k..Len(cs) : cs[i] \in Candle
    BY <1>0, ElementOfSeq
  <2>. QED BY <1>0, <1>3, <2>1, SubSeqProperties
<1>5. \A i \in 1..Len(ds) : ds[i] = cs[i + (k - 1)] /\ i + (k - 1) \in 1..Len(cs)
  <2>. TAKE i \in 1..Len(ds)
  <2>1. k + i - 1 = i + (k - 1) /\ i + (k - 1) \in 1..Len(cs)
    BY <1>0, <1>4
  <2>. QED BY <1>4, <2>1
<1>6. IsDay(ds)
  <2>1. ASSUME NEW i \in 1..Len(ds), NEW j \in 1..Len(ds), i < j
        PROVE  ds[i].time < ds[j].time
    <3>1. i + (k - 1) \in 1..Len(cs) /\ j + (k - 1) \in 1..Len(cs) /\ i + (k - 1) < j + (k - 1)
      BY <1>0, <1>5, <2>1
    <3>2. cs[i + (k - 1)].time < cs[j + (k - 1)].time
      BY <3>1, TimesAreUnique
    <3>. QED BY <1>5, <3>2
  <2>. QED BY <1>0, <1>4, <2>1 DEF IsDay
<1>. QED BY <1>0, <1>4, <1>5, <1>6 DEF Part

\* What the scan of a day confirms.
LEMMA ConfirmedFacts ==
    ASSUME NEW cs, IsDay(cs), NEW th, NEW F, F = Confirmed(cs, th)
    PROVE  /\ F \in Seq(Pull) /\ Len(F) \in Nat
           /\ \A j \in 1..Len(F) : /\ F[j] \in Pull /\ F[j].conf \in Nat /\ F[j].peak \in Nat
                                   /\ \E k \in 1..Len(cs) : F[j].conf = cs[k].time
                                   /\ \E k \in 1..Len(cs) : F[j].peak = cs[k].time
                                   /\ F[j].conf <= cs[Len(cs)].time
                                   /\ Detector.disallowSame => F[j].peak < F[j].conf /\ F[j].peak < F[j].lowTime
                                   /\ F[j].lowTime <= F[j].conf
           /\ \A j \in 2..Len(F) : F[j - 1].conf <= F[j].peak
<1>. DEFINE n == Len(cs)
            s == States(cs, th)[n]
<1>0. n \in Nat /\ n >= 1 /\ n \in 1..n /\ n \in 0..n
  BY DayLength
<1>1. ScanOK(cs, s, n) /\ F = s.found
  BY <1>0, StatesAre
<1>. HIDE DEF s
<1>2. F \in Seq(Pull) /\ Ended(cs, F, s.seg, n)
  BY <1>1 DEF ScanOK, ScanStates
<1>3. Len(F) \in Nat
  BY <1>2, LenProperties
<1>4. ASSUME NEW j \in 1..Len(F)
      PROVE  /\ F[j] \in Pull /\ F[j].conf \in Nat /\ F[j].peak \in Nat
             /\ \E k \in 1..n : F[j].conf = cs[k].time
             /\ \E k \in 1..n : F[j].peak = cs[k].time
             /\ F[j].conf <= cs[n].time
             /\ Detector.disallowSame => F[j].peak < F[j].conf /\ F[j].peak < F[j].lowTime
             /\ F[j].lowTime <= F[j].conf
  <2>1. F[j] \in Pull
    BY <1>2, ElementOfSeq
  <2>2. F[j].conf \in Nat /\ F[j].peak \in Nat
    BY <2>1 DEF Pull
  <2>3. /\ \E k \in 1..n : F[j].conf = cs[k].time
        /\ \E k \in 1..n : F[j].peak = cs[k].time
        /\ Detector.disallowSame => F[j].peak < F[j].conf /\ F[j].peak < F[j].lowTime
        /\ F[j].lowTime <= F[j].conf
    BY <1>2 DEF Ended
  <2>4. F[j].conf <= cs[n].time
    <3>1. PICK k \in 1..n : F[j].conf = cs[k].time
      BY <2>3
    <3>2. k <= n <=> cs[k].time <= cs[n].time
      BY <1>0, TimesAreUnique
    <3>. QED BY <1>0, <3>1, <3>2
  <2>. QED BY <2>1, <2>2, <2>3, <2>4
<1>5. \A j \in 2..Len(F) : F[j - 1].conf <= F[j].peak
  BY <1>2 DEF Ended
<1>. QED BY <1>2, <1>3, <1>4, <1>5

\* No pullback begins before all earlier ones have ended.
LEMMA ConfirmedInOrder ==
    ASSUME NEW cs, IsDay(cs), NEW th, NEW F, F = Confirmed(cs, th), Detector.disallowSame
    PROVE  /\ \A a, b \in 1..Len(F) : a < b => F[a].conf <= F[b].peak /\ F[a].conf < F[b].conf
           /\ \A a, b \in 1..Len(F) : F[a].conf = F[b].conf => a = b
           /\ \A a, b \in 1..Len(F) : F[a].conf < F[b].conf => F[a].conf <= F[b].peak
<1>. DEFINE n == Len(F)
<1>0. n \in Nat /\ \A j \in 1..n : F[j].conf \in Nat /\ F[j].peak \in Nat /\ F[j].peak < F[j].conf
  BY ConfirmedFacts
<1>1. \A j \in 2..n : F[j - 1].conf <= F[j].peak
  BY ConfirmedFacts
<1>. DEFINE P == {b \in 0..n : \A a \in 1..(b - 1) : F[a].conf <= F[b].peak}
<1>. HIDE DEF n
<1>2. 0 \in P
  BY <1>0
<1>3. ASSUME NEW b \in 1..n, b - 1 \in P
      PROVE  b \in P
  <2>1. \A a \in 1..((b - 1) - 1) : F[a].conf <= F[b - 1].peak
    BY <1>3
  <2>. SUFFICES ASSUME NEW a \in 1..(b - 1) PROVE F[a].conf <= F[b].peak
    BY <1>0
  <2>2. b \in 2..n /\ b - 1 \in 1..n /\ a \in 1..n
    BY <1>0
  <2>3. F[b - 1].conf <= F[b].peak
    BY <1>1, <2>2
  <2>4. CASE a = b - 1
    BY <2>3, <2>4
  <2>5. CASE a # b - 1
    <3>1. a \in 1..((b - 1) - 1)
      BY <1>0, <2>5
    <3>2. F[a].conf <= F[b - 1].peak
      BY <2>1, <3>1
    <3>3. /\ F[a].conf \in Nat /\ F[b - 1].peak \in Nat /\ F[b - 1].conf \in Nat /\ F[b].peak \in Nat
          /\ F[b - 1].peak < F[b - 1].conf
      BY <1>0, <2>2
    <3>. QED BY <2>3, <3>2, <3>3
  <2>. QED BY <2>4, <2>5
<1>4. \A b \in 0..n : b \in P
  <2>. HIDE DEF P
  <2>. QED BY <1>0, <1>2, <1>3, StepInduction
<1>5. \A a, b \in 1..n : a < b => F[a].conf <= F[b].peak /\ F[a].conf < F[b].conf
  <2>. SUFFICES ASSUME NEW a \in 1..n, NEW b \in 1..n, a < b
                PROVE  F[a].conf <= F[b].peak /\ F[a].conf < F[b].conf
    OBVIOUS
  <2>1. b \in 0..n /\ a \in 1..(b - 1)
    BY <1>0
  <2>2. F[a].conf <= F[b].peak
    BY <1>4, <2>1
  <2>3. F[a].conf \in Nat /\ F[b].peak \in Nat /\ F[b].conf \in Nat /\ F[b].peak < F[b].conf
    BY <1>0
  <2>. QED BY <2>2, <2>3
<1>6. \A a, b \in 1..n : a = b \/ a < b \/ b < a
  BY <1>0
<1>7. \A a, b \in 1..n : F[a].conf = F[b].conf => a = b
  <2>. SUFFICES ASSUME NEW a \in 1..n, NEW b \in 1..n, F[a].conf = F[b].conf PROVE a = b
    OBVIOUS
  <2>1. F[a].conf \in Nat /\ F[b].conf \in Nat
    BY <1>0
  <2>2. ~(a < b) /\ ~(b < a)
    BY <1>5, <2>1
  <2>. QED BY <1>6, <2>2
<1>8. \A a, b \in 1..n : F[a].conf < F[b].conf => F[a].conf <= F[b].peak
  <2>. SUFFICES ASSUME NEW a \in 1..n, NEW b \in 1..n, F[a].conf < F[b].conf PROVE F[a].conf <= F[b].peak
    OBVIOUS
  <2>1. F[a].conf \in Nat /\ F[b].conf \in Nat
    BY <1>0
  <2>2. ~(b < a) /\ a # b
    BY <1>5, <2>1
  <2>. QED BY <1>5, <1>6, <2>2
<1>. QED BY <1>5, <1>7, <1>8 DEF n

\* The times at which the whole history confirms a pullback.
ConfTimes(cs, th) == {Confirmed(cs, th)[j].conf : j \in 1..Len(Confirmed(cs, th))}

EndOf(g, F) == g \in Seq(Pull) /\ \E f \in Seq(Pull) : F = f \o g

\* The scan of a cycle finds the last pullbacks of the whole history.
LEMMA CycleIsPart ==
    ASSUME NEW cs, IsDay(cs), NEW th, Detector.disallowSame, Detector.minBetween = 0,
           NEW bounds, bounds \subseteq ConfTimes(cs, th)
    PROVE  /\ EndOf(Confirmed(CycleCandles(cs, bounds), th), Confirmed(cs, th))
           /\ Confirmed(CycleCandles(cs, bounds), th) = << >> /\ Len(Confirmed(cs, th)) > 0 =>
                Confirmed(cs, th)[Len(Confirmed(cs, th))].conf \in bounds
<1>. DEFINE g == Confirmed(CycleCandles(cs, bounds), th)
<1>. DEFINE F == Confirmed(cs, th)
<1>0. /\ F \in Seq(Pull) /\ Len(F) \in Nat
      /\ \A j \in 1..Len(F) : F[j].conf \in Nat /\ F[j].conf <= cs[Len(cs)].time
  BY ConfirmedFacts
<1>1. CASE bounds = {}
  <2>1. g = F
    BY <1>1 DEF CycleCandles
  <2>. HIDE DEF F
  <2>2. << >> \in Seq(Pull) /\ F = << >> \o F /\ Len(<< >>) = 0
    BY <1>0, ConcatEmptySeq
  <2>. HIDE DEF g
  <2>3. EndOf(g, F)
    BY <1>0, <2>1, <2>2 DEF EndOf
  <2>4. ~(g = << >> /\ Len(F) > 0)
    <3>1. g = << >> => Len(F) = 0
      BY <2>1, <2>2
    <3>. QED BY <3>1
  <2>. QED BY <2>3, <2>4 DEF F, g
<1>2. CASE bounds # {}
  <2>. DEFINE m == Max(bounds)
  <2>1. m \in bounds
    <3>1. PICK T \in Int : T = cs[Len(cs)].time
      BY DayLength, CandleFacts
    <3>2. bounds \subseteq 0..T
      <4>. SUFFICES ASSUME NEW x \in bounds PROVE x \in 0..T
        OBVIOUS
      <4>1. PICK j \in 1..Len(F) : x = F[j].conf
        BY DEF ConfTimes
      <4>. HIDE DEF F
      <4>. QED BY <1>0, <3>1, <4>1
    <3>3. IsFiniteSet(bounds)
      <4>1. IsFiniteSet(0..T)
        <5>1. PICK z \in Int : z = 0
          OBVIOUS
        <5>2. IsFiniteSet(z..T)
          BY <3>1, FS_Interval
        <5>. QED BY <5>1, <5>2
      <4>. QED BY <3>2, <4>1, FS_Subset
    <3>4. bounds \in SUBSET Int
      BY <3>1, <3>2
    <3>. QED BY <1>2, <3>3, <3>4, MaxIsGreatest
  <2>2. PICK j \in 1..Len(F) : m = F[j].conf
    BY <2>1 DEF ConfTimes
  <2>3. PICK k \in 1..Len(cs) : \E f \in Seq(Pull) : cs[k].time = m /\ States(cs, th)[k] = Reset(k, f)
    BY <2>2, ResetAt
  <2>4. PICK f \in Seq(Pull) : cs[k].time = m /\ States(cs, th)[k] = Reset(k, f)
    BY <2>3
  <2>. DEFINE ds == CycleCandles(cs, bounds)
  <2>5. ds = Since(cs, cs[k].time)
    BY <1>2, <2>4 DEF CycleCandles
  <2>. HIDE DEF ds, m
  <2>6. Part(ds, cs, k - 1) /\ Len(ds) + (k - 1) = Len(cs)
    BY <2>5, SinceIsPart
  <2>7. Confirmed(ds, th) \in Seq(Pull) /\ Confirmed(cs, th) = f \o Confirmed(ds, th)
    BY <2>4, <2>6, CutAt
  <2>8. ASSUME Confirmed(ds, th) = << >>, Len(F) > 0
        PROVE  F[Len(F)].conf \in bounds
    <3>1. F = f
      <4>1. f \o << >> = f
        BY ConcatEmptySeq
      <4>. QED BY <2>7, <2>8, <4>1
    <3>2. k \in 0..Len(cs)
      BY DayLength
    <3>3. ScanOK(cs, States(cs, th)[k], k)
      BY <3>2, StatesAre
    <3>4. Ended(cs, f, k, k)
      BY <2>4, <3>3 DEF ScanOK, Reset
    <3>5. f[Len(f)].conf = cs[k].time
      BY <2>8, <3>1, <3>4 DEF Ended
    <3>. QED BY <2>1, <2>4, <3>1, <3>5
  <2>. QED BY <2>7, <2>8 DEF ds, EndOf
<1>. QED BY <1>1, <1>2

\* The pullback of the running cycle is the last one of the whole history.
LEMMA CurrentIs ==
    ASSUME NEW cs, IsDay(cs), Detector.disallowSame, Detector.minBetween = 0,
           NEW prm, NEW th, th = EntryThresholds(prm.bp), prm.bounds \subseteq ConfTimes(cs, th),
           NEW p, p = CurrentPullback(cs, prm), p # NoPullback,
           NEW F, F = Confirmed(cs, th)
    PROVE  Len(F) \in 1..Len(F) /\ p = F[Len(F)] /\ p.conf = cs[Len(cs)].time
<1>. DEFINE T == cs[Len(cs)].time
            g == Confirmed(CycleCandles(cs, prm.bounds), th)
            a == Max({1, Len(g) - Detector.maxCount + 1})
            L == SubSeq(g, a, Len(g))
            now == {i \in DOMAIN L : L[i].conf = T}
<1>1. EndOf(g, F)
  BY CycleIsPart
<1>2. p = IF now = {} THEN NoPullback ELSE L[Max(now)]
  BY DEF CurrentPullback, ConfirmedAt, Latest
<1>3. T \in Int
  BY DayLength, CandleFacts
<1>. HIDE DEF g, T
<1>4. g \in Seq(Pull) /\ Len(g) \in Nat
  BY <1>1, LenProperties DEF EndOf
<1>5. a \in Int /\ a >= 1
  <2>1. PICK x \in Int : x = Len(g) - Detector.maxCount + 1
    BY <1>4, DetectorAssumption
  <2>2. Max({1, x}) \in Int /\ Max({1, x}) >= 1
    BY PairBounds
  <2>. QED BY <2>1, <2>2
<1>. HIDE DEF a
<1>6. /\ L \in Seq(Pull) /\ Len(L) = (IF a <= Len(g) THEN Len(g) - a + 1 ELSE 0)
      /\ \A i \in 1..(Len(g) - a + 1) : L[i] = g[a + i - 1]
  <2>1. \A i \in a..Len(g) : g[i] \in Pull
    BY <1>4, <1>5, ElementOfSeq
  <2>. QED BY <1>4, <1>5, <2>1, SubSeqProperties
<1>. HIDE DEF L
<1>7. DOMAIN L = 1..Len(L)
  BY <1>6, LenProperties
<1>7a. Len(L) \in Nat
  BY <1>6, LenProperties
<1>8. Max(now) \in now
  <2>1. now # {}
    BY <1>2
  <2>2. IsFiniteSet(now)
    <3>1. PICK z \in Int : z = Len(L)
      BY <1>7a
    <3>2. IsFiniteSet(1..z)
      BY FS_Interval
    <3>3. now \subseteq 1..z
      BY <1>7, <3>1
    <3>. HIDE DEF now
    <3>. QED BY <3>2, <3>3, FS_Subset
  <2>3. now \in SUBSET Int
    BY <1>7
  <2>. HIDE DEF now
  <2>. QED BY <2>1, <2>2, <2>3, MaxIsGreatest
<1>9. PICK i \in 1..Len(L) : p = L[i] /\ p.conf = T
  <2>. DEFINE i == Max(now)
  <2>1. i \in 1..Len(L) /\ L[i].conf = T
    BY <1>7, <1>8
  <2>2. p = L[i]
    BY <1>2
  <2>. HIDE DEF i
  <2>. QED BY <2>1, <2>2
<1>10. PICK x \in 1..Len(g) : p = g[x]
  <2>1. i \in 1..(Len(g) - a + 1) /\ a + i - 1 \in 1..Len(g)
    BY <1>4, <1>5, <1>6
  <2>2. p = g[a + i - 1]
    BY <1>6, <1>9, <2>1
  <2>. QED BY <2>1, <2>2
<1>11. PICK f \in Seq(Pull) : F = f \o g
  BY <1>1 DEF EndOf
<1>12. PICK y \in 1..Len(F) : p = F[y]
  <2>1. /\ Len(F) = Len(f) + Len(g) /\ Len(f) \in Nat
        /\ \A z \in 1..(Len(f) + Len(g)) : F[z] = IF z <= Len(f) THEN f[z] ELSE g[z - Len(f)]
    BY <1>4, <1>11, ConcatProperties, LenProperties
  <2>2. Len(f) + x \in 1..Len(F) /\ ~(Len(f) + x <= Len(f)) /\ (Len(f) + x) - Len(f) = x
    BY <1>4, <2>1
  <2>3. F[Len(f) + x] = g[x]
    BY <2>1, <2>2
  <2>. QED BY <1>10, <2>2, <2>3
<1>13. Len(F) \in Nat /\ \A j \in 1..Len(F) : F[j].conf \in Nat /\ F[j].conf <= T
  BY ConfirmedFacts DEF T
<1>14. y = Len(F)
  <2>. SUFFICES ASSUME y # Len(F) PROVE FALSE
    OBVIOUS
  <2>1. Len(F) \in 1..Len(F) /\ y < Len(F)
    BY <1>13
  <2>2. F[y].conf < F[Len(F)].conf
    BY <2>1, ConfirmedInOrder
  <2>3. F[Len(F)].conf <= T /\ F[Len(F)].conf \in Nat /\ F[y].conf = T
    BY <1>9, <1>12, <1>13, <2>1
  <2>. QED BY <1>3, <2>2, <2>3
<1>. QED BY <1>9, <1>12, <1>13, <1>14 DEF T

----------------------------------------------------------------------------
(* The live side.  The invariant says that everybody who decides knows of     *)
(* entries only where the scan of the whole day was reset (ParamSet), that    *)
(* every signal is a pullback of this scan (IsOfDay), that the signals of one *)
(* candle are all the same setup (OneSetup), that an entry has a signal that  *)
(* protects its setup (HasSignal), and that the one run that may order is     *)
(* ahead of all entries (Ahead).                                              *)

\* The premises: a run sees the whole day, and a cut at an entry is where the
\* scan begins anew ...
WholeDay ==
  /\ Final /\ Detector.disallowSame /\ Detector.minBetween = 0
  /\ LiveWindow >= MaxCandles

\* ... and, for what is to hold of every behaviour, nobody saves an old form.
NoForms == "edit" \notin Kinds

Found(cs) == Confirmed(cs, EntryThresholds(Thresholds[1]))

Bounds(cs) == ConfTimes(cs, EntryThresholds(Thresholds[1]))

ParamSet(cs) ==
  [bp : {Thresholds[1]}, bounds : SUBSET Bounds(cs), lastCandle : Nat, lastLow : Nat,
   override : {"NONE", "LOCKED", "UNLOCKED"}]

RunSet(cs) == [at : {"idle", "waiting", "ordering"}, params : ParamSet(cs), signal : Nat]

Statuses == {"REJECTED", "SENT", "RECONCILING", "EXECUTED", "FAILED"}

IsSignal(s) ==
  \E zones, mults : s \in [conf : Nat, low : Nat, zone : zones, peak : Nat, mult : mults,
                           status : Statuses, filled : BOOLEAN]

IsSeq(s) == Len(s) \in Nat /\ DOMAIN s = 1..Len(s) /\ \E S : s \in Seq(S)

\* A pullback of the day: its confirmation, its low and its swing high.
IsOfDay(cs, s) ==
  \E j \in 1..Len(Found(cs)) : /\ Found(cs)[j].conf = s.conf
                               /\ Found(cs)[j].lowTime = s.low
                               /\ Found(cs)[j].peak = s.peak

\* The zone of a setup that the last candle confirms.
ZoneNow(cs) == MatchingZone(Found(cs)[Len(Found(cs))], CloseTime(cs[Len(cs)]), cs[Len(cs)].close).id

SignalsOfDay ==
  /\ IsSeq(signals)
  /\ \A i \in 1..Len(signals) : IsSignal(signals[i]) /\ IsOfDay(candles, signals[i])

OneSetup ==
  \A i \in 1..Len(signals) : signals[i].conf = candles[Len(candles)].time => signals[i].zone = ZoneNow(candles)

HasFilled(s) == s.status = "EXECUTED" \/ (s.status = "RECONCILING" /\ s.filled)

HasSignal(all, e) ==
  \E i \in 1..Len(all) : all[i].conf = e.conf /\ all[i].peak = e.peak /\ HasFilled(all[i])

EntriesHaveSignals == IsSeq(entries) /\ \A j \in 1..Len(entries) : HasSignal(signals, entries[j])

Ahead(r) ==
  /\ run[r].signal \in 1..Len(signals)
  /\ signals[run[r].signal].status = "SENT"
  /\ \A j \in 1..Len(entries) : entries[j].conf < signals[run[r].signal].conf

Orders ==
  /\ \A r \in Runs : run[r].at = "ordering" => Ahead(r)
  /\ \A r, q \in Runs : run[r].at = "ordering" /\ run[q].at = "ordering" => r = q

LiveInv ==
  /\ Day
  /\ params \in ParamSet(candles)
  /\ run \in [Runs -> RunSet(candles)]
  /\ SignalsOfDay /\ OneSetup /\ EntriesHaveSignals /\ Orders

\* The confirmed pullbacks of the day.
LEMMA FoundFacts ==
    ASSUME Day, NEW F, F = Found(candles)
    PROVE  /\ F \in Seq(Pull) /\ Len(F) \in Nat
           /\ \A j \in 1..Len(F) : /\ F[j] \in Pull /\ F[j].conf \in Nat /\ F[j].peak \in Nat /\ F[j].lowTime \in Nat
                                   /\ \E k \in 1..Len(candles) : F[j].conf = candles[k].time
                                   /\ \E k \in 1..Len(candles) : F[j].peak = candles[k].time
                                   /\ F[j].conf <= candles[Len(candles)].time
                                   /\ Detector.disallowSame => F[j].peak < F[j].conf
<1>1. IsDay(candles)
  BY DayIsDay
<1>2. /\ F \in Seq(Pull) /\ Len(F) \in Nat
      /\ \A j \in 1..Len(F) : /\ F[j] \in Pull /\ F[j].conf \in Nat /\ F[j].peak \in Nat
                              /\ \E k \in 1..Len(candles) : F[j].conf = candles[k].time
                              /\ \E k \in 1..Len(candles) : F[j].peak = candles[k].time
                              /\ F[j].conf <= candles[Len(candles)].time
                              /\ Detector.disallowSame => F[j].peak < F[j].conf
  <2>1. PICK th : th = EntryThresholds(Thresholds[1])
    OBVIOUS
  <2>2. F = Confirmed(candles, th)
    BY <2>1 DEF Found
  <2>. QED BY <1>1, <2>2, ConfirmedFacts
<1>3. \A j \in 1..Len(F) : F[j] \in Pull => F[j].lowTime \in Nat
  BY DEF Pull
<1>. QED BY <1>2, <1>3

\* In their order.
LEMMA FoundInOrder ==
    ASSUME Day, Detector.disallowSame, NEW F, F = Found(candles)
    PROVE  /\ \A a, b \in 1..Len(F) : F[a].conf = F[b].conf => a = b
           /\ \A a, b \in 1..Len(F) : F[a].conf < F[b].conf => F[a].conf <= F[b].peak
<1>1. IsDay(candles)
  BY DayIsDay
<1>. QED BY <1>1, ConfirmedInOrder DEF Found

\* A run sees the whole day.
LEMMA WindowIsDay == ASSUME Day, LiveWindow >= MaxCandles PROVE Window300 = candles
<1>. DEFINE n == Len(candles)
<1>1. n \in Nat /\ 1 <= n /\ n <= MaxCandles /\ MaxCandles \in Nat /\ LiveWindow \in Nat /\ candles \in Seq(Candle)
  BY LenProperties, LiveAssumption DEF Day
<1>2. PICK x \in Int : x = n - LiveWindow + 1 /\ x <= 1
  BY <1>1
<1>3. Max({1, x}) = 1
  <2>1. {1, x} \in SUBSET Int /\ {1, x} # {}
    OBVIOUS
  <2>2. IsFiniteSet({1, x})
    <3>1. {1, x} = {1} \cup {x}
      OBVIOUS
    <3>2. IsFiniteSet({1}) /\ IsFiniteSet({x})
      BY FS_Singleton
    <3>. QED BY <3>1, <3>2, FS_Union
  <2>3. Max({1, x}) \in {1, x} /\ \A y \in {1, x} : y <= Max({1, x})
    BY <2>1, <2>2, MaxIsGreatest
  <2>. QED BY <1>2, <2>3
<1>. HIDE DEF n
<1>4. Window300 = SubSeq(candles, Max({1, x}), n)
  BY <1>2 DEF Window300, Window, n
<1>5. SubSeq(candles, 1, n) = candles
  BY <1>1, SubSeqFull DEF n
<1>. QED BY <1>3, <1>4, <1>5

\* What a run decides to buy is the last pullback of the day.
LEMMA DecisionIs ==
    ASSUME WholeDay, Day, NEW prm \in ParamSet(candles), NEW known,
           NEW d, d = ShouldBuy(Window300, prm, known, LastClose), d # NoEntry
    PROVE  /\ IsOfDay(candles, d) /\ d.conf = candles[Len(candles)].time /\ d.zone = ZoneNow(candles)
           /\ Len(Found(candles)) \in 1..Len(Found(candles))
           /\ d.conf = Found(candles)[Len(Found(candles))].conf
           /\ d.low = Found(candles)[Len(Found(candles))].lowTime
           /\ \E zones, mults : d \in [conf : Nat, low : Nat, peak : Nat, zone : zones, mult : mults]
<1>. DEFINE last == candles[Len(candles)]
            p == CurrentPullback(candles, prm)
            zone == MatchingZone(p, CloseTime(last), LastClose)
            mult == Multiplier(LastClose, zone)
            F == Found(candles)
<1>0. LastClose = last.close
  BY DEF LastClose
<1>1. d = EntryOf(p, candles, prm, known, LastClose)
  <2>1. Window300 = candles
    BY WindowIsDay DEF WholeDay
  <2>. QED BY <2>1 DEF ShouldBuy
<1>2. /\ p # NoPullback
      /\ d = [conf |-> last.time, low |-> p.lowTime, peak |-> p.peak, zone |-> zone.id, mult |-> mult]
  <2>. HIDE DEF p
  <2>. QED BY <1>1 DEF EntryOf
<1>3. Len(F) \in 1..Len(F) /\ p = F[Len(F)] /\ p.conf = last.time
  <2>1. IsDay(candles)
    BY DayIsDay
  <2>2. prm.bp = Thresholds[1] /\ prm.bounds \subseteq Bounds(candles)
    BY DEF ParamSet
  <2>3. PICK th : th = EntryThresholds(prm.bp)
    OBVIOUS
  <2>4. F = Confirmed(candles, th) /\ prm.bounds \subseteq ConfTimes(candles, th)
    BY <2>2, <2>3 DEF Found, Bounds
  <2>. HIDE DEF F, p
  <2>5. p = CurrentPullback(candles, prm)
    BY DEF p
  <2>6. Detector.disallowSame /\ Detector.minBetween = 0
    BY DEF WholeDay
  <2>. QED BY <1>2, <2>1, <2>3, <2>4, <2>5, <2>6, CurrentIs
<1>. HIDE DEF F, p, zone, mult
<1>4. F[Len(F)].peak \in Nat /\ F[Len(F)].lowTime \in Nat /\ F[Len(F)].conf \in Nat
  BY <1>3, FoundFacts DEF F
<1>5. d \in [conf : Nat, low : Nat, peak : Nat, zone : {zone.id}, mult : {mult}]
  BY <1>2, <1>3, <1>4
<1>6. \E zones, mults : d \in [conf : Nat, low : Nat, peak : Nat, zone : zones, mult : mults]
  BY <1>5
<1>7. d.conf = last.time /\ d.low = F[Len(F)].lowTime /\ d.peak = F[Len(F)].peak /\ d.conf = F[Len(F)].conf
      /\ d.zone = zone.id
  BY <1>2, <1>3
<1>8. zone.id = ZoneNow(candles)
  BY <1>0, <1>3 DEF zone, ZoneNow, F
<1>9. IsOfDay(candles, d)
  BY <1>3, <1>7 DEF IsOfDay, F
<1>. QED BY <1>3, <1>6, <1>7, <1>8, <1>9 DEF F

\* One element more.
Added(s, e) == Append(s, e)

\* What it is made of.
LEMMA AppendIs ==
    ASSUME NEW s, IsSeq(s), NEW e
    PROVE  /\ IsSeq(Added(s, e)) /\ Len(Added(s, e)) = Len(s) + 1
           /\ \A i \in 1..Len(s) : Added(s, e)[i] = s[i]
           /\ Added(s, e)[Len(s) + 1] = e
<1>. DEFINE t == Added(s, e)
<1>1. PICK S : s \in Seq(S)
  BY DEF IsSeq
<1>. DEFINE R == S \cup {e}
<1>2. s \in Seq(R)
  <2>1. Len(s) \in Nat /\ s = [i \in 1..Len(s) |-> s[i]] /\ \A i \in 1..Len(s) : s[i] \in S
    BY <1>1, LenProperties, ElementOfSeq
  <2>2. \A i \in 1..Len(s) : s[i] \in R
    BY <2>1
  <2>. HIDE DEF R
  <2>3. [i \in 1..Len(s) |-> s[i]] \in Seq(R)
    BY <2>1, <2>2, IsASeq
  <2>. QED BY <2>1, <2>3
<1>3. e \in R
  OBVIOUS
<1>. HIDE DEF R
<1>4. /\ t \in Seq(R) /\ Len(t) = Len(s) + 1
      /\ \A i \in 1..Len(s) : t[i] = s[i]
      /\ t[Len(s) + 1] = e
  BY <1>2, <1>3, AppendProperties DEF Added
<1>. HIDE DEF t
<1>5. Len(t) \in Nat /\ DOMAIN t = 1..Len(t)
  BY <1>4, LenProperties
<1>. QED BY <1>4, <1>5 DEF IsSeq, t

\* One element another.
Replaced(s, i, e) == [s EXCEPT ![i] = e]

\* What it is made of then.
LEMMA ReplaceIs ==
    ASSUME NEW s, IsSeq(s), NEW i \in 1..Len(s), NEW e
    PROVE  /\ IsSeq(Replaced(s, i, e)) /\ Len(Replaced(s, i, e)) = Len(s)
           /\ \A j \in 1..Len(s) : Replaced(s, i, e)[j] = IF j = i THEN e ELSE s[j]
<1>. DEFINE t == Replaced(s, i, e)
<1>1. PICK S : s \in Seq(S)
  BY DEF IsSeq
<1>. DEFINE R == S \cup {e}
            n == Len(s)
<1>2. n \in Nat /\ s = [j \in 1..n |-> s[j]] /\ \A j \in 1..n : s[j] \in S
  BY <1>1, LenProperties, ElementOfSeq
<1>. HIDE DEF n
<1>3. t = [j \in 1..n |-> IF j = i THEN e ELSE s[j]]
  BY <1>2 DEF Replaced
<1>. HIDE DEF t
<1>4. \A j \in 1..n : t[j] = IF j = i THEN e ELSE s[j]
  BY <1>3
<1>5. \A j \in 1..n : t[j] \in R
  BY <1>2, <1>4
<1>6. t = [j \in 1..n |-> t[j]]
  BY <1>3
<1>. HIDE DEF R
<1>7. t \in Seq(R)
  <2>1. [j \in 1..n |-> t[j]] \in Seq(R)
    BY <1>2, <1>5, IsASeq
  <2>. QED BY <1>6, <2>1
<1>8. Len(t) \in Nat /\ DOMAIN t = 1..Len(t)
  BY <1>7, LenProperties
<1>9. DOMAIN t = 1..n
  BY <1>3
<1>10. Len(t) = n
  BY <1>2, <1>8, <1>9
<1>. QED BY <1>4, <1>7, <1>8, <1>10 DEF IsSeq, n, t

\* A signal changes its status and keeps its setup.
SetupOf(s, t) == t.conf = s.conf /\ t.low = s.low /\ t.zone = s.zone /\ t.peak = s.peak

\* A new status makes a signal of a signal,
LEMMA StatusChanged ==
    ASSUME NEW s, IsSignal(s), NEW st \in Statuses
    PROVE  /\ IsSignal([s EXCEPT !.status = st]) /\ SetupOf(s, [s EXCEPT !.status = st])
           /\ [s EXCEPT !.status = st].status = st /\ [s EXCEPT !.status = st].filled = s.filled
<1>1. PICK zones, mults : s \in [conf : Nat, low : Nat, zone : zones, peak : Nat, mult : mults,
                                 status : Statuses, filled : BOOLEAN]
  BY DEF IsSignal
<1>. DEFINE t == [s EXCEPT !.status = st]
<1>2. /\ t \in [conf : Nat, low : Nat, zone : zones, peak : Nat, mult : mults,
                status : Statuses, filled : BOOLEAN]
      /\ SetupOf(s, t) /\ t.status = st /\ t.filled = s.filled
  BY <1>1 DEF SetupOf
<1>. HIDE DEF t
<1>3. IsSignal(t)
  BY <1>2 DEF IsSignal
<1>. QED BY <1>2, <1>3 DEF t

\* and so does the broker's fill.
LEMMA FilledChanged ==
    ASSUME NEW s, IsSignal(s), NEW t, t = [s EXCEPT !.filled = TRUE]
    PROVE  IsSignal(t) /\ SetupOf(s, t) /\ t.status = s.status /\ t.filled
<1>1. PICK zones, mults : s \in [conf : Nat, low : Nat, zone : zones, peak : Nat, mult : mults,
                                 status : Statuses, filled : BOOLEAN]
  BY DEF IsSignal
<1>2. /\ t \in [conf : Nat, low : Nat, zone : zones, peak : Nat, mult : mults,
                status : Statuses, filled : BOOLEAN]
      /\ SetupOf(s, t) /\ t.status = s.status /\ t.filled
  BY <1>1 DEF SetupOf
<1>. QED BY <1>2 DEF IsSignal

\* What a change of one signal's status keeps.
Updated(i, e) == /\ IsSignal(e) /\ SetupOf(signals[i], e)
                 /\ signals' = [signals EXCEPT ![i] = e]

\* The setup of every signal stays, and so does what is said of them.
LEMMA UpdateKeeps ==
    ASSUME SignalsOfDay, OneSetup, candles' = candles, NEW i \in 1..Len(signals), NEW e, Updated(i, e)
    PROVE  /\ SignalsOfDay' /\ OneSetup' /\ Len(signals') = Len(signals)
           /\ \A j \in 1..Len(signals) : signals'[j] = IF j = i THEN e ELSE signals[j]
           /\ \A j \in 1..Len(signals) : SetupOf(signals[j], signals'[j])
<1>1. /\ IsSeq(signals') /\ Len(signals') = Len(signals)
      /\ \A j \in 1..Len(signals) : signals'[j] = IF j = i THEN e ELSE signals[j]
  <2>1. PICK t : t = signals'
    OBVIOUS
  <2>2. IsSeq(signals) /\ t = Replaced(signals, i, e)
    BY <2>1 DEF SignalsOfDay, Updated, Replaced
  <2>3. /\ IsSeq(t) /\ Len(t) = Len(signals)
        /\ \A j \in 1..Len(signals) : t[j] = IF j = i THEN e ELSE signals[j]
    BY <2>2, ReplaceIs
  <2>4. IsSeq(signals') <=> IsSeq(t)
    BY <2>1 DEF IsSeq
  <2>. QED BY <2>1, <2>3, <2>4
<1>2. \A j \in 1..Len(signals) : SetupOf(signals[j], signals'[j])
  BY <1>1 DEF SetupOf, Updated
<1>3. \A j \in 1..Len(signals) : IsSignal(signals'[j]) /\ IsOfDay(candles, signals'[j])
  <2>. TAKE j \in 1..Len(signals)
  <2>1. IsSignal(signals[j]) /\ IsOfDay(candles, signals[j]) /\ SetupOf(signals[j], signals'[j])
    BY <1>2 DEF SignalsOfDay
  <2>2. IsOfDay(candles, signals'[j])
    BY <2>1 DEF IsOfDay, SetupOf
  <2>3. IsSignal(signals'[j])
    BY <1>1, <2>1 DEF Updated
  <2>. QED BY <2>2, <2>3
<1>4. SignalsOfDay'
  BY <1>1, <1>3 DEF SignalsOfDay
<1>5. OneSetup'
  <2>1. \A j \in 1..Len(signals) : signals'[j].conf = signals[j].conf /\ signals'[j].zone = signals[j].zone
    BY <1>2 DEF SetupOf
  <2>. QED BY <1>1, <2>1 DEF OneSetup
<1>. QED BY <1>1, <1>2, <1>4, <1>5

\* Who knows of an entry, knows of it later.
LEMMA BoundsGrow ==
    ASSUME Final, Day, CloseCandle
    PROVE  /\ Bounds(candles) \subseteq Bounds(candles')
           /\ \A s : IsOfDay(candles, s) => IsOfDay(candles', s)
<1>. DEFINE F == Found(candles)
            G == Found(candles')
<1>1. F \in Seq(Pull) /\ Len(F) \in Nat
  BY FoundFacts
<1>2. Day' /\ Len(candles') = Len(candles) + 1 /\ Part(candles, candles', 0)
  BY CandleCloses
<1>3. G \in Seq(Pull) /\ Len(G) \in Nat
  <2>1. IsDay(candles')
    BY <1>2 DEF Part
  <2>. QED BY <2>1, ConfirmedFacts DEF Found
<1>4. IsPrefix(F, G)
  BY <1>2, OneMoreCandle DEF Found
<1>. HIDE DEF F, G
<1>5. Len(F) <= Len(G)
  BY <1>4 DEF IsPrefix
<1>6. \A j \in 1..Len(F) : F[j] = G[j]
  BY <1>1, <1>3, <1>4, PrefixTells
<1>7. \A j \in 1..Len(F) : j \in 1..Len(G) /\ F[j] = G[j]
  BY <1>1, <1>3, <1>5, <1>6
<1>8. Bounds(candles) = {F[j].conf : j \in 1..Len(F)} /\ Bounds(candles') = {G[j].conf : j \in 1..Len(G)}
  BY DEF Bounds, ConfTimes, F, G, Found
<1>9. Bounds(candles) \subseteq Bounds(candles')
  BY <1>7, <1>8
<1>10. \A s : IsOfDay(candles, s) => IsOfDay(candles', s)
  BY <1>7 DEF IsOfDay, F, G
<1>. QED BY <1>9, <1>10

\* So do the parameters and runs that are possible.
LEMMA TypesGrow ==
    ASSUME Bounds(candles) \subseteq Bounds(candles')
    PROVE  ParamSet(candles) \subseteq ParamSet(candles') /\ RunSet(candles) \subseteq RunSet(candles')
<1>1. ParamSet(candles) \subseteq ParamSet(candles')
  BY DEF ParamSet
<1>. HIDE DEF ParamSet
<1>2. RunSet(candles) \subseteq RunSet(candles')
  BY <1>1 DEF RunSet
<1>. QED BY <1>1, <1>2

\* A candle closes: no signal is of the new candle yet.
LEMMA CloseKeeps == ASSUME WholeDay, LiveInv, CloseCandle PROVE LiveInv'
<1>0. Day /\ SignalsOfDay /\ EntriesHaveSignals /\ Orders
      /\ params \in ParamSet(candles) /\ run \in [Runs -> RunSet(candles)]
  BY DEF LiveInv
<1>1. Day' /\ Len(candles') = Len(candles) + 1
  BY <1>0, CandleCloses
<1>2. /\ Bounds(candles) \subseteq Bounds(candles')
      /\ \A s : IsOfDay(candles, s) => IsOfDay(candles', s)
  BY <1>0, BoundsGrow DEF WholeDay
<1>3. ParamSet(candles) \subseteq ParamSet(candles') /\ RunSet(candles) \subseteq RunSet(candles')
  BY <1>2, TypesGrow
<1>4. UNCHANGED <<params, signals, run, entries>>
  BY DEF CloseCandle
<1>5. params' \in ParamSet(candles') /\ run' \in [Runs -> RunSet(candles')]
  BY <1>0, <1>3, <1>4
<1>6. SignalsOfDay'
  BY <1>0, <1>2, <1>4 DEF SignalsOfDay
<1>7. OneSetup'
  <2>1. \A i \in 1..Len(signals) : signals[i].conf # candles'[Len(candles')].time
    <3>. TAKE i \in 1..Len(signals)
    <3>1. IsOfDay(candles, signals[i])
      BY <1>0 DEF SignalsOfDay
    <3>2. PICK j \in 1..Len(Found(candles)) : Found(candles)[j].conf = signals[i].conf
      BY <3>1 DEF IsOfDay
    <3>3. signals[i].conf \in Nat /\ signals[i].conf <= candles[Len(candles)].time
      BY <1>0, <3>2, FoundFacts
    <3>4. Len(candles) \in 1..Len(candles) /\ Len(candles) \in Nat /\ Len(candles') \in 1..Len(candles')
      BY <1>0, <1>1 DEF Day
    <3>5. candles[Len(candles)].time = Bar * Len(candles) /\ candles'[Len(candles')].time = Bar * (Len(candles) + 1)
      BY <1>0, <1>1, <3>4 DEF Day
    <3>. QED BY <3>3, <3>4, <3>5 DEF Bar
  <2>. QED BY <1>4, <2>1 DEF OneSetup
<1>8. EntriesHaveSignals' /\ Orders'
  BY <1>0, <1>4 DEF EntriesHaveSignals, Orders, Ahead
<1>. QED BY <1>1, <1>5, <1>6, <1>7, <1>8 DEF LiveInv

\* A run that returns, or waits, does not order.
LEMMA RunKeeps ==
    ASSUME run \in [Runs -> RunSet(candles)], Orders, NEW r \in Runs, NEW x \in RunSet(candles),
           x.at # "ordering", run' = [run EXCEPT ![r] = x],
           run[r].at = "ordering" \/ (signals' = signals /\ entries' = entries)
    PROVE  run' \in [Runs -> RunSet(candles)] /\ Orders'
<1>1. run' \in [Runs -> RunSet(candles)]
  OBVIOUS
<1>2. \A q \in Runs : run'[q] = IF q = r THEN x ELSE run[q]
  OBVIOUS
<1>3. \A q \in Runs : run'[q].at = "ordering" => q # r /\ run[q].at = "ordering" /\ run'[q] = run[q]
  BY <1>2
<1>4. \A q \in Runs : run'[q].at = "ordering" => signals' = signals /\ entries' = entries
  BY <1>3 DEF Orders
<1>5. ASSUME NEW q \in Runs, run'[q].at = "ordering"
      PROVE  Ahead(q)'
  <2>1. Ahead(q) /\ signals' = signals /\ entries' = entries /\ run'[q] = run[q]
    BY <1>3, <1>4, <1>5 DEF Orders
  <2>. QED BY <2>1 DEF Ahead
<1>6. \A q, p \in Runs : run'[q].at = "ordering" /\ run'[p].at = "ordering" => q = p
  BY <1>3 DEF Orders
<1>. QED BY <1>1, <1>5, <1>6 DEF Orders

\* The configuration a run returns with.
LEMMA IdleIsRun == Idle \in RunSet(candles) /\ Idle.at # "ordering" /\ NoParams \in ParamSet(candles)
BY DEF Idle, RunSet, ParamSet, NoParams

\* What holds of signals and entries that nobody touches.
LEMMA SameKeeps ==
    ASSUME LiveInv, candles' = candles, signals' = signals, entries' = entries
    PROVE  Day' /\ SignalsOfDay' /\ OneSetup' /\ EntriesHaveSignals'
BY DEF LiveInv, Day, SignalsOfDay, OneSetup, EntriesHaveSignals

\* A run loads the parameters, or gives up.
LEMMA LoadKeeps ==
    ASSUME LiveInv, NEW r \in Runs, Load(r) \/ LockTimeout(r)
    PROVE  LiveInv'
<1>0. Orders /\ params \in ParamSet(candles) /\ run \in [Runs -> RunSet(candles)]
  BY DEF LiveInv
<1>1. UNCHANGED <<candles, params, signals, entries>>
  BY DEF Load, LockTimeout
<1>2. PICK x \in RunSet(candles) : x.at # "ordering" /\ run' = [run EXCEPT ![r] = x]
  <2>1. CASE Load(r)
    <3>. DEFINE x == [at |-> "waiting", params |-> params, signal |-> 0]
    <3>1. x \in RunSet(candles) /\ x.at # "ordering"
      BY <1>0 DEF RunSet
    <3>. QED BY <2>1, <3>1 DEF Load
  <2>2. CASE LockTimeout(r)
    BY <2>2, IdleIsRun DEF LockTimeout, Return
  <2>. QED BY <2>1, <2>2
<1>3. run' \in [Runs -> RunSet(candles)] /\ Orders'
  BY <1>0, <1>1, <1>2, RunKeeps
<1>4. Day' /\ SignalsOfDay' /\ OneSetup' /\ EntriesHaveSignals'
  BY <1>1, SameKeeps
<1>. QED BY <1>0, <1>1, <1>3, <1>4 DEF LiveInv

\* A decision that is no duplicate lies after every entry.
LEMMA DecisionIsAhead ==
    ASSUME WholeDay, LiveInv, NEW prm \in ParamSet(candles), NEW known,
           NEW d, d = ShouldBuy(Window300, prm, known, LastClose), d # NoEntry, ~DuplicateSetup(d)
    PROVE  \A j \in 1..Len(entries) : entries[j].conf < d.conf
<1>. DEFINE F == Found(candles)
            T == candles[Len(candles)].time
            n == Len(F)
<1>0. Day /\ SignalsOfDay /\ OneSetup /\ EntriesHaveSignals /\ Detector.disallowSame
  BY DEF LiveInv, WholeDay
<1>1. /\ d.conf = T /\ d.zone = ZoneNow(candles) /\ n \in 1..n /\ d.conf = F[n].conf /\ d.low = F[n].lowTime
  BY <1>0, DecisionIs
<1>2. \A j \in 1..Len(F) : F[j].conf \in Nat /\ F[j].conf <= T
  BY <1>0, FoundFacts
<1>. TAKE j \in 1..Len(entries)
<1>3. PICK i \in 1..Len(signals) : signals[i].conf = entries[j].conf /\ HasFilled(signals[i])
  BY <1>0 DEF EntriesHaveSignals, HasSignal
<1>4. PICK x \in 1..Len(F) : F[x].conf = signals[i].conf /\ F[x].lowTime = signals[i].low
  BY <1>0 DEF SignalsOfDay, IsOfDay
<1>5. signals[i].conf # T
  <2>. SUFFICES ASSUME signals[i].conf = T PROVE FALSE
    OBVIOUS
  <2>1. signals[i].zone = d.zone
    BY <1>0, <1>1 DEF OneSetup
  <2>2. x = n
    <3>1. F[x].conf = F[n].conf
      BY <1>1, <1>4
    <3>2. \A a, b \in 1..Len(F) : F[a].conf = F[b].conf => a = b
      BY <1>0, FoundInOrder
    <3>. HIDE DEF F
    <3>. QED BY <1>1, <3>1, <3>2
  <2>3. signals[i].low = d.low
    BY <1>1, <1>4, <2>2
  <2>4. SameSetup(signals[i], d)
    BY <1>1, <2>1, <2>3 DEF SameSetup
  <2>5. signals[i].status \in Protected
    BY <1>3 DEF HasFilled, Protected
  <2>6. i \in DOMAIN signals
    BY <1>0 DEF SignalsOfDay, IsSeq
  <2>. QED BY <2>4, <2>5, <2>6 DEF DuplicateSetup
<1>6. signals[i].conf \in Nat /\ signals[i].conf <= T
  BY <1>2, <1>4
<1>7. T \in Nat
  BY <1>1, <1>2
<1>. HIDE DEF T
<1>. QED BY <1>1, <1>3, <1>5, <1>6, <1>7

\* The signal that a run saves.
LEMMA SignalSaved ==
    ASSUME WholeDay, LiveInv, candles' = candles, entries' = entries, NEW prm \in ParamSet(candles), NEW known,
           NEW d, d = ShouldBuy(Window300, prm, known, LastClose), d # NoEntry,
           NEW size, NEW status \in {"REJECTED", "SENT"},
           signals' = Append(signals, [conf |-> d.conf, low |-> d.low, zone |-> d.zone, peak |-> d.peak,
                                       mult |-> size, status |-> status, filled |-> FALSE])
    PROVE  /\ Day' /\ SignalsOfDay' /\ OneSetup' /\ EntriesHaveSignals'
           /\ Len(signals') = Len(signals) + 1 /\ Len(signals) \in Nat
           /\ signals'[Len(signals) + 1].status = status
           /\ signals'[Len(signals) + 1].conf = d.conf
           /\ \A i \in 1..Len(signals) : signals'[i] = signals[i]
           /\ d.conf \in Nat /\ d.low \in Nat
<1>. DEFINE s == [conf |-> d.conf, low |-> d.low, zone |-> d.zone, peak |-> d.peak,
                  mult |-> size, status |-> status, filled |-> FALSE]
            n == Len(signals)
<1>0. Day /\ SignalsOfDay /\ OneSetup /\ EntriesHaveSignals
  BY DEF LiveInv
<1>1. /\ IsOfDay(candles, d) /\ d.conf = candles[Len(candles)].time /\ d.zone = ZoneNow(candles)
      /\ \E zones, mults : d \in [conf : Nat, low : Nat, peak : Nat, zone : zones, mult : mults]
  BY <1>0, DecisionIs
<1>2. /\ IsSeq(signals') /\ Len(signals') = n + 1
      /\ \A i \in 1..n : signals'[i] = signals[i]
      /\ signals'[n + 1] = s
  <2>1. IsSeq(signals)
    BY <1>0 DEF SignalsOfDay
  <2>2. signals' = Added(signals, s)
    BY DEF Added
  <2>. HIDE DEF s
  <2>3. /\ IsSeq(Added(signals, s)) /\ Len(Added(signals, s)) = n + 1
        /\ \A i \in 1..n : Added(signals, s)[i] = signals[i]
        /\ Added(signals, s)[n + 1] = s
    BY <2>1, AppendIs
  <2>4. IsSeq(signals') <=> IsSeq(Added(signals, s))
    BY <2>2 DEF IsSeq
  <2>. QED BY <2>2, <2>3, <2>4
<1>3. d.conf \in Nat /\ d.low \in Nat /\ d.peak \in Nat
  BY <1>1
<1>4. IsSignal(s)
  <2>1. s \in [conf : Nat, low : Nat, zone : {d.zone}, peak : Nat, mult : {size}, status : Statuses, filled : BOOLEAN]
    BY <1>3 DEF Statuses
  <2>. HIDE DEF s
  <2>. QED BY <2>1 DEF IsSignal
<1>5. IsOfDay(candles, s)
  BY <1>1 DEF IsOfDay
<1>6. n \in Nat
  BY <1>0 DEF SignalsOfDay, IsSeq
<1>7. s.status = status /\ s.conf = d.conf /\ s.zone = d.zone
  OBVIOUS
<1>. HIDE DEF s
<1>8. \A i \in 1..Len(signals') : i = n + 1 \/ i \in 1..n
  BY <1>2, <1>6
<1>9. SignalsOfDay'
  <2>1. \A i \in 1..Len(signals') : IsSignal(signals'[i]) /\ IsOfDay(candles', signals'[i])
    BY <1>0, <1>2, <1>4, <1>5, <1>8 DEF SignalsOfDay
  <2>. QED BY <1>2, <2>1 DEF SignalsOfDay
<1>10. OneSetup'
  <2>1. \A i \in 1..Len(signals') :
          signals'[i].conf = candles'[Len(candles')].time => signals'[i].zone = ZoneNow(candles')
    BY <1>0, <1>1, <1>2, <1>7, <1>8 DEF OneSetup
  <2>. QED BY <2>1 DEF OneSetup
<1>11. EntriesHaveSignals'
  <2>1. \A j \in 1..Len(entries) : HasSignal(signals', entries[j])
    <3>. TAKE j \in 1..Len(entries)
    <3>1. PICK i \in 1..n : signals[i].conf = entries[j].conf /\ signals[i].peak = entries[j].peak /\ HasFilled(signals[i])
      BY <1>0 DEF EntriesHaveSignals, HasSignal
    <3>2. i \in 1..Len(signals') /\ signals'[i] = signals[i]
      BY <1>2, <1>6
    <3>. QED BY <3>1, <3>2 DEF HasSignal
  <2>. QED BY <1>0, <2>1 DEF EntriesHaveSignals
<1>12. Day'
  BY <1>0 DEF Day
<1>. QED BY <1>2, <1>3, <1>6, <1>7, <1>9, <1>10, <1>11, <1>12

\* The marks are a number each.
LEMMA MarksKeep ==
    ASSUME NEW prm \in ParamSet(candles), NEW a \in Nat, NEW b \in Nat
    PROVE  [prm EXCEPT !.lastCandle = a, !.lastLow = b] \in ParamSet(candles)
BY DEF ParamSet

\* A run decides, and saves its signal and its marks.
LEMMA EvaluateKeeps == ASSUME WholeDay, LiveInv, NEW r \in Runs, Evaluate(r) PROVE LiveInv'
<1>0. Orders /\ params \in ParamSet(candles) /\ run \in [Runs -> RunSet(candles)] /\ run[r].params \in ParamSet(candles)
  BY DEF LiveInv, RunSet
<1>1. candles' = candles /\ entries' = entries
  BY DEF Evaluate
<1>. DEFINE d == ShouldBuy(Window300, run[r].params, Known, LastClose)
            marked == [run[r].params EXCEPT !.lastCandle = d.conf, !.lastLow = d.low]
            size == Fitting(d.mult, PlannedEquivalents)
            status == IF ~DuplicateSetup(d) /\ size > 0 THEN "SENT" ELSE "REJECTED"
<1>2. CASE d = NoEntry
  <2>1. UNCHANGED <<params, signals>> /\ run' = [run EXCEPT ![r] = Idle]
    BY <1>2 DEF Evaluate, Return
  <2>2. run' \in [Runs -> RunSet(candles)] /\ Orders'
    BY <1>0, <1>1, <2>1, IdleIsRun, RunKeeps
  <2>3. Day' /\ SignalsOfDay' /\ OneSetup' /\ EntriesHaveSignals'
    BY <1>1, <2>1, SameKeeps
  <2>. QED BY <1>0, <1>1, <2>1, <2>2, <2>3 DEF LiveInv
<1>3. CASE d # NoEntry
  <2>1. /\ params' = marked
        /\ signals' = Append(signals, [conf |-> d.conf, low |-> d.low, zone |-> d.zone, peak |-> d.peak,
                                       mult |-> size, status |-> status, filled |-> FALSE])
        /\ run' = [run EXCEPT ![r] = IF status = "SENT"
                                     THEN [at |-> "ordering", params |-> marked, signal |-> Len(signals')]
                                     ELSE Idle]
    BY <1>3 DEF Evaluate
  <2>2. PICK known : d = ShouldBuy(Window300, run[r].params, known, LastClose)
    OBVIOUS
  <2>3. status \in {"REJECTED", "SENT"} /\ (status = "SENT" => ~DuplicateSetup(d))
    OBVIOUS
  <2>. HIDE DEF d, size, status
  <2>4. /\ Day' /\ SignalsOfDay' /\ OneSetup' /\ EntriesHaveSignals'
        /\ Len(signals') = Len(signals) + 1 /\ Len(signals) \in Nat
        /\ signals'[Len(signals) + 1].status = status
        /\ signals'[Len(signals) + 1].conf = d.conf
        /\ \A i \in 1..Len(signals) : signals'[i] = signals[i]
        /\ d.conf \in Nat /\ d.low \in Nat
    BY <1>0, <1>1, <1>3, <2>1, <2>2, <2>3, SignalSaved
  <2>5. marked \in ParamSet(candles)
    BY <1>0, <2>4, MarksKeep
  <2>. HIDE DEF marked
  <2>6. \A q \in Runs : run[q].at # "ordering"
    BY DEF Evaluate, LockFree
  <2>. DEFINE x == IF status = "SENT" THEN [at |-> "ordering", params |-> marked, signal |-> Len(signals')] ELSE Idle
  <2>7. x \in RunSet(candles)
    <3>1. Len(signals') \in Nat
      BY <2>4
    <3>2. [at |-> "ordering", params |-> marked, signal |-> Len(signals')] \in RunSet(candles)
      BY <2>5, <3>1 DEF RunSet
    <3>. QED BY <3>2, IdleIsRun
  <2>8. run' \in [Runs -> RunSet(candles)] /\ \A q \in Runs : run'[q] = IF q = r THEN x ELSE run[q]
    BY <1>0, <2>1, <2>7
  <2>9. \A q \in Runs : run'[q].at = "ordering" =>
          q = r /\ status = "SENT" /\ run'[q].signal = Len(signals) + 1
    <3>1. x.at = "ordering" => status = "SENT" /\ x.signal = Len(signals')
      BY IdleIsRun
    <3>. HIDE DEF x
    <3>. QED BY <2>4, <2>6, <2>8, <3>1
  <2>10. ASSUME NEW q \in Runs, run'[q].at = "ordering"
         PROVE  Ahead(q)'
    <3>1. status = "SENT" /\ run'[q].signal = Len(signals) + 1
      BY <2>9, <2>10
    <3>2. \A j \in 1..Len(entries) : entries[j].conf < d.conf
      BY <1>0, <1>3, <2>2, <2>3, <3>1, DecisionIsAhead
    <3>3. run'[q].signal \in 1..Len(signals')
      BY <2>4, <3>1
    <3>. QED BY <1>1, <2>4, <3>1, <3>2, <3>3 DEF Ahead
  <2>11. Orders'
    BY <2>9, <2>10 DEF Orders
  <2>. HIDE DEF x
  <2>. QED BY <1>1, <2>1, <2>4, <2>5, <2>8, <2>11 DEF LiveInv, marked
<1>. QED BY <1>2, <1>3


\* Nothing but the stored parameters changes.
LEMMA QuietKeeps ==
    ASSUME LiveInv, UNCHANGED <<candles, signals, run, entries>>, params' \in ParamSet(candles)
    PROVE  LiveInv'
<1>1. Day' /\ SignalsOfDay' /\ OneSetup' /\ EntriesHaveSignals'
  BY SameKeeps
<1>2. Orders'
  BY DEF LiveInv, Orders, Ahead
<1>3. params' \in ParamSet(candles') /\ run' \in [Runs -> RunSet(candles')]
  BY DEF LiveInv
<1>. QED BY <1>1, <1>2, <1>3 DEF LiveInv

\* An override is possible whatever else is stored.
LEMMA OverrideKeeps ==
    ASSUME NEW prm \in ParamSet(candles), NEW o \in {"NONE", "LOCKED", "UNLOCKED"}
    PROVE  [prm EXCEPT !.override = o] \in ParamSet(candles)
BY DEF ParamSet

\* The runner starts no run, or the user overrides the unlock rule.
LEMMA UnlockKeeps == ASSUME WholeDay, LiveInv, StayLocked \/ ManualUnlock PROVE LiveInv'
<1>1. params \in ParamSet(candles)
  BY DEF LiveInv
<1>2. CASE StayLocked
  BY <1>1, <1>2, QuietKeeps DEF StayLocked
<1>3. CASE ManualUnlock
  <2>1. params' \in ParamSet(candles)
    BY <1>1, <1>3, OverrideKeeps DEF ManualUnlock
  <2>. QED BY <1>3, <2>1, QuietKeeps DEF ManualUnlock
<1>. QED BY <1>2, <1>3

\* An entry whose signal was filled has this signal still.
LEMMA EntriesStay ==
    ASSUME EntriesHaveSignals, IsSeq(signals'), Len(signals') = Len(signals), entries' = entries,
           \A j \in 1..Len(signals) : /\ SetupOf(signals[j], signals'[j])
                                      /\ HasFilled(signals[j]) => HasFilled(signals'[j])
    PROVE  EntriesHaveSignals'
<1>1. \A j \in 1..Len(entries) : HasSignal(signals', entries[j])
  <2>. TAKE j \in 1..Len(entries)
  <2>1. PICK k \in 1..Len(signals) :
          signals[k].conf = entries[j].conf /\ signals[k].peak = entries[j].peak /\ HasFilled(signals[k])
    BY DEF EntriesHaveSignals, HasSignal
  <2>2. k \in 1..Len(signals') /\ signals'[k].conf = entries[j].conf /\ signals'[k].peak = entries[j].peak
    BY <2>1 DEF SetupOf
  <2>3. HasFilled(signals'[k])
    BY <2>1
  <2>. QED BY <2>2, <2>3 DEF HasSignal
<1>. QED BY <1>1 DEF EntriesHaveSignals

\* An entry more, whose signal is filled now.
LEMMA EntryAdded ==
    ASSUME EntriesHaveSignals, IsSeq(signals'), Len(signals') = Len(signals),
           \A j \in 1..Len(signals) : /\ SetupOf(signals[j], signals'[j])
                                      /\ HasFilled(signals[j]) => HasFilled(signals'[j]),
           NEW i \in 1..Len(signals), HasFilled(signals'[i]),
           NEW x, x.conf = signals[i].conf, x.peak = signals[i].peak, entries' = Append(entries, x)
    PROVE  EntriesHaveSignals'
<1>. DEFINE n == Len(entries)
<1>1. IsSeq(entries) /\ n \in Nat
  BY DEF EntriesHaveSignals, IsSeq
<1>2. entries' = Added(entries, x)
  BY DEF Added
<1>3. /\ IsSeq(Added(entries, x)) /\ Len(Added(entries, x)) = n + 1
      /\ \A j \in 1..n : Added(entries, x)[j] = entries[j]
      /\ Added(entries, x)[n + 1] = x
  BY <1>1, AppendIs
<1>4. IsSeq(entries')
  BY <1>2, <1>3 DEF IsSeq
<1>5. ASSUME NEW j \in 1..Len(entries')
      PROVE  HasSignal(signals', entries'[j])
  <2>1. CASE j = n + 1
    <3>1. entries'[j] = x
      BY <1>2, <1>3, <2>1
    <3>2. signals'[i].conf = x.conf /\ signals'[i].peak = x.peak /\ i \in 1..Len(signals')
      BY DEF SetupOf
    <3>. QED BY <3>1, <3>2 DEF HasSignal
  <2>2. CASE j \in 1..n
    <3>1. entries'[j] = entries[j]
      BY <1>2, <1>3, <2>2
    <3>2. PICK k \in 1..Len(signals) :
            signals[k].conf = entries[j].conf /\ signals[k].peak = entries[j].peak /\ HasFilled(signals[k])
      BY <2>2 DEF EntriesHaveSignals, HasSignal
    <3>3. k \in 1..Len(signals') /\ signals'[k].conf = entries[j].conf /\ signals'[k].peak = entries[j].peak
      BY <3>2 DEF SetupOf
    <3>4. HasFilled(signals'[k])
      BY <3>2
    <3>. QED BY <3>1, <3>3, <3>4 DEF HasSignal
  <2>3. j = n + 1 \/ j \in 1..n
    BY <1>1, <1>2, <1>3
  <2>. QED BY <2>1, <2>2, <2>3
<1>. QED BY <1>4, <1>5 DEF EntriesHaveSignals

\* A run whose order is answered.
LEMMA OrderEnds ==
    ASSUME LiveInv, NEW r \in Runs, run[r].at = "ordering", NEW e, Updated(run[r].signal, e),
           candles' = candles, params' \in ParamSet(candles), Return(r),
           \/ entries' = entries
           \/ /\ HasFilled(e)
              /\ \E x : /\ x.conf = signals[run[r].signal].conf /\ x.peak = signals[run[r].signal].peak
                        /\ entries' = Append(entries, x)
    PROVE  LiveInv'
<1>0. Day /\ SignalsOfDay /\ OneSetup /\ EntriesHaveSignals /\ Orders /\ run \in [Runs -> RunSet(candles)]
  BY DEF LiveInv
<1>1. Ahead(r)
  BY <1>0 DEF Orders
<1>2. PICK i \in 1..Len(signals) : i = run[r].signal /\ signals[i].status = "SENT"
  BY <1>1 DEF Ahead
<1>3. /\ SignalsOfDay' /\ OneSetup' /\ Len(signals') = Len(signals)
      /\ \A j \in 1..Len(signals) : signals'[j] = IF j = i THEN e ELSE signals[j]
      /\ \A j \in 1..Len(signals) : SetupOf(signals[j], signals'[j])
  BY <1>0, <1>2, UpdateKeeps
<1>4. ~HasFilled(signals[i])
  BY <1>2 DEF HasFilled
<1>5. \A j \in 1..Len(signals) : HasFilled(signals[j]) => HasFilled(signals'[j])
  BY <1>3, <1>4
<1>6. IsSeq(signals')
  BY <1>3 DEF SignalsOfDay
<1>7. EntriesHaveSignals'
  <2>1. CASE entries' = entries
    BY <1>0, <1>3, <1>5, <1>6, <2>1, EntriesStay
  <2>2. CASE /\ HasFilled(e)
             /\ \E x : /\ x.conf = signals[run[r].signal].conf /\ x.peak = signals[run[r].signal].peak
                       /\ entries' = Append(entries, x)
    <3>1. PICK x : x.conf = signals[i].conf /\ x.peak = signals[i].peak /\ entries' = Append(entries, x)
      BY <1>2, <2>2
    <3>2. signals'[i] = e /\ HasFilled(signals'[i])
      BY <1>3, <2>2
    <3>. QED BY <1>0, <1>3, <1>5, <1>6, <3>1, <3>2, EntryAdded
  <2>. QED BY <2>1, <2>2
<1>8. run' \in [Runs -> RunSet(candles)] /\ Orders'
  BY <1>0, IdleIsRun, RunKeeps DEF Return
<1>9. Day'
  BY <1>0 DEF Day
<1>. QED BY <1>3, <1>7, <1>8, <1>9 DEF LiveInv

\* A signal in doubt that the sync settles.
LEMMA SyncEnds ==
    ASSUME LiveInv, NEW i \in 1..Len(signals), signals[i].status = "RECONCILING", NEW e, Updated(i, e),
           HasFilled(signals[i]) => HasFilled(e),
           candles' = candles, params' \in ParamSet(candles), UNCHANGED <<run, entries>>
    PROVE  LiveInv'
<1>0. Day /\ SignalsOfDay /\ OneSetup /\ EntriesHaveSignals /\ Orders /\ run \in [Runs -> RunSet(candles)]
  BY DEF LiveInv
<1>1. /\ SignalsOfDay' /\ OneSetup' /\ Len(signals') = Len(signals)
      /\ \A j \in 1..Len(signals) : signals'[j] = IF j = i THEN e ELSE signals[j]
      /\ \A j \in 1..Len(signals) : SetupOf(signals[j], signals'[j])
  BY <1>0, UpdateKeeps
<1>2. \A j \in 1..Len(signals) : HasFilled(signals[j]) => HasFilled(signals'[j])
  BY <1>1
<1>3. IsSeq(signals')
  BY <1>1 DEF SignalsOfDay
<1>4. EntriesHaveSignals'
  BY <1>0, <1>1, <1>2, <1>3, EntriesStay
<1>5. ASSUME NEW r \in Runs, run[r].at = "ordering"
      PROVE  Ahead(r)'
  <2>1. Ahead(r)
    BY <1>0, <1>5 DEF Orders
  <2>2. PICK j \in 1..Len(signals) : j = run[r].signal /\ signals[j].status = "SENT"
    BY <2>1 DEF Ahead
  <2>3. j # i /\ signals'[j] = signals[j]
    BY <1>1, <2>2
  <2>. QED BY <1>1, <2>1, <2>2, <2>3 DEF Ahead
<1>6. Orders'
  BY <1>0, <1>5 DEF Orders
<1>7. Day'
  BY <1>0 DEF Day
<1>. QED BY <1>0, <1>1, <1>4, <1>6, <1>7 DEF LiveInv

\* A new status for one signal.
LEMMA StatusIsUpdate ==
    ASSUME SignalsOfDay, NEW i \in 1..Len(signals), NEW st \in Statuses, SetStatus(i, st)
    PROVE  \E e : /\ Updated(i, e) /\ e.status = st /\ e.filled = signals[i].filled
                  /\ HasFilled(e) <=> (st = "EXECUTED" \/ (st = "RECONCILING" /\ signals[i].filled))
<1>. DEFINE e == [signals[i] EXCEPT !.status = st]
<1>1. IsSignal(signals[i])
  BY DEF SignalsOfDay
<1>2. IsSignal(e) /\ SetupOf(signals[i], e) /\ e.status = st /\ e.filled = signals[i].filled
  BY <1>1, StatusChanged
<1>3. signals' = [signals EXCEPT ![i] = e]
  BY DEF SetStatus
<1>. HIDE DEF e
<1>4. Updated(i, e)
  BY <1>2, <1>3 DEF Updated
<1>5. HasFilled(e) <=> (st = "EXECUTED" \/ (st = "RECONCILING" /\ signals[i].filled))
  BY <1>2 DEF HasFilled
<1>. QED BY <1>2, <1>4, <1>5

\* The boundary of a signal is one of the day.
LEMMA BoundAdded ==
    ASSUME NEW prm \in ParamSet(candles), NEW s, IsOfDay(candles, s)
    PROVE  [prm EXCEPT !.bounds = @ \cup {s.conf}] \in ParamSet(candles)
<1>. DEFINE F == Found(candles)
<1>1. PICK j \in 1..Len(F) : F[j].conf = s.conf
  BY DEF IsOfDay
<1>2. Bounds(candles) = {F[k].conf : k \in 1..Len(F)}
  BY DEF Bounds, ConfTimes, Found
<1>. HIDE DEF F
<1>3. s.conf \in Bounds(candles)
  BY <1>1, <1>2
<1>. QED BY <1>3 DEF ParamSet

\* The order of a run is executed,
LEMMA ExecutedKeeps == ASSUME WholeDay, LiveInv, NEW r \in Runs, Executed(r) PROVE LiveInv'
<1>. DEFINE i == run[r].signal
<1>0. SignalsOfDay /\ Orders /\ run \in [Runs -> RunSet(candles)] /\ run[r].at = "ordering"
  BY DEF LiveInv, Executed
<1>1. i \in 1..Len(signals)
  BY <1>0 DEF Orders, Ahead
<1>2. SetStatus(i, "EXECUTED") /\ Fill(i) /\ candles' = candles /\ Return(r)
      /\ params' = [run[r].params EXCEPT !.bounds = @ \cup {signals[i].conf}]
  BY DEF Executed
<1>3. params' \in ParamSet(candles)
  <2>1. run[r].params \in ParamSet(candles) /\ IsOfDay(candles, signals[i])
    BY <1>0, <1>1 DEF RunSet, SignalsOfDay
  <2>. QED BY <1>2, <2>1, BoundAdded
<1>4. \E x : /\ x.conf = signals[run[r].signal].conf /\ x.peak = signals[run[r].signal].peak
             /\ entries' = Append(entries, x)
  BY <1>2 DEF Fill
<1>. HIDE DEF i
<1>5. PICK e : Updated(i, e) /\ HasFilled(e)
  BY <1>0, <1>1, <1>2, StatusIsUpdate DEF Statuses
<1>6. Updated(run[r].signal, e)
  BY <1>5 DEF i
<1>. QED BY <1>0, <1>2, <1>3, <1>4, <1>5, <1>6, OrderEnds

\* The marks can be taken back.
LEMMA MarksReleased ==
    ASSUME NEW prm \in ParamSet(candles)
    PROVE  [prm EXCEPT !.lastCandle = 0, !.lastLow = 0] \in ParamSet(candles)
BY DEF ParamSet

\* it is refused,
LEMMA FailedKeeps == ASSUME WholeDay, LiveInv, NEW r \in Runs, Failed(r) PROVE LiveInv'
<1>. DEFINE i == run[r].signal
<1>0. /\ SignalsOfDay /\ Orders /\ run \in [Runs -> RunSet(candles)] /\ run[r].at = "ordering"
      /\ params \in ParamSet(candles)
  BY DEF LiveInv, Failed
<1>1. i \in 1..Len(signals)
  BY <1>0 DEF Orders, Ahead
<1>2. SetStatus(i, "FAILED") /\ entries' = entries /\ candles' = candles /\ Return(r)
  BY DEF Failed
<1>3. params' \in ParamSet(candles)
  <2>1. run[r].params \in ParamSet(candles)
    BY <1>0 DEF RunSet
  <2>2. [run[r].params EXCEPT !.lastCandle = 0, !.lastLow = 0] \in ParamSet(candles)
    BY <2>1, MarksReleased
  <2>3. params' = params \/ params' = [run[r].params EXCEPT !.lastCandle = 0, !.lastLow = 0]
    BY DEF Failed
  <2>. QED BY <1>0, <2>2, <2>3
<1>. HIDE DEF i
<1>4. PICK e : Updated(i, e)
  BY <1>0, <1>1, <1>2, StatusIsUpdate DEF Statuses
<1>5. Updated(run[r].signal, e)
  BY <1>4 DEF i
<1>. QED BY <1>0, <1>2, <1>3, <1>5, OrderEnds

\* or nobody knows.
LEMMA AmbiguousKeeps == ASSUME WholeDay, LiveInv, NEW r \in Runs, Ambiguous(r) PROVE LiveInv'
<1>. DEFINE i == run[r].signal
<1>0. /\ SignalsOfDay /\ Orders /\ run \in [Runs -> RunSet(candles)] /\ run[r].at = "ordering"
      /\ params \in ParamSet(candles)
  BY DEF LiveInv, Ambiguous
<1>1. i \in 1..Len(signals)
  BY <1>0 DEF Orders, Ahead
<1>2. candles' = candles /\ Return(r) /\ params' = params
  BY DEF Ambiguous
<1>3. CASE /\ Fill(i)
           /\ signals' = [signals EXCEPT ![i].status = "RECONCILING", ![i].filled = TRUE]
  <2>1. \E x : /\ x.conf = signals[run[r].signal].conf /\ x.peak = signals[run[r].signal].peak
               /\ entries' = Append(entries, x)
    BY <1>3 DEF Fill
  <2>. DEFINE d == [signals[i] EXCEPT !.status = "RECONCILING"]
              e == [d EXCEPT !.filled = TRUE]
  <2>2. IsSignal(signals[i])
    BY <1>0, <1>1 DEF SignalsOfDay
  <2>3. IsSignal(d) /\ SetupOf(signals[i], d) /\ d.status = "RECONCILING"
    BY <2>2, StatusChanged DEF Statuses
  <2>. HIDE DEF d
  <2>4. IsSignal(e) /\ SetupOf(d, e) /\ e.status = d.status /\ e.filled
    BY <2>3, FilledChanged
  <2>5. signals' = [signals EXCEPT ![i] = e]
    <3>1. i \in DOMAIN signals
      BY <1>0, <1>1 DEF SignalsOfDay, IsSeq
    <3>. DEFINE a == [signals EXCEPT ![i].status = "RECONCILING"]
    <3>2. signals' = [a EXCEPT ![i].filled = TRUE]
      BY <1>3
    <3>3. a = [signals EXCEPT ![i] = d]
      BY DEF d
    <3>. HIDE DEF a
    <3>. QED BY <3>1, <3>2, <3>3
  <2>. HIDE DEF e
  <2>6. Updated(run[r].signal, e)
    BY <2>3, <2>4, <2>5 DEF Updated, SetupOf
  <2>7. HasFilled(e)
    BY <2>3, <2>4 DEF HasFilled
  <2>. QED BY <1>0, <1>2, <2>1, <2>6, <2>7, OrderEnds
<1>4. CASE entries' = entries /\ SetStatus(i, "RECONCILING")
  <2>. HIDE DEF i
  <2>1. PICK e : Updated(i, e)
    BY <1>0, <1>1, <1>4, StatusIsUpdate DEF Statuses
  <2>2. Updated(run[r].signal, e)
    BY <2>1 DEF i
  <2>. QED BY <1>0, <1>2, <1>4, <2>2, OrderEnds
<1>. QED BY <1>3, <1>4 DEF Ambiguous

\* The sync finds out, or gives up.
LEMMA SyncKeeps ==
    ASSUME WholeDay, LiveInv, NEW i \in DOMAIN signals, SyncExecuted(i) \/ SyncFailed(i)
    PROVE  LiveInv'
<1>0. SignalsOfDay /\ params \in ParamSet(candles) /\ i \in 1..Len(signals)
  BY DEF LiveInv, SignalsOfDay, IsSeq
<1>1. /\ candles' = candles /\ UNCHANGED <<run, entries>> /\ signals[i].status = "RECONCILING"
  BY DEF SyncExecuted, SyncFailed
<1>2. CASE SyncExecuted(i)
  <2>1. SetStatus(i, "EXECUTED") /\ params' = [params EXCEPT !.bounds = @ \cup {signals[i].conf}]
    BY <1>2 DEF SyncExecuted
  <2>2. IsOfDay(candles, signals[i])
    BY <1>0 DEF SignalsOfDay
  <2>3. params' \in ParamSet(candles)
    BY <1>0, <2>1, <2>2, BoundAdded
  <2>4. PICK e : Updated(i, e) /\ HasFilled(e)
    BY <1>0, <2>1, StatusIsUpdate DEF Statuses
  <2>. QED BY <1>0, <1>1, <2>3, <2>4, SyncEnds
<1>3. CASE SyncFailed(i)
  <2>1. SetStatus(i, "FAILED") /\ params' = params /\ ~signals[i].filled
    BY <1>3 DEF SyncFailed
  <2>2. ~HasFilled(signals[i])
    BY <1>1, <2>1 DEF HasFilled
  <2>3. PICK e : Updated(i, e)
    BY <1>0, <2>1, StatusIsUpdate DEF Statuses
  <2>. QED BY <1>0, <1>1, <2>1, <2>2, <2>3, SyncEnds
<1>. QED BY <1>2, <1>3

\* All of this holds in the beginning,
LEMMA LiveStarts == ASSUME Init PROVE LiveInv
<1>1. Day
  BY DayStarts
<1>2. IsSeq(<< >>)
  <2>1. << >> \in Seq({}) /\ Len(<< >>) = 0
    BY EmptySeq
  <2>2. DOMAIN << >> = 1..0
    OBVIOUS
  <2>. QED BY <2>1, <2>2 DEF IsSeq
<1>3. Len(<< >>) = 0
  OBVIOUS
<1>4. SignalsOfDay /\ OneSetup /\ EntriesHaveSignals
  BY <1>2, <1>3 DEF Init, SignalsOfDay, OneSetup, EntriesHaveSignals
<1>5. params \in ParamSet(candles)
  BY IdleIsRun DEF Init
<1>6. run \in [Runs -> RunSet(candles)] /\ \A r \in Runs : run[r].at # "ordering"
  BY IdleIsRun DEF Init
<1>7. Orders
  BY <1>6 DEF Orders
<1>. QED BY <1>1, <1>4, <1>5, <1>6, <1>7 DEF LiveInv

\* and after every step but one.
LEMMA LiveGoesOn == ASSUME WholeDay, LiveInv, [Next]_vars, ~SaveForm PROVE LiveInv'
<1>1. CASE CloseCandle
  BY <1>1, CloseKeeps
<1>2. CASE StayLocked \/ ManualUnlock
  BY <1>2, UnlockKeeps
<1>3. ASSUME NEW r \in Runs,
             Load(r) \/ LockTimeout(r) \/ Evaluate(r) \/ Executed(r) \/ Failed(r) \/ Ambiguous(r)
      PROVE  LiveInv'
  BY <1>3, LoadKeeps, EvaluateKeeps, ExecutedKeeps, FailedKeeps, AmbiguousKeeps
<1>4. ASSUME NEW i \in DOMAIN signals, SyncExecuted(i) \/ SyncFailed(i)
      PROVE  LiveInv'
  BY <1>4, SyncKeeps
<1>5. CASE UNCHANGED vars
  <2>1. UNCHANGED <<candles, signals, run, entries>> /\ params' \in ParamSet(candles)
    BY <1>5 DEF vars, LiveInv
  <2>. QED BY <2>1, QuietKeeps
<1>. QED BY <1>1, <1>2, <1>3, <1>4, <1>5 DEF Next

(* For every detector that satisfies the premises and any number of runs:      *)
(* signals and entries are pullbacks of the day, and an order that is under    *)
(* way is ahead of every entry (TorumV1Runner, PositionSyncService).           *)
THEOREM LiveAlways == ASSUME WholeDay, NoForms PROVE Spec => []LiveInv
<1>1. Init => LiveInv
  BY LiveStarts
<1>2. LiveInv /\ [Next]_vars => LiveInv'
  BY LiveGoesOn DEF NoForms, SaveForm, Disturb
<1>. QED BY <1>1, <1>2, PTL DEF Spec

----------------------------------------------------------------------------
(* The entries are cycles.                                                  *)

CycleOf(e) == [from |-> e.peak, to |-> e.conf]

CyclesOf(all) == [i \in DOMAIN all |-> CycleOf(all[i])]

\* An entry more is a cycle more.
LEMMA CyclesGrow ==
    ASSUME NEW s, IsSeq(s), NEW x
    PROVE  CyclesOf(Append(s, x)) = Append(CyclesOf(s), CycleOf(x))
<1>. DEFINE n == Len(s)
            t == Added(s, x)
            c == CyclesOf(s)
            d == CycleOf(x)
            u == Added(c, d)
<1>1. n \in Nat /\ DOMAIN s = 1..n
  BY DEF IsSeq
<1>2. /\ IsSeq(t) /\ Len(t) = n + 1
      /\ \A i \in 1..n : t[i] = s[i]
      /\ t[n + 1] = x
  BY AppendIs
<1>3. IsSeq(c) /\ Len(c) = n /\ \A i \in 1..n : c[i] = CycleOf(s[i])
  <2>1. c = [i \in 1..n |-> CycleOf(s[i])]
    BY <1>1 DEF CyclesOf
  <2>. HIDE DEF c
  <2>. DEFINE R == {c[i] : i \in 1..n}
  <2>2. c = [i \in 1..n |-> c[i]] /\ \A i \in 1..n : c[i] \in R
    BY <2>1
  <2>. HIDE DEF R, n
  <2>3. [i \in 1..n |-> c[i]] \in Seq(R)
    BY <1>1, <2>2, IsASeq
  <2>4. c \in Seq(R)
    BY <2>2, <2>3
  <2>5. Len(c) \in Nat /\ DOMAIN c = 1..Len(c)
    BY <2>4, LenProperties
  <2>6. DOMAIN c = 1..n
    BY <2>1
  <2>7. Len(c) = n
    <3>1. PICK m \in Nat : m = Len(c)
      BY <2>5
    <3>2. 1..m = 1..n
      BY <2>5, <2>6, <3>1
    <3>3. m \in 1..m \/ m = 0
      OBVIOUS
    <3>4. n \in 1..n \/ n = 0
      BY <1>1
    <3>5. (m \in 1..n \/ m = 0) /\ (n \in 1..m \/ n = 0)
      BY <3>2, <3>3, <3>4
    <3>. QED BY <1>1, <3>1, <3>5
  <2>8. IsSeq(c)
    BY <2>4, <2>5 DEF IsSeq
  <2>. QED BY <2>1, <2>7, <2>8
<1>. HIDE DEF c, d
<1>4. /\ IsSeq(u) /\ Len(u) = n + 1
      /\ \A i \in 1..n : u[i] = c[i]
      /\ u[n + 1] = d
  BY <1>3, AppendIs
<1>5. u = [i \in 1..(n + 1) |-> u[i]] /\ DOMAIN t = 1..(n + 1)
  <2>1. PICK S : u \in Seq(S)
    BY <1>4 DEF IsSeq
  <2>. HIDE DEF u, n
  <2>2. u = [i \in 1..Len(u) |-> u[i]]
    BY <2>1, LenProperties
  <2>. QED BY <1>2, <1>4, <2>2 DEF IsSeq
<1>. HIDE DEF u, t, n
<1>6. \A i \in 1..(n + 1) : u[i] = CycleOf(t[i])
  <2>. TAKE i \in 1..(n + 1)
  <2>1. CASE i = n + 1
    BY <1>2, <1>4, <2>1 DEF d
  <2>2. CASE i \in 1..n
    BY <1>2, <1>3, <1>4, <2>2
  <2>. QED BY <1>1, <2>1, <2>2
<1>7. CyclesOf(t) = [i \in 1..(n + 1) |-> CycleOf(t[i])]
  BY <1>5 DEF CyclesOf
<1>8. CyclesOf(t) = u
  BY <1>5, <1>6, <1>7
<1>9. t = Append(s, x) /\ u = Append(CyclesOf(s), CycleOf(x))
  BY DEF t, u, c, d, Added
<1>. QED BY <1>8, <1>9

\* The cycle that a filled order buys lies behind all that were bought.
LEMMA FillEnters ==
    ASSUME WholeDay, LiveInv, NEW r \in Runs, run[r].at = "ordering", Fill(run[r].signal)
    PROVE  \E from, to \in Candles :
             /\ from < to
             /\ \A j \in 1..Len(entries) : entries[j].conf <= from
             /\ CyclesOf(entries') = Append(CyclesOf(entries), [from |-> from, to |-> to])
<1>. DEFINE i == run[r].signal
            F == Found(candles)
<1>0. Day /\ SignalsOfDay /\ EntriesHaveSignals /\ Orders /\ Detector.disallowSame
  BY DEF LiveInv, WholeDay
<1>1. i \in 1..Len(signals) /\ \A j \in 1..Len(entries) : entries[j].conf < signals[i].conf
  BY <1>0 DEF Orders, Ahead
<1>2. PICK x \in 1..Len(F) : F[x].conf = signals[i].conf /\ F[x].peak = signals[i].peak
  BY <1>0, <1>1 DEF SignalsOfDay, IsOfDay
<1>. DEFINE from == F[x].peak
            to == F[x].conf
<1>3. /\ from \in Nat /\ to \in Nat /\ from < to
      /\ \E k \in 1..Len(candles) : to = candles[k].time
      /\ \E k \in 1..Len(candles) : from = candles[k].time
  BY <1>0, FoundFacts
<1>4. from \in Candles /\ to \in Candles
  <2>1. \A k \in 1..Len(candles) : candles[k].time = Bar * k /\ k \in 1..MaxCandles
    BY <1>0, LiveAssumption DEF Day
  <2>. HIDE DEF from, to
  <2>. QED BY <1>3, <2>1 DEF Candles
<1>5. \A j \in 1..Len(entries) : entries[j].conf <= from
  <2>. TAKE j \in 1..Len(entries)
  <2>1. PICK k \in 1..Len(signals) : signals[k].conf = entries[j].conf
    BY <1>0 DEF EntriesHaveSignals, HasSignal
  <2>2. PICK y \in 1..Len(F) : F[y].conf = signals[k].conf
    BY <1>0 DEF SignalsOfDay, IsOfDay
  <2>3. F[y].conf < F[x].conf
    BY <1>1, <1>2, <2>1, <2>2
  <2>4. \A a, b \in 1..Len(F) : F[a].conf < F[b].conf => F[a].conf <= F[b].peak
    BY <1>0, FoundInOrder
  <2>. HIDE DEF F
  <2>. QED BY <2>1, <2>2, <2>3, <2>4
<1>6. CyclesOf(entries') = Append(CyclesOf(entries), [from |-> from, to |-> to])
  <2>1. PICK e : /\ entries' = Append(entries, e)
                 /\ e.conf = signals[i].conf /\ e.peak = signals[i].peak
    BY DEF Fill
  <2>2. IsSeq(entries)
    BY <1>0 DEF EntriesHaveSignals
  <2>3. CyclesOf(Append(entries, e)) = Append(CyclesOf(entries), CycleOf(e))
    BY <2>2, CyclesGrow
  <2>4. CycleOf(e) = [from |-> from, to |-> to]
    BY <1>2, <2>1 DEF CycleOf
  <2>. HIDE DEF from, to
  <2>5. CyclesOf(entries') = CyclesOf(Append(entries, e))
    BY <2>1
  <2>. QED BY <2>3, <2>4, <2>5
<1>. QED BY <1>3, <1>4, <1>5, <1>6

\* A step of the live side buys one cycle or none.
LEMMA StepEnters ==
    ASSUME WholeDay, LiveInv, [Next]_vars
    PROVE  \/ entries' = entries
           \/ \E from, to \in Candles :
                /\ from < to
                /\ \A j \in 1..Len(entries) : entries[j].conf <= from
                /\ CyclesOf(entries') = Append(CyclesOf(entries), [from |-> from, to |-> to])
<1>1. CASE entries' = entries
  BY <1>1
<1>2. ASSUME NEW r \in Runs, Executed(r) \/ Ambiguous(r), entries' # entries
      PROVE  Fill(run[r].signal) /\ run[r].at = "ordering"
  BY <1>2 DEF Executed, Ambiguous
<1>3. CASE \E r \in Runs : (Executed(r) \/ Ambiguous(r)) /\ entries' # entries
  BY <1>2, <1>3, FillEnters
<1>4. entries' = entries \/ \E r \in Runs : (Executed(r) \/ Ambiguous(r)) /\ entries' # entries
  BY DEF Next, vars, CloseCandle, StayLocked, Load, LockTimeout, Evaluate, Failed, SyncExecuted, SyncFailed,
         ManualUnlock, SaveForm
<1>. QED BY <1>1, <1>3, <1>4

(* For every detector that satisfies the premises, every day and any number of *)
(* runs, each with the parameters it loaded before it had the lock: what the   *)
(* strategy buys are cycles of the market that do not overlap, and each of     *)
(* them is bought once.  The live strategy implements EntryCycles.             *)
THEOREM NoFallIsBoughtTwice == ASSUME WholeDay, NoForms PROVE Spec => EntriesAreCycles
<1>. DEFINE c == [i \in DOMAIN entries |-> [from |-> entries[i].peak, to |-> entries[i].conf]]
<1>0. c = CyclesOf(entries) /\ c' = CyclesOf(entries')
  BY DEF CyclesOf, CycleOf
<1>1. Init => Cycles!Init
  <2>1. DOMAIN << >> = {}
    OBVIOUS
  <2>2. Init => c = << >>
    BY <2>1 DEF Init
  <2>. QED BY <2>2 DEF Cycles!Init
<1>2. LiveInv /\ [Next]_vars => [Cycles!Next]_c
  <2>. SUFFICES ASSUME LiveInv, [Next]_vars PROVE [Cycles!Next]_c
    OBVIOUS
  <2>1. CASE entries' = entries
    BY <2>1
  <2>2. ASSUME NEW from \in Candles, NEW to \in Candles, from < to,
               \A j \in 1..Len(entries) : entries[j].conf <= from,
               CyclesOf(entries') = Append(CyclesOf(entries), [from |-> from, to |-> to])
        PROVE  Cycles!Next
    <3>. HIDE DEF c
    <3>1. c' = Append(c, [from |-> from, to |-> to])
      BY <1>0, <2>2
    <3>2. c # << >> => c[Len(c)].to <= from
      <4>1. Len(entries) \in Nat /\ DOMAIN entries = 1..Len(entries)
        BY DEF LiveInv, EntriesHaveSignals, IsSeq
      <4>2. DOMAIN c = 1..Len(entries) /\ Len(c) = Len(entries)
        <5>1. DOMAIN c = 1..Len(entries)
          BY <4>1 DEF c
        <5>. QED BY <4>1, <5>1
      <4>3. Len(entries) = 0 => c = << >>
        BY <4>1 DEF c
      <4>4. Len(entries) # 0 => Len(entries) \in 1..Len(entries)
        BY <4>1
      <4>5. Len(entries) # 0 => c[Len(c)].to = entries[Len(entries)].conf
        BY <4>1, <4>2, <4>4 DEF c
      <4>. QED BY <2>2, <4>3, <4>4, <4>5
    <3>. QED BY <2>2, <3>1, <3>2 DEF Cycles!Next, Cycles!Enter, c
  <2>. QED BY <2>1, <2>2, StepEnters
<1>3. Spec => []LiveInv
  BY LiveAlways
<1>. HIDE DEF c
<1>. QED BY <1>1, <1>2, <1>3, PTL DEF Spec, EntriesAreCycles, Cycles!Spec, c

----------------------------------------------------------------------------
(* The unlock rule.                                                         *)

\* The premise: a session begins with an M5 candle, and the stored H2 candles,
\* when they count, begin with the windows.
Aligned ==
  /\ Session.start % Bar = 0
  /\ "H2" \in Session.mode => Shift \in Int /\ Shift % (2 * Bar) = 0

InWindow(cs, a, b) == {c \in {cs[i] : i \in DOMAIN cs} : c.time \in a..(b - 1)}

\* A stored candle starts in a window exactly when the time lies in the window.
LEMMA BucketInWindow ==
    ASSUME Aligned, NEW tf \in Session.mode, NEW k \in Int, NEW t \in Int,
           NEW from, from = Session.start + k * Hours[tf],
           NEW to, to = from + Hours[tf]
    PROVE  BucketStart(t, tf) \in from..(to - 1) <=> t \in from..(to - 1)
<1>1. Session.start \in Nat /\ tf \in {"H2", "H3"}
  BY SessionAssumption DEF Hours
<1>2. CASE tf = "H2"
  <2>1. PICK m \in Int : Shift = 8 * m
    <3>1. Shift \in Int /\ Shift % 8 = 0
      BY <1>2 DEF Aligned, Bar
    <3>2. Shift = 8 * (Shift \div 8) /\ Shift \div 8 \in Int
      BY <3>1
    <3>. QED BY <3>2
  <2>2. Hours[tf] = 8
    BY <1>2 DEF Hours, Bar
  <2>3. PICK p \in Int : p = Session.start + 8 * m
    BY <1>1
  <2>4. PICK q \in Int : q = (t - p) \div 8 /\ 8 * q <= t - p /\ t - p < 8 * q + 8
    OBVIOUS
  <2>5. BucketStart(t, tf) = p + 8 * q
    BY <1>2, <2>1, <2>2, <2>3, <2>4 DEF BucketStart
  <2>6. from = Session.start + 8 * k /\ to = from + 8
    BY <2>2
  <2>. QED BY <1>1, <2>3, <2>4, <2>5, <2>6
<1>3. CASE tf = "H3"
  <2>2. Hours[tf] = 12
    BY <1>3 DEF Hours, Bar
  <2>3. PICK p \in Int : p = Session.start
    BY <1>1
  <2>4. PICK q \in Int : q = (t - p) \div 12 /\ 12 * q <= t - p /\ t - p < 12 * q + 12
    OBVIOUS
  <2>5. BucketStart(t, tf) = p + 12 * q
    BY <1>3, <2>2, <2>3, <2>4 DEF BucketStart
  <2>6. from = Session.start + 12 * k /\ to = from + 12
    BY <2>2
  <2>. QED BY <1>1, <2>3, <2>4, <2>5, <2>6
<1>. QED BY <1>1, <1>2, <1>3

\* What the unlock rule sees of a window is what lies in it.
LEMMA AggregateIs ==
    ASSUME Aligned, NEW cs, \A i \in DOMAIN cs : cs[i].time \in Int,
           NEW tf \in Session.mode, NEW k \in Int,
           NEW from, from = Session.start + k * Hours[tf],
           NEW to, to = from + Hours[tf]
    PROVE  AggregateWindow(cs, tf, from, to) = Merged(InWindow(cs, from, to))
<1>. DEFINE all == {cs[i] : i \in DOMAIN cs}
            W == from..(to - 1)
            starts == {BucketStart(c.time, tf) : c \in all} \cap W
<1>1. \A c \in all : BucketStart(c.time, tf) \in W <=> c.time \in W
  BY BucketInWindow
<1>2. AggregateWindow(cs, tf, from, to) =
        Merged(IF starts # {} THEN {c \in all : BucketStart(c.time, tf) \in starts} ELSE {c \in all : c.time \in W})
  BY DEF AggregateWindow
<1>3. InWindow(cs, from, to) = {c \in all : c.time \in W}
  BY DEF InWindow
<1>. HIDE DEF all, W
<1>4. {c \in all : BucketStart(c.time, tf) \in starts} = {c \in all : c.time \in W}
  BY <1>1
<1>. HIDE DEF starts
<1>. QED BY <1>2, <1>3, <1>4

\* A closed window qualifies, or does not, for good.
LEMMA ClosedStays ==
    ASSUME Aligned, Day, CloseCandle, NEW w \in EvaluationWindows, w.to <= Now
    PROVE  Qualifies(candles', w) <=> Qualifies(candles, w)
<1>. DEFINE n == Len(candles)
<1>1. PICK tf \in Session.mode, k \in Int :
        w = [tf |-> tf, from |-> Session.start + k * Hours[tf], to |-> Session.start + (k + 1) * Hours[tf]]
  BY SessionAssumption DEF EvaluationWindows
<1>2. PICK h \in {8, 12} : h = Hours[tf]
  BY SessionAssumption DEF Hours, Bar
<1>3. PICK from \in Int, to \in Int, before \in Int :
        /\ from = Session.start + k * h /\ to = from + h /\ before = from - h
        /\ before = Session.start + (k - 1) * h /\ to = Session.start + (k + 1) * h
        /\ w.tf = tf /\ w.from = from /\ w.to = to
  <2>1. PICK s \in Int : s = Session.start
    BY SessionAssumption
  <2>2. w.tf = tf /\ w.from = s + k * h /\ w.to = s + (k + 1) * h
    BY <1>1, <1>2, <2>1
  <2>3. CASE h = 8
    <3>1. s + k * 8 \in Int /\ s + (k + 1) * 8 = s + k * 8 + 8 /\ s + (k - 1) * 8 = s + k * 8 - 8
      OBVIOUS
    <3>. QED BY <2>1, <2>2, <2>3, <3>1
  <2>4. CASE h = 12
    <3>1. s + k * 12 \in Int /\ s + (k + 1) * 12 = s + k * 12 + 12 /\ s + (k - 1) * 12 = s + k * 12 - 12
      OBVIOUS
    <3>. QED BY <2>1, <2>2, <2>4, <3>1
  <2>. QED BY <2>3, <2>4
<1>4. Day' /\ Len(candles') = n + 1 /\ Part(candles, candles', 0) /\ n \in Nat
  BY CandleCloses, LenProperties DEF Day
<1>5. DOMAIN candles = 1..n /\ DOMAIN candles' = 1..(n + 1) /\ \A i \in 1..n : candles'[i] = candles[i]
  BY <1>4, LenProperties DEF Day, Part
<1>6. /\ \A i \in 1..n : candles[i].time = Bar * i
      /\ candles'[n + 1].time = Bar * (n + 1)
  BY <1>4 DEF Day
<1>7. to <= Bar * (n + 1)
  <2>1. PICK s \in Int : Session.start = 4 * s
    <3>1. Session.start \in Nat /\ Session.start % 4 = 0
      BY SessionAssumption DEF Aligned, Bar
    <3>. QED BY <3>1
  <2>2. to <= 4 * (n + 1) + 1
    BY <1>3 DEF Now, Bar
  <2>3. to = 4 * s + (k + 1) * 8 \/ to = 4 * s + (k + 1) * 12
    BY <1>2, <1>3, <2>1
  <2>. QED BY <1>4, <2>2, <2>3 DEF Bar
<1>8. \A a, b \in Int : b <= to => InWindow(candles', a, b) = InWindow(candles, a, b)
  <2>. TAKE a, b \in Int
  <2>. HAVE b <= to
  <2>1. Bar * (n + 1) \notin a..(b - 1)
    <3>1. PICK t \in Int : t = Bar * (n + 1)
      BY <1>4 DEF Bar
    <3>2. PICK x \in Int : x = to
      BY <1>3
    <3>3. x <= t /\ b <= x
      BY <1>7, <3>1, <3>2
    <3>4. ~(t <= b - 1)
      BY <3>3
    <3>. QED BY <3>1, <3>4
  <2>. HIDE DEF n
  <2>2. {candles'[i] : i \in 1..(n + 1)} = {candles[i] : i \in 1..n} \cup {candles'[n + 1]}
    <3>1. 1..(n + 1) = 1..n \cup {n + 1}
      BY <1>4
    <3>. QED BY <1>5, <3>1
  <2>3. InWindow(candles', a, b) = {c \in {candles[i] : i \in 1..n} \cup {candles'[n + 1]} : c.time \in a..(b - 1)}
    BY <1>5, <2>2 DEF InWindow
  <2>4. InWindow(candles, a, b) = {c \in {candles[i] : i \in 1..n} : c.time \in a..(b - 1)}
    BY <1>5 DEF InWindow
  <2>5. candles'[n + 1].time \notin a..(b - 1)
    BY <1>6, <2>1
  <2>. QED BY <2>3, <2>4, <2>5
<1>9. /\ AggregateWindow(candles, tf, from, to) = AggregateWindow(candles', tf, from, to)
      /\ AggregateWindow(candles, tf, before, from) = AggregateWindow(candles', tf, before, from)
  <2>1. (\A i \in DOMAIN candles : candles[i].time \in Int) /\ (\A i \in DOMAIN candles' : candles'[i].time \in Int)
    <3>1. \A i \in 1..(n + 1) : candles'[i].time = Bar * i
      BY <1>4 DEF Day
    <3>. QED BY <1>4, <1>5, <1>6, <3>1 DEF Bar
  <2>2. k - 1 \in Int /\ from = before + h /\ from <= to
    BY <1>2, <1>3
  <2>3. InWindow(candles', from, to) = InWindow(candles, from, to) /\ InWindow(candles', before, from) = InWindow(candles, before, from)
    BY <1>3, <1>8, <2>2
  <2>8. /\ from = Session.start + k * Hours[tf] /\ to = from + Hours[tf]
        /\ before = Session.start + (k - 1) * Hours[tf] /\ from = before + Hours[tf]
    BY <1>2, <1>3, <2>2
  <2>4. AggregateWindow(candles, tf, from, to) = Merged(InWindow(candles, from, to))
    BY <2>1, <2>8, AggregateIs
  <2>5. AggregateWindow(candles', tf, from, to) = Merged(InWindow(candles', from, to))
    BY <2>1, <2>8, AggregateIs
  <2>6. AggregateWindow(candles, tf, before, from) = Merged(InWindow(candles, before, from))
    BY <2>1, <2>2, <2>8, AggregateIs
  <2>7. AggregateWindow(candles', tf, before, from) = Merged(InWindow(candles', before, from))
    BY <2>1, <2>2, <2>8, AggregateIs
  <2>. QED BY <2>3, <2>4, <2>5, <2>6, <2>7
<1>10. w.from - Hours[w.tf] = before
  BY <1>2, <1>3
<1>. QED BY <1>3, <1>9, <1>10 DEF Qualifies

(* For every session that begins with an M5 candle, H2 and H3 windows and any   *)
(* rule: when the stored H2 candles begin with the windows, a market that is    *)
(* unlocked stays unlocked (_build_unlock_timeline).  Without the premise it    *)
(* does not, as the run of Shift = 4 shows.                                     *)
THEOREM UnlockIsFinal == ASSUME Aligned PROVE Spec => UnlockIsMonotonic
<1>. DEFINE stays == candles' # candles /\ Unlocked(candles, Now) => Unlocked(candles', Now')
<1>1. ASSUME Day, [Next]_vars PROVE stays
  <2>. SUFFICES ASSUME candles' # candles, Unlocked(candles, Now) PROVE Unlocked(candles', Now')
    OBVIOUS
  <2>1. CloseCandle
    BY <1>1, CandlesStay
  <2>2. PICK w \in EvaluationWindows : w.to <= Now /\ Qualifies(candles, w)
    BY DEF Unlocked
  <2>3. Qualifies(candles', w)
    BY <1>1, <2>1, <2>2, ClosedStays
  <2>4. w.to <= Now'
    <3>1. Len(candles') = Len(candles) + 1 /\ Len(candles) \in Nat
      BY <1>1, <2>1, CandleCloses, LenProperties DEF Day
    <3>2. w.to \in Int
      <4>1. PICK tf \in Session.mode, k \in Int : w.to = Session.start + (k + 1) * Hours[tf]
        BY SessionAssumption DEF EvaluationWindows
      <4>2. Session.start \in Nat /\ Hours[tf] \in {8, 12}
        BY SessionAssumption DEF Hours, Bar
      <4>. QED BY <4>1, <4>2
    <3>. QED BY <2>2, <3>1, <3>2 DEF Now, Bar
  <2>. QED BY <2>3, <2>4 DEF Unlocked
<1>2. Day /\ [Next]_vars => [stays]_candles
  BY <1>1
<1>3. UnlockIsMonotonic <=> [][stays]_candles
  BY DEF UnlockIsMonotonic
<1>. HIDE DEF stays
<1>. QED BY <1>2, <1>3, DayAlways, PTL DEF Spec

----------------------------------------------------------------------------
(* The simulator.                                                           *)

\* The premise: one candle confirms, a zone is required, several positions of
\* the symbol are allowed, and a run sees two candles at least.
PlainSetup ==
  /\ Entry.bars = 1 /\ Entry.requireZone /\ ~Entry.onePerSymbol
  /\ LiveWindow >= 2 /\ \A m \in Mornings : Len(m) >= 2

TwoCandles == Day /\ Len(candles) >= 2

\* The day never has less.
LEMMA TwoCandlesAlways == ASSUME PlainSetup PROVE Spec => []TwoCandles
<1>1. Init => TwoCandles
  <2>1. Init => Day
    BY DayStarts
  <2>2. Init => Len(candles) >= 2
    BY DEF Init, PlainSetup
  <2>. QED BY <2>1, <2>2 DEF TwoCandles
<1>2. TwoCandles /\ [Next]_vars => TwoCandles'
  <2>. SUFFICES ASSUME TwoCandles, [Next]_vars PROVE TwoCandles'
    OBVIOUS
  <2>1. Day'
    BY DayGoesOn DEF TwoCandles
  <2>2. Len(candles) \in Nat
    BY LenProperties DEF TwoCandles, Day
  <2>3. CASE CloseCandle
    <3>1. Len(candles') = Len(candles) + 1
      BY <2>3, CandleCloses DEF TwoCandles
    <3>. QED BY <2>1, <2>2, <3>1 DEF TwoCandles
  <2>4. CASE ~CloseCandle
    BY <2>1, <2>4, CandlesStay DEF TwoCandles
  <2>. QED BY <2>3, <2>4
<1>. QED BY <1>1, <1>2, PTL DEF Spec

\* What a run sees ends with the last candle and has two at least.
LEMMA WindowEnds ==
    ASSUME TwoCandles, PlainSetup
    PROVE  /\ Len(Window300) \in Nat /\ Len(Window300) >= 2
           /\ Window300[Len(Window300)] = candles[Len(candles)]
<1>. DEFINE n == Len(candles)
<1>1. n \in Nat /\ n >= 2 /\ candles \in Seq(Candle) /\ LiveWindow \in Nat /\ LiveWindow >= 2
  BY LenProperties, LiveAssumption DEF TwoCandles, Day, PlainSetup
<1>2. PICK x \in Int : x = n - LiveWindow + 1
  BY <1>1
<1>3. PICK a : a = Max({1, x})
  OBVIOUS
<1>4. a \in {1, x} /\ 1 <= a
  <2>1. {1, x} \in SUBSET Int /\ {1, x} # {}
    OBVIOUS
  <2>2. IsFiniteSet({1, x})
    <3>1. {1, x} = {1} \cup {x}
      OBVIOUS
    <3>2. IsFiniteSet({1}) /\ IsFiniteSet({x})
      BY FS_Singleton
    <3>. QED BY <3>1, <3>2, FS_Union
  <2>3. Max({1, x}) \in {1, x} /\ \A y \in {1, x} : y <= Max({1, x})
    BY <2>1, <2>2, MaxIsGreatest
  <2>. QED BY <1>3, <2>3
<1>5. a \in Nat /\ a <= n - 1
  BY <1>1, <1>2, <1>4
<1>6. Window300 = SubSeq(candles, a, n)
  BY <1>2, <1>3 DEF Window300, Window
<1>. HIDE DEF n
<1>7. /\ Len(SubSeq(candles, a, n)) = n - a + 1
      /\ \A i \in 1..(n - a + 1) : SubSeq(candles, a, n)[i] = candles[a + i - 1]
  BY <1>1, <1>4, <1>5, SubSeqProperties DEF n
<1>8. n - a + 1 \in 1..(n - a + 1) /\ a + (n - a + 1) - 1 = n /\ n - a + 1 \in Nat /\ n - a + 1 >= 2
  BY <1>1, <1>4, <1>5
<1>. QED BY <1>6, <1>7, <1>8 DEF n

\* What confirms a recovery when one candle is enough.
LEMMA OneCandleConfirms ==
    ASSUME PlainSetup, NEW cs, Len(cs) \in Nat, Len(cs) >= 2
    PROVE  ConfirmationCandles(cs) <=>
             /\ BullishConfirmation(cs[Len(cs)])
             /\ Entry.abovePrevious => cs[Len(cs)].close > cs[Len(cs) - 1].high
<1>1. Entry.bars = 1
  BY DEF PlainSetup
<1>2. Max({2, 1}) = 2
  BY DEF Max
<1>3. (Len(cs) - 1 + 1)..Len(cs) = {Len(cs)}
  OBVIOUS
<1>. QED BY <1>1, <1>2, <1>3 DEF ConfirmationCandles

\* When no step waits.
LEMMA WaitingIsEmpty ==
    ASSUME NEW cs, NEW prm, NEW override, NEW now, NEW price
    PROVE  WaitingSteps(cs, prm, override, now, price) = {} <=>
             /\ AssetUnlocked(cs, override, now) \/ NewsBlocked(now)
             /\ BullishConfirmation(cs[Len(cs)])
             /\ Entry.abovePrevious /\ Len(cs) >= 2 => cs[Len(cs)].close > cs[Len(cs) - 1].high
             /\ CurrentPullback(cs, prm) # NoPullback
             /\ Entry.requireZone =>
                  /\ CurrentPullback(cs, prm) # NoPullback
                  /\ ConfirmedZone(CurrentPullback(cs, prm), CloseTime(cs[Len(cs)]), price) # NoZone
<1>. DEFINE A == AssetUnlocked(cs, override, now) \/ NewsBlocked(now)
            B == /\ BullishConfirmation(cs[Len(cs)])
                 /\ Entry.abovePrevious /\ Len(cs) >= 2 => cs[Len(cs)].close > cs[Len(cs) - 1].high
            C == CurrentPullback(cs, prm) # NoPullback
            D == Entry.requireZone =>
                   /\ CurrentPullback(cs, prm) # NoPullback
                   /\ ConfirmedZone(CurrentPullback(cs, prm), CloseTime(cs[Len(cs)]), price) # NoZone
            met == [unlock |-> A, confirmation |-> B, pullback |-> C, zone |-> D]
<1>1. WaitingSteps(cs, prm, override, now, price) = {step \in DOMAIN met : ~met[step]}
  BY DEF WaitingSteps
<1>. HIDE DEF A, B, C, D
<1>2. /\ DOMAIN met = {"unlock", "confirmation", "pullback", "zone"}
      /\ met["unlock"] = A /\ met["confirmation"] = B /\ met["pullback"] = C /\ met["zone"] = D
  OBVIOUS
<1>. HIDE DEF met
<1>3. {step \in DOMAIN met : ~met[step]} = {} <=> A /\ B /\ C /\ D
  BY <1>2
<1>. QED BY <1>1, <1>3 DEF A, B, C, D

\* What the simulator answers, compared with what a run decides.
LEMMA ExplainsNow == ASSUME PlainSetup, TwoCandles PROVE SimulatorExplains
<1>. DEFINE cs == Window300
            known == Known
            p == CurrentPullback(cs, params)
            last == candles[Len(candles)]
            zone == ConfirmedZone(p, CloseTime(last), LastClose)
            d == ShouldBuy(cs, params, known, LastClose)
            unlocked == AssetUnlocked(cs, params.override, Now)
            confirmed == ConfirmationCandles(cs)
            spaced == SpacingAllows(known, LastClose)
            answer  == Simulate(cs, params, params.override, Now, known, LastClose)
            waiting == WaitingSteps(cs, params, params.override, Now, LastClose)
<1>1. Len(cs) \in Nat /\ Len(cs) >= 2 /\ cs[Len(cs)] = last
  BY WindowEnds
<1>2. waiting = {} <=> (unlocked \/ NewsBlocked(Now)) /\ confirmed /\ p # NoPullback /\ zone # NoZone
  BY <1>1, OneCandleConfirms, WaitingIsEmpty DEF PlainSetup
<1>3. MatchingZone(p, CloseTime(last), LastClose) = zone
  BY DEF MatchingZone, PlainSetup
<1>4. last.time # 0
  BY LenProperties DEF TwoCandles, Day, Bar
<1>5. d = IF confirmed /\ params.lastCandle # last.time /\ p # NoPullback /\ zone # NoZone
             /\ params.lastLow # p.lowTime /\ spaced
          THEN [conf |-> last.time, low |-> p.lowTime, peak |-> p.peak,
                zone |-> zone.id, mult |-> Multiplier(LastClose, zone)]
          ELSE NoEntry
  <2>. HIDE DEF cs, p, zone, last, known
  <2>1. d = EntryOf(p, cs, params, known, LastClose)
    BY DEF ShouldBuy, p
  <2>. QED BY <1>1, <1>3, <2>1 DEF EntryOf, PlainSetup
<1>6. SimulatedMultiplier(cs, params, LastClose) = Multiplier(LastClose, zone)
  BY <1>1 DEF SimulatedMultiplier
<1>7. /\ answer = "BUY" => ~NewsBlocked(Now) /\ d # NoEntry /\ unlocked
      /\ answer = "WAIT" => ~NewsBlocked(Now) /\ ~(d # NoEntry /\ unlocked)
  <2>1. FailingSteps(Now) = {} => ~NewsBlocked(Now)
    BY DEF FailingSteps
  <2>2. answer = IF FailingSteps(Now) # {} THEN "BLOCKED"
                 ELSE IF d # NoEntry /\ unlocked THEN "BUY" ELSE "WAIT"
    BY DEF Simulate
  <2>. HIDE DEF answer, d, unlocked
  <2>. QED BY <2>1, <2>2
<1>. HIDE DEF confirmed, spaced, unlocked, zone, p, d, answer, waiting, last
<1>8. d # NoEntry <=> /\ confirmed /\ params.lastCandle # last.time /\ p # NoPullback /\ zone # NoZone
                      /\ params.lastLow # p.lowTime /\ spaced
  BY <1>4, <1>5 DEF NoEntry
<1>9. d # NoEntry => d.mult = Multiplier(LastClose, zone)
  BY <1>5, <1>8
<1>10. answer = "BUY" => waiting = {} /\ SimulatedMultiplier(cs, params, LastClose) = d.mult
  BY <1>2, <1>6, <1>7, <1>8, <1>9
<1>11. answer = "WAIT" /\ waiting = {} =>
         params.lastCandle = last.time \/ params.lastLow = p.lowTime \/ ~spaced
  BY <1>2, <1>7, <1>8
<1>. QED BY <1>10, <1>11 DEF SimulatorExplains, answer, waiting, d, p, last, spaced

(* For every detector, every stored parameter and any positions: a setup that  *)
(* the simulator says is bought has no step that waits and the multiplier      *)
(* shown, and one that waits with every step fulfilled has been signalled      *)
(* before or is too close to other entries.                                    *)
THEOREM SimulatorIsRight == ASSUME PlainSetup PROVE Spec => []SimulatorExplains
<1>1. TwoCandles => SimulatorExplains
  BY ExplainsNow
<1>. QED BY <1>1, TwoCandlesAlways, PTL
----------------------------------------------------------------------------
(* The backtest.  Its states are compared with the live side candle by        *)
(* candle: before the decision on the last candle both have the trades of the *)
(* step before, and after it those of this step (SteadyInv).                  *)

\* The premises: the H2 candles begin with the windows, no session or zone ends
\* in the second between a close and the decision, no day begins with a
\* pullback, the backtest sees the whole day, and an order that does not fit is
\* reduced.
OfflineDay ==
  /\ WholeDay /\ Aligned
  /\ Detector.maxCount >= 1 /\ BacktestWindow >= MaxCandles /\ Entry.degrade
  /\ Session.end % Bar \notin {0, 1}
  /\ \A i \in 1..Len(Zones) : Zones[i].time2 % Bar # 0
  /\ \A m \in Mornings : Len(m) >= 2 /\ Found(m) = << >>

BtStart == [open |-> {}, trades |-> << >>, prm |-> CleanParams(Thresholds[1]), seen |-> {}]

BtRuns(cs, u, n, st) ==
  st = [i \in 0..n |-> IF i = 0 THEN BtStart ELSE BacktestStep(cs, u, st[i - 1], i)]

\* The states of the backtest, one per candle.
Bt(cs) == CHOOSE st : BtRuns(cs, UnlockedAt(cs), Len(cs), st)

\* The recursive function of the backtest exists,
LEMMA BtExists ==
    ASSUME NEW cs, NEW u, NEW n \in Nat
    PROVE  \E st : BtRuns(cs, u, n, st)
<1>. DEFINE P == {k \in 0..n : \E st : BtRuns(cs, u, k, st)}
<1>1. 0 \in P
  <2>. DEFINE g == [i \in 0..0 |-> BtStart]
  <2>1. BtRuns(cs, u, 0, g)
    BY DEF BtRuns
  <2>. QED BY <2>1
<1>2. ASSUME NEW k \in 1..n, k - 1 \in P
      PROVE  k \in P
  <2>1. PICK st : BtRuns(cs, u, k - 1, st)
    BY <1>2
  <2>. DEFINE g == [i \in 0..k |-> IF i = k THEN BacktestStep(cs, u, st[k - 1], k) ELSE st[i]]
  <2>2. \A i \in 0..(k - 1) : g[i] = st[i]
    OBVIOUS
  <2>3. \A i \in 0..k : g[i] = IF i = 0 THEN BtStart ELSE BacktestStep(cs, u, g[i - 1], i)
    <3>. TAKE i \in 0..k
    <3>1. CASE i = k
      <4>1. g[i] = BacktestStep(cs, u, st[k - 1], k) /\ g[k - 1] = st[k - 1]
        BY <2>2, <3>1
      <4>. HIDE DEF g
      <4>. QED BY <3>1, <4>1
    <3>2. CASE i # k
      <4>1. i \in 0..(k - 1) /\ (i # 0 => i - 1 \in 0..(k - 1))
        BY <3>2
      <4>2. st[i] = IF i = 0 THEN BtStart ELSE BacktestStep(cs, u, st[i - 1], i)
        BY <2>1, <4>1 DEF BtRuns
      <4>3. g[i] = st[i] /\ (i # 0 => g[i - 1] = st[i - 1])
        BY <2>2, <4>1
      <4>. HIDE DEF g
      <4>. QED BY <4>2, <4>3
    <3>. QED BY <3>1, <3>2
  <2>4. g = [i \in 0..k |-> g[i]]
    OBVIOUS
  <2>. HIDE DEF g
  <2>5. BtRuns(cs, u, k, g)
    BY <2>3, <2>4 DEF BtRuns
  <2>. QED BY <2>5
<1>3. n \in P
  <2>. HIDE DEF P
  <2>1. \A k \in 0..n : k \in P
    BY <1>1, <1>2, StepInduction
  <2>. QED BY <2>1
<1>. QED BY <1>3

\* and these are its values.
LEMMA BtAre ==
    ASSUME NEW cs, Len(cs) \in Nat
    PROVE  /\ Bt(cs)[0] = BtStart
           /\ \A i \in 1..Len(cs) : Bt(cs)[i] = BacktestStep(cs, UnlockedAt(cs), Bt(cs)[i - 1], i)
           /\ Backtest(cs, Thresholds[1]) = Bt(cs)[Len(cs)]
<1>. DEFINE n == Len(cs)
            u == UnlockedAt(cs)
            st == Bt(cs)
<1>1. BtRuns(cs, u, n, st)
  <2>1. \E g : BtRuns(cs, u, n, g)
    BY BtExists
  <2>. QED BY <2>1 DEF Bt
<1>2. Backtest(cs, Thresholds[1]) = st[n]
  BY DEF Backtest, Bt, BtRuns, BtStart
<1>. HIDE DEF n, u, st
<1>3. \A i \in 0..n : st[i] = IF i = 0 THEN BtStart ELSE BacktestStep(cs, u, st[i - 1], i)
  BY <1>1 DEF BtRuns
<1>4. st[0] = BtStart /\ \A i \in 1..n : st[i] = BacktestStep(cs, u, st[i - 1], i)
  <2>1. n \in Nat
    BY DEF n
  <2>. QED BY <1>3, <2>1
<1>. QED BY <1>2, <1>4 DEF n, u, st

\* The parts of a step: what is open, the decision, and what becomes of it.
BtOpen(cs, s, i) == StillOpen(s.open, cs[i])

BtDecision(cs, s, i) ==
  ShouldBuy(Window(cs, i, BacktestWindow), s.prm, BtOpen(cs, s, i), cs[i].close)

BtAsks(cs, s, i) ==
  /\ i >= 3 /\ SessionAllows(CloseTime(cs[i])) /\ ~NewsBlocked(CloseTime(cs[i]) + 1)
  /\ BtDecision(cs, s, i) # NoEntry

BtSize(cs, s, i) == SizeEntry(BtDecision(cs, s, i).mult, BtOpen(cs, s, i))

BtTrade(cs, s, i) ==
  [conf |-> BtDecision(cs, s, i).conf, low |-> BtDecision(cs, s, i).low, peak |-> BtDecision(cs, s, i).peak,
   mult |-> BtSize(cs, s, i), price |-> cs[i].close, tp |-> TakeProfit(cs[i].close)]

BtEnters(cs, u, s, i) ==
  /\ BtDecision(cs, s, i).low \notin s.seen
  /\ u <= CloseTime(cs[i]) + 1
  /\ ZoneHolds(BtDecision(cs, s, i), CloseTime(cs[i]) + 1, cs[i].close)
  /\ BtSize(cs, s, i) > 0

LEMMA BtStepIs ==
    ASSUME NEW cs, NEW u, NEW s, NEW i
    PROVE  BacktestStep(cs, u, s, i) =
             IF ~BtAsks(cs, s, i) THEN [s EXCEPT !.open = BtOpen(cs, s, i)]
             ELSE IF BtEnters(cs, u, s, i)
             THEN [open   |-> BtOpen(cs, s, i) \cup {BtTrade(cs, s, i)},
                   trades |-> Append(s.trades, BtTrade(cs, s, i)),
                   prm    |-> RecordEntryCycle(s.prm, BtDecision(cs, s, i)),
                   seen   |-> s.seen \cup {BtDecision(cs, s, i).low}]
             ELSE [s EXCEPT !.open = BtOpen(cs, s, i), !.seen = @ \cup {BtDecision(cs, s, i).low}]
BY DEF BacktestStep, BtAsks, BtEnters, BtOpen, BtDecision, BtTrade, BtSize

\* A window ends within the session.
LEMMA WindowsEnd ==
    ASSUME NEW w \in EvaluationWindows
    PROVE  w.to \in 0..Session.end
<1>1. Session.start \in Nat /\ Session.end \in Nat
  BY SessionAssumption
<1>2. PICK tf \in Session.mode :
        \E k \in 0..((Session.end - Session.start) \div Hours[tf] - 1) : w.to = Session.start + (k + 1) * Hours[tf]
  BY DEF EvaluationWindows
<1>3. Hours[tf] \in {8, 12}
  BY SessionAssumption DEF Hours, Bar
<1>4a. PICK s, e \in Nat : s = Session.start /\ e = Session.end
  BY <1>1
<1>4. PICK x \in Int : x = e - s
  OBVIOUS
<1>5. CASE Hours[tf] = 8
  <2>1. \E k \in Nat : k + 1 <= x \div 8 /\ w.to = s + (k + 1) * 8
    BY <1>2, <1>4, <1>4a, <1>5
  <2>2. (x \div 8) * 8 <= x
    OBVIOUS
  <2>. QED BY <1>4, <1>4a, <2>1, <2>2
<1>6. CASE Hours[tf] = 12
  <2>1. \E k \in Nat : k + 1 <= x \div 12 /\ w.to = s + (k + 1) * 12
    BY <1>2, <1>4, <1>4a, <1>6
  <2>2. (x \div 12) * 12 <= x
    OBVIOUS
  <2>. QED BY <1>4, <1>4a, <2>1, <2>2
<1>. QED BY <1>3, <1>5, <1>6

\* The backtest computes the time of the unlock in advance; the live side asks
\* for it candle by candle.
LEMMA UnlockedBy ==
    ASSUME NEW cs, NEW now \in Int, CloseTime(cs[Len(cs)]) \in Int, now <= CloseTime(cs[Len(cs)]) + 1,
           Session.end >= 1
    PROVE  UnlockedAt(cs) <= now <=> Unlocked(cs, now)
<1>. DEFINE ends == {w.to : w \in {v \in EvaluationWindows : Qualifies(cs, v)}}
            late == Session.end + CloseTime(cs[Len(cs)]) + 1
<1>1. UnlockedAt(cs) = IF ends = {} THEN late ELSE Min(ends)
  BY DEF UnlockedAt
<1>2. Unlocked(cs, now) <=> \E x \in ends : x <= now
  BY DEF Unlocked
<1>3. Session.end \in Nat
  BY SessionAssumption
<1>4. ends \subseteq 0..Session.end
  BY WindowsEnd
<1>. HIDE DEF ends
<1>5. CASE ends = {}
  <2>1. ~(late <= now)
    BY <1>3
  <2>. QED BY <1>1, <1>2, <1>5, <2>1
<1>6. CASE ends # {}
  <2>1. ends \in SUBSET Int /\ IsFiniteSet(ends)
    <3>1. PICK z, e \in Int : z = 0 /\ e = Session.end
      BY <1>3
    <3>2. IsFiniteSet(z..e)
      BY FS_Interval
    <3>3. ends \subseteq z..e
      BY <1>4, <3>1
    <3>4. IsFiniteSet(ends)
      BY <3>2, <3>3, FS_Subset
    <3>. QED BY <1>4, <3>4
  <2>2. Min(ends) \in ends /\ Min(ends) \in Int /\ \A y \in ends : Min(ends) <= y
    BY <1>6, <2>1, MinIsLeast
  <2>3. (\E x \in ends : x <= now) <=> Min(ends) <= now
    BY <2>1, <2>2
  <2>. QED BY <1>1, <1>2, <1>6, <2>3
<1>. QED BY <1>5, <1>6

\* The part of the day up to a candle.
Upto(cs, i) == SubSeq(cs, 1, i)

\* The greater of one and another number.
LEMMA OneOrMore ==
    ASSUME NEW x \in Int
    PROVE  Max({1, x}) \in {1, x} /\ \A y \in {1, x} : y <= Max({1, x})
<1>1. {1, x} \in SUBSET Int /\ {1, x} # {}
  OBVIOUS
<1>2. {1, x} = {1} \cup {x}
  OBVIOUS
<1>3. IsFiniteSet({1}) /\ IsFiniteSet({x})
  BY FS_Singleton
<1>4. IsFiniteSet({1, x})
  BY <1>2, <1>3, FS_Union
<1>. QED BY <1>1, <1>4, MaxIsGreatest

\* What the backtest shows the detector.
LEMMA WindowIsPart ==
    ASSUME NEW cs, NEW i \in Nat, NEW n \in Nat, i <= n
    PROVE  Window(cs, i, n) = Upto(cs, i)
<1>1. PICK x \in Int : x = i - n + 1 /\ x <= 1
  OBVIOUS
<1>2. Max({1, x}) = 1
  <2>1. Max({1, x}) \in {1, x} /\ \A y \in {1, x} : y <= Max({1, x})
    BY OneOrMore
  <2>. QED BY <1>1, <2>1
<1>. QED BY <1>1, <1>2 DEF Window, Upto

LEMMA UptoIs ==
    ASSUME NEW cs \in Seq(Candle), NEW i \in Nat, i <= Len(cs)
    PROVE  /\ Upto(cs, i) \in Seq(Candle) /\ Len(Upto(cs, i)) = i
           /\ \A k \in 1..i : Upto(cs, i)[k] = cs[k]
<1>1. Len(cs) \in Nat /\ \A k \in 1..i : cs[k] \in Candle
  BY LenProperties, ElementOfSeq
<1>. DEFINE w == SubSeq(cs, 1, i)
<1>2. /\ w \in Seq(Candle) /\ Len(w) = (IF 1 <= i THEN i - 1 + 1 ELSE 0)
      /\ \A k \in 1..(i - 1 + 1) : w[k] = cs[1 + k - 1]
  BY <1>1, SubSeqProperties
<1>. HIDE DEF w
<1>3. w \in Seq(Candle) /\ Len(w) = i /\ \A k \in 1..i : w[k] = cs[k]
  BY <1>2
<1>. QED BY <1>3 DEF w, Upto

\* The pullback that the last candle of the history confirms, or none.
Newest(F, T) == IF Len(F) > 0 /\ F[Len(F)].conf = T THEN F[Len(F)] ELSE NoPullback

\* Whoever does not know of an entry on the last candle finds it.
LEMMA CurrentIsNewest ==
    ASSUME NEW cs, IsDay(cs), Detector.disallowSame, Detector.minBetween = 0, Detector.maxCount >= 1,
           NEW prm, NEW th, th = EntryThresholds(prm.bp), prm.bounds \subseteq ConfTimes(cs, th),
           cs[Len(cs)].time \notin prm.bounds, NEW F, F = Confirmed(cs, th)
    PROVE  CurrentPullback(cs, prm) = Newest(F, cs[Len(cs)].time)
<1>. DEFINE p == CurrentPullback(cs, prm)
            T == cs[Len(cs)].time
            g == Confirmed(CycleCandles(cs, prm.bounds), th)
            a == Max({1, Len(g) - Detector.maxCount + 1})
            L == SubSeq(g, a, Len(g))
            now == {i \in DOMAIN L : L[i].conf = T}
<1>1. CASE p # NoPullback
  <2>1. Len(F) \in 1..Len(F) /\ p = F[Len(F)] /\ p.conf = T
    <3>. HIDE DEF T
    <3>. QED BY <1>1, CurrentIs DEF T
  <2>2. Len(F) \in Nat
    BY ConfirmedFacts
  <2>3. Len(F) > 0
    BY <2>1, <2>2
  <2>. HIDE DEF p
  <2>. QED BY <2>1, <2>3 DEF Newest, p
<1>2. CASE p = NoPullback
  <2>. SUFFICES ASSUME Len(F) > 0, F[Len(F)].conf = T PROVE FALSE
    BY <1>2 DEF Newest
  <2>1. EndOf(g, F) /\ ~(g = << >> /\ Len(F) > 0 /\ F[Len(F)].conf \notin prm.bounds)
    BY CycleIsPart
  <2>2. p = IF now = {} THEN NoPullback ELSE L[Max(now)]
    BY DEF CurrentPullback, ConfirmedAt, Latest
  <2>3. T \in Nat \ {0}
    BY DayLength, CandleFacts
  <2>. HIDE DEF g
  <2>4. T \notin prm.bounds
    OBVIOUS
  <2>. HIDE DEF T
  <2>5. g \in Seq(Pull) /\ Len(g) \in Nat /\ g # << >>
    BY <2>1, <2>4, LenProperties DEF EndOf
  <2>6. Len(g) >= 1
    BY <2>5, EmptySeq
  <2>7. a \in Int /\ a >= 1 /\ a <= Len(g)
    <3>1. PICK x \in Int : x = Len(g) - Detector.maxCount + 1 /\ x <= Len(g)
      BY <2>5, DetectorAssumption
    <3>3. Max({1, x}) \in {1, x} /\ \A y \in {1, x} : y <= Max({1, x})
      BY OneOrMore
    <3>. QED BY <2>6, <3>1, <3>3
  <2>. HIDE DEF a
  <2>8. /\ L \in Seq(Pull) /\ Len(L) = Len(g) - a + 1
        /\ \A i \in 1..(Len(g) - a + 1) : L[i] = g[a + i - 1]
    <3>1. \A i \in a..Len(g) : g[i] \in Pull
      BY <2>5, <2>7, ElementOfSeq
    <3>. QED BY <2>5, <2>7, <3>1, SubSeqProperties
  <2>. HIDE DEF L
  <2>9. DOMAIN L = 1..Len(L) /\ Len(L) \in Nat /\ Len(L) >= 1
    BY <2>5, <2>7, <2>8, LenProperties
  <2>10. L[Len(L)] = g[Len(g)]
    <3>1. Len(L) \in 1..(Len(g) - a + 1) /\ a + Len(L) - 1 = Len(g)
      BY <2>5, <2>7, <2>8
    <3>2. L[Len(L)] = g[a + Len(L) - 1]
      BY <2>8, <3>1
    <3>. QED BY <3>1, <3>2
  <2>11. g[Len(g)] = F[Len(F)]
    <3>1. PICK f \in Seq(Pull) : F = f \o g
      BY <2>1 DEF EndOf
    <3>2. /\ Len(F) = Len(f) + Len(g) /\ Len(f) \in Nat
          /\ \A z \in 1..(Len(f) + Len(g)) : F[z] = IF z <= Len(f) THEN f[z] ELSE g[z - Len(f)]
      BY <2>5, <3>1, ConcatProperties, LenProperties
    <3>3. Len(F) \in 1..(Len(f) + Len(g)) /\ ~(Len(F) <= Len(f)) /\ Len(F) - Len(f) = Len(g)
      BY <2>5, <2>6, <3>2
    <3>. QED BY <3>2, <3>3
  <2>12. Len(L) \in now
    BY <2>9, <2>10, <2>11
  <2>13. Max(now) \in now
    <3>1. now # {} /\ now \in SUBSET Int
      BY <2>9, <2>12
    <3>2. IsFiniteSet(now)
      <4>0. Len(L) \in Int
        BY <2>9
      <4>1. PICK z \in Int : z = Len(L)
        BY <4>0
      <4>2. IsFiniteSet(1..z)
        BY FS_Interval
      <4>3. now \subseteq 1..z
        BY <2>9, <4>1
      <4>. HIDE DEF now
      <4>. QED BY <4>2, <4>3, FS_Subset
    <3>. HIDE DEF now
    <3>. QED BY <3>1, <3>2, MaxIsGreatest
  <2>14. L[Max(now)].conf = T
    BY <2>13
  <2>15. p = L[Max(now)]
    BY <2>2, <2>12
  <2>. HIDE DEF now, p
  <2>16. NoPullback.conf = T
    BY <1>2, <2>14, <2>15
  <2>. QED BY <2>3, <2>16 DEF NoPullback
<1>. QED BY <1>1, <1>2

\* No two pullbacks have the same low.
LEMMA LowsDiffer ==
    ASSUME Day, Detector.disallowSame, NEW F, F = Found(candles),
           NEW a \in 1..Len(F), NEW b \in 1..Len(F), F[a].lowTime = F[b].lowTime
    PROVE  a = b
<1>1. IsDay(candles)
  BY DayIsDay
<1>2. PICK th : th = EntryThresholds(Thresholds[1])
  OBVIOUS
<1>3. F = Confirmed(candles, th)
  BY <1>2 DEF Found
<1>4. /\ Len(F) \in Nat
      /\ \A j \in 1..Len(F) : /\ F[j] \in Pull /\ F[j].peak < F[j].lowTime /\ F[j].lowTime <= F[j].conf
    BY <1>1, <1>3, ConfirmedFacts
<1>5. \A j \in 1..Len(F) : F[j].peak \in Nat /\ F[j].lowTime \in Nat /\ F[j].conf \in Nat
  BY <1>4 DEF Pull
<1>6. \A x, y \in 1..Len(F) : x < y => F[x].conf <= F[y].peak
  BY <1>1, <1>3, ConfirmedInOrder
<1>7. ASSUME NEW x \in 1..Len(F), NEW y \in 1..Len(F), x < y
      PROVE  F[x].lowTime # F[y].lowTime
  <2>1. F[x].conf <= F[y].peak
    BY <1>6, <1>7
  <2>2. F[x].lowTime <= F[x].conf /\ F[y].peak < F[y].lowTime
    BY <1>4
  <2>3. F[x].lowTime \in Nat /\ F[x].conf \in Nat /\ F[y].peak \in Nat /\ F[y].lowTime \in Nat
    BY <1>5
  <2>. QED BY <2>1, <2>2, <2>3
<1>8. a \in Int /\ b \in Int
  BY <1>4
<1>9. ~(a < b) /\ ~(b < a)
  BY <1>7
<1>. QED BY <1>8, <1>9


\* One more candle changes nothing of the steps before: the time of the unlock
\* may change, but not whether it has come.
LEMMA StepStays ==
    ASSUME OfflineDay, Day, CloseCandle, NEW i \in 1..Len(candles), NEW s
    PROVE  BacktestStep(candles', UnlockedAt(candles'), s, i) = BacktestStep(candles, UnlockedAt(candles), s, i)
<1>. DEFINE n == Len(candles)
            now == CloseTime(candles[i]) + 1
<1>0. /\ candles \in Seq(Candle) /\ n \in Nat /\ n >= 1 /\ n <= MaxCandles /\ MaxCandles \in Nat
      /\ \A k \in 1..n : candles[k].time = Bar * k
  BY LenProperties, LiveAssumption DEF Day
<1>1. Day' /\ Len(candles') = n + 1 /\ Part(candles, candles', 0)
  BY CandleCloses
<1>2. /\ candles' \in Seq(Candle) /\ \A k \in 1..n : candles'[k] = candles[k]
      /\ \A k \in 1..(n + 1) : candles'[k].time = Bar * k
  BY <1>0, <1>1 DEF Day, Part
<1>3. candles'[i] = candles[i] /\ candles[i].time = Bar * i /\ i \in Nat /\ i <= n
  BY <1>0, <1>2
<1>. HIDE DEF n
<1>4. BacktestWindow \in Nat /\ i <= BacktestWindow
  BY <1>0, <1>3, WindowAssumption DEF OfflineDay
<1>5. Window(candles', i, BacktestWindow) = Window(candles, i, BacktestWindow)
  <2>1. Window(candles', i, BacktestWindow) = Upto(candles', i) /\ Window(candles, i, BacktestWindow) = Upto(candles, i)
    BY <1>3, <1>4, WindowIsPart
  <2>2. /\ Upto(candles, i) \in Seq(Candle) /\ Len(Upto(candles, i)) = i
        /\ \A k \in 1..i : Upto(candles, i)[k] = candles[k]
    BY <1>0, <1>3, UptoIs DEF n
  <2>3. /\ Upto(candles', i) \in Seq(Candle) /\ Len(Upto(candles', i)) = i
        /\ \A k \in 1..i : Upto(candles', i)[k] = candles'[k]
    <3>1. i <= Len(candles')
      BY <1>0, <1>1, <1>3
    <3>. QED BY <1>2, <1>3, <3>1, UptoIs
  <2>. DEFINE a == Upto(candles, i)
              b == Upto(candles', i)
  <2>. HIDE DEF a, b
  <2>4. a \in Seq(Candle) /\ b \in Seq(Candle) /\ Len(a) = i /\ Len(b) = i /\ \A k \in 1..i : a[k] = b[k]
    <3>1. \A k \in 1..i : k \in 1..n
      BY <1>0, <1>3
    <3>. QED BY <1>2, <2>2, <2>3, <3>1 DEF a, b
  <2>5. a = [k \in 1..i |-> a[k]] /\ b = [k \in 1..i |-> b[k]]
    BY <2>4, LenProperties
  <2>6. a = b
    BY <2>4, <2>5
  <2>. QED BY <2>1, <2>6 DEF a, b
<1>6. BtAsks(candles', s, i) <=> BtAsks(candles, s, i)
  BY <1>3, <1>5 DEF BtAsks, BtDecision, BtOpen
<1>7. /\ BtOpen(candles', s, i) = BtOpen(candles, s, i) /\ BtDecision(candles', s, i) = BtDecision(candles, s, i)
      /\ BtTrade(candles', s, i) = BtTrade(candles, s, i) /\ BtSize(candles', s, i) = BtSize(candles, s, i)
  BY <1>3, <1>5 DEF BtDecision, BtOpen, BtTrade, BtSize
<1>8. ASSUME BtAsks(candles, s, i)
      PROVE  UnlockedAt(candles') <= now <=> UnlockedAt(candles) <= now
  <2>1. CloseTime(candles[i]) = 4 * i + 4 /\ now = 4 * i + 5
    BY <1>3 DEF CloseTime, Bar
  <2>2. /\ CloseTime(candles[Len(candles)]) = 4 * n + 4 /\ Now = 4 * n + 5
        /\ CloseTime(candles'[Len(candles')]) = 4 * n + 8
    <3>1. n \in 1..n /\ n + 1 \in 1..(n + 1)
      BY <1>0
    <3>2. candles[n].time = Bar * n /\ candles'[n + 1].time = Bar * (n + 1)
      BY <1>0, <1>2, <3>1
    <3>. QED BY <1>0, <1>1, <3>2 DEF CloseTime, Bar, Now, n
  <2>3. Session.end >= 1
    <3>1. 4 * i + 4 <= Session.end
      BY <1>8, <2>1 DEF BtAsks, SessionAllows
    <3>. QED BY <1>3, <3>1, SessionAssumption
  <2>. HIDE DEF now
  <2>4. now \in Int /\ now <= Now /\ now <= 4 * n + 5 /\ now <= 4 * n + 9 /\ Now \in Int
    BY <1>0, <1>3, <2>1, <2>2
  <2>5. UnlockedAt(candles) <= now <=> Unlocked(candles, now)
    <3>1. CloseTime(candles[Len(candles)]) \in Int /\ now <= CloseTime(candles[Len(candles)]) + 1
      BY <1>0, <2>2, <2>4
    <3>. QED BY <2>3, <2>4, <3>1, UnlockedBy
  <2>6. UnlockedAt(candles') <= now <=> Unlocked(candles', now)
    <3>1. CloseTime(candles'[Len(candles')]) \in Int /\ now <= CloseTime(candles'[Len(candles')]) + 1
      BY <1>0, <2>2, <2>4
    <3>. QED BY <2>3, <2>4, <3>1, UnlockedBy
  <2>7. Unlocked(candles', now) <=> Unlocked(candles, now)
    <3>1. ASSUME NEW w \in EvaluationWindows, w.to <= now
          PROVE  Qualifies(candles', w) <=> Qualifies(candles, w)
      <4>1. w.to \in Int
        BY WindowsEnd, SessionAssumption
      <4>2. w.to <= Now
        BY <2>4, <3>1, <4>1
      <4>. QED BY <4>2, ClosedStays DEF OfflineDay
    <3>. QED BY <3>1 DEF Unlocked
  <2>. QED BY <2>5, <2>6, <2>7
<1>9. BtAsks(candles, s, i) => (BtEnters(candles', UnlockedAt(candles'), s, i) <=> BtEnters(candles, UnlockedAt(candles), s, i))
  BY <1>3, <1>7, <1>8 DEF BtEnters
<1>10. PICK x, y : x = BacktestStep(candles, UnlockedAt(candles), s, i) /\ y = BacktestStep(candles', UnlockedAt(candles'), s, i)
  OBVIOUS
<1>11. x = IF ~BtAsks(candles, s, i) THEN [s EXCEPT !.open = BtOpen(candles, s, i)]
           ELSE IF BtEnters(candles, UnlockedAt(candles), s, i)
           THEN [open   |-> BtOpen(candles, s, i) \cup {BtTrade(candles, s, i)},
                 trades |-> Append(s.trades, BtTrade(candles, s, i)),
                 prm    |-> RecordEntryCycle(s.prm, BtDecision(candles, s, i)),
                 seen   |-> s.seen \cup {BtDecision(candles, s, i).low}]
           ELSE [s EXCEPT !.open = BtOpen(candles, s, i), !.seen = @ \cup {BtDecision(candles, s, i).low}]
  BY <1>10, BtStepIs
<1>12. y = IF ~BtAsks(candles', s, i) THEN [s EXCEPT !.open = BtOpen(candles', s, i)]
           ELSE IF BtEnters(candles', UnlockedAt(candles'), s, i)
           THEN [open   |-> BtOpen(candles', s, i) \cup {BtTrade(candles', s, i)},
                 trades |-> Append(s.trades, BtTrade(candles', s, i)),
                 prm    |-> RecordEntryCycle(s.prm, BtDecision(candles', s, i)),
                 seen   |-> s.seen \cup {BtDecision(candles', s, i).low}]
           ELSE [s EXCEPT !.open = BtOpen(candles', s, i), !.seen = @ \cup {BtDecision(candles', s, i).low}]
  BY <1>10, BtStepIs
<1>13. x = y
  BY <1>6, <1>7, <1>9, <1>11, <1>12
<1>. QED BY <1>10, <1>13

\* The states of the backtest stay.
LEMMA BtStays ==
    ASSUME OfflineDay, Day, CloseCandle
    PROVE  \A i \in 0..Len(candles) : Bt(candles')[i] = Bt(candles)[i]
<1>. DEFINE n == Len(candles)
            b == Bt(candles)
            c == Bt(candles')
            P == {i \in 0..n : c[i] = b[i]}
<1>0. n \in Nat /\ Len(candles') = n + 1
  BY CandleCloses, LenProperties DEF Day
<1>1. b[0] = BtStart /\ \A i \in 1..n : b[i] = BacktestStep(candles, UnlockedAt(candles), b[i - 1], i)
  BY <1>0, BtAre
<1>2. c[0] = BtStart /\ \A i \in 1..(n + 1) : c[i] = BacktestStep(candles', UnlockedAt(candles'), c[i - 1], i)
  <2>1. Len(candles') \in Nat
    BY <1>0
  <2>. QED BY <1>0, <2>1, BtAre
<1>3. ASSUME NEW i \in 1..n
      PROVE  c[i] = BacktestStep(candles, UnlockedAt(candles), c[i - 1], i)
  <2>1. i \in 1..(n + 1)
    BY <1>0
  <2>2. PICK s : s = c[i - 1]
    OBVIOUS
  <2>3. c[i] = BacktestStep(candles', UnlockedAt(candles'), s, i)
    BY <1>2, <2>1, <2>2
  <2>4. BacktestStep(candles', UnlockedAt(candles'), s, i) = BacktestStep(candles, UnlockedAt(candles), s, i)
    BY StepStays
  <2>. QED BY <2>2, <2>3, <2>4
<1>. HIDE DEF b, c, n
<1>4. 0 \in P
  BY <1>0, <1>1, <1>2
<1>5. ASSUME NEW i \in 1..n, i - 1 \in P
      PROVE  i \in P
  <2>1. c[i - 1] = b[i - 1]
    BY <1>5
  <2>2. c[i] = b[i]
    BY <1>1, <1>3, <2>1
  <2>. QED BY <1>0, <2>2
<1>. HIDE DEF P
<1>6. \A i \in 0..n : i \in P
  BY <1>0, <1>4, <1>5, StepInduction
<1>. QED BY <1>6 DEF P, b, c, n

\* The confirmations and the lows of the pullbacks up to a time.
Confs(F, T) == {F[j].conf : j \in {k \in 1..Len(F) : F[k].conf <= T}}

Lows(F, T) == {F[j].lowTime : j \in {k \in 1..Len(F) : F[k].conf <= T}}

\* What the backtest remembers is pullbacks of the day.
BtIn(s, F, T) ==
  /\ s = [open |-> s.open, trades |-> s.trades, prm |-> s.prm, seen |-> s.seen]
  /\ s.prm = [bp |-> Thresholds[1], bounds |-> s.prm.bounds, lastCandle |-> 0, lastLow |-> 0]
  /\ s.prm.bounds \subseteq Confs(F, T) /\ s.seen \subseteq Lows(F, T)

\* A part of the day is a day.
LEMMA UptoIsDay ==
    ASSUME NEW cs, IsDay(cs), NEW i \in 1..Len(cs)
    PROVE  IsDay(Upto(cs, i)) /\ Len(Upto(cs, i)) = i /\ \A k \in 1..i : Upto(cs, i)[k] = cs[k]
<1>. DEFINE w == Upto(cs, i)
            n == Len(cs)
<1>1. cs \in Seq(Candle) /\ n \in Nat /\ \A a, b \in 1..n : a < b => cs[a].time < cs[b].time
  BY LenProperties DEF IsDay
<1>. HIDE DEF n
<1>2. i \in Nat /\ i >= 1 /\ i <= n
  BY <1>1 DEF n
<1>3. w \in Seq(Candle) /\ Len(w) = i /\ \A k \in 1..i : w[k] = cs[k]
  BY <1>1, <1>2, UptoIs DEF n
<1>. HIDE DEF w
<1>4. \A a, b \in 1..i : a < b => w[a].time < w[b].time
  <2>. TAKE a, b \in 1..i
  <2>1. a \in 1..n /\ b \in 1..n
    BY <1>1, <1>2
  <2>. QED BY <1>1, <1>3, <2>1
<1>5. IsDay(w)
  BY <1>2, <1>3, <1>4 DEF IsDay
<1>. QED BY <1>3, <1>5 DEF w

\* The whole of it.
LEMMA UptoAll ==
    ASSUME NEW cs, IsDay(cs)
    PROVE  Upto(cs, Len(cs)) = cs
BY SubSeqFull DEF Upto, IsDay

\* A day without a pullback has none in its part.
LEMMA NoneBefore ==
    ASSUME Final, NEW cs, IsDay(cs), Found(cs) = << >>, NEW i \in 1..Len(cs)
    PROVE  Found(Upto(cs, i)) = << >>
<1>. DEFINE n == Len(cs)
            P == {k \in 0..(n - 1) : Found(Upto(cs, n - k)) = << >>}
<1>0. n \in Nat /\ n >= 1
  BY DayLength
<1>1. 0 \in P
  <2>1. n - 0 = n /\ 0 \in 0..(n - 1)
    BY <1>0
  <2>. QED BY <2>1, UptoAll
<1>2. ASSUME NEW k \in 1..(n - 1), k - 1 \in P
      PROVE  k \in P
  <2>. DEFINE a == Upto(cs, n - k)
              b == Upto(cs, n - (k - 1))
              F == Found(a)
  <2>1. n - k \in 1..n /\ n - (k - 1) \in 1..n /\ n - (k - 1) = (n - k) + 1
    BY <1>0
  <2>2. /\ IsDay(a) /\ Len(a) = n - k /\ \A j \in 1..(n - k) : a[j] = cs[j]
        /\ IsDay(b) /\ Len(b) = n - (k - 1) /\ \A j \in 1..(n - (k - 1)) : b[j] = cs[j]
    BY <2>1, UptoIsDay
  <2>3. Found(b) = << >>
    BY <1>2
  <2>. HIDE DEF a, b, n
  <2>4. Part(a, b, 0) /\ Len(b) = Len(a) + 1
    <3>1. \A j \in 1..(n - k) : j \in 1..(n - (k - 1)) /\ j + 0 = j
      BY <1>0
    <3>2. n - k + 0 <= n - (k - 1)
      BY <1>0
    <3>. QED BY <2>1, <2>2, <3>1, <3>2 DEF Part
  <2>5. IsPrefix(F, << >>)
    BY <2>3, <2>4, OneMoreCandle DEF Found
  <2>6. F \in Seq(Pull) /\ Len(F) \in Nat
    BY <2>2, ConfirmedFacts DEF Found
  <2>7. Len(F) = 0
    BY <2>5, <2>6 DEF IsPrefix
  <2>. HIDE DEF F
  <2>8. F = << >>
    BY <2>6, <2>7, EmptySeq
  <2>9. k \in 0..(n - 1)
    BY <1>0
  <2>. QED BY <2>8, <2>9 DEF F, a, n
<1>. HIDE DEF P
<1>3. \A k \in 0..(n - 1) : k \in P
  <2>1. n - 1 \in Nat
    BY <1>0
  <2>. QED BY <1>1, <1>2, <2>1, StepInduction
<1>4. n - i \in P
  BY <1>0, <1>3
<1>5. n - (n - i) = i
  BY <1>0
<1>. QED BY <1>4, <1>5 DEF P

\* The premises as they are used.
LEMMA OfflineFacts ==
    ASSUME OfflineDay
    PROVE  /\ Final /\ Detector.disallowSame /\ Detector.minBetween = 0 /\ Detector.maxCount >= 1
           /\ WholeDay /\ Aligned /\ LiveWindow >= MaxCandles
BY DEF OfflineDay, WholeDay

\* Whoever buys, buys the last pullback of the day.
LEMMA BuysNewest ==
    ASSUME WholeDay, NEW cs, IsDay(cs), NEW prm, prm.bp = Thresholds[1], prm.bounds \subseteq Bounds(cs),
           NEW known, NEW price, NEW d, d = EntryOf(CurrentPullback(cs, prm), cs, prm, known, price), d # NoEntry
    PROVE  /\ Len(Found(cs)) \in 1..Len(Found(cs)) /\ CurrentPullback(cs, prm) = Found(cs)[Len(Found(cs))]
           /\ d.conf = cs[Len(cs)].time /\ d.conf = Found(cs)[Len(Found(cs))].conf
           /\ d.low = Found(cs)[Len(Found(cs))].lowTime
<1>1. PICK p : p = CurrentPullback(cs, prm)
  OBVIOUS
<1>2. p # NoPullback /\ d.conf = cs[Len(cs)].time /\ d.low = p.lowTime
  BY <1>1 DEF EntryOf
<1>3. PICK th : th = EntryThresholds(prm.bp)
  OBVIOUS
<1>4. PICK F : F = Confirmed(cs, th)
  OBVIOUS
<1>5. F = Found(cs)
  BY <1>3, <1>4 DEF Found
<1>7. prm.bounds \subseteq ConfTimes(cs, th)
  BY <1>3 DEF Bounds
<1>6. Len(F) \in 1..Len(F) /\ p = F[Len(F)] /\ p.conf = cs[Len(cs)].time
  <2>1. Detector.disallowSame /\ Detector.minBetween = 0
    BY DEF WholeDay
  <2>2. p # NoPullback
    BY <1>2
  <2>. QED BY <1>1, <1>3, <1>4, <1>7, <2>1, <2>2, CurrentIs
<1>. QED BY <1>1, <1>2, <1>5, <1>6

\* What the backtest decides with.
LEMMA BtDecides ==
    ASSUME OfflineDay, NEW cs, IsDay(cs), Len(cs) <= MaxCandles, NEW s, NEW i \in 1..Len(cs)
    PROVE  BtDecision(cs, s, i) =
             EntryOf(CurrentPullback(Upto(cs, i), s.prm), Upto(cs, i), s.prm, BtOpen(cs, s, i), cs[i].close)
<1>1. Len(cs) \in Nat /\ MaxCandles \in Nat /\ BacktestWindow \in Nat /\ MaxCandles <= BacktestWindow
  BY DayLength, LiveAssumption, WindowAssumption DEF OfflineDay
<1>2. i \in Nat /\ i <= BacktestWindow
  BY <1>1
<1>3. Window(cs, i, BacktestWindow) = Upto(cs, i)
  BY <1>1, <1>2, WindowIsPart
<1>. QED BY <1>3 DEF BtDecision, ShouldBuy

\* It remembers pullbacks of the day only.
LEMMA BtInStep ==
    ASSUME OfflineDay, NEW cs, IsDay(cs), Len(cs) <= MaxCandles, NEW u, NEW s,
           NEW F, F = Found(cs), NEW T, T = cs[Len(cs)].time, BtIn(s, F, T)
    PROVE  BtIn(BacktestStep(cs, u, s, Len(cs)), F, T)
<1>. DEFINE n == Len(cs)
            d == BtDecision(cs, s, n)
            new == BacktestStep(cs, u, s, n)
            o == BtOpen(cs, s, n)
<1>1. new = IF ~BtAsks(cs, s, n) THEN [s EXCEPT !.open = o]
            ELSE IF BtEnters(cs, u, s, n)
            THEN [open   |-> o \cup {BtTrade(cs, s, n)},
                  trades |-> Append(s.trades, BtTrade(cs, s, n)),
                  prm    |-> RecordEntryCycle(s.prm, d),
                  seen   |-> s.seen \cup {d.low}]
            ELSE [s EXCEPT !.open = o, !.seen = @ \cup {d.low}]
  BY BtStepIs
<1>2. BtAsks(cs, s, n) => d.conf \in Confs(F, T) /\ d.low \in Lows(F, T)
  <2>. SUFFICES ASSUME d # NoEntry PROVE d.conf \in Confs(F, T) /\ d.low \in Lows(F, T)
    BY DEF BtAsks
  <2>1. n \in 1..n /\ n \in Nat
    BY DayLength
  <2>2. d = EntryOf(CurrentPullback(cs, s.prm), cs, s.prm, o, cs[n].close)
    <3>1. Upto(cs, n) = cs
      BY UptoAll
    <3>. QED BY <2>1, <3>1, BtDecides
  <2>3. s.prm.bp = Thresholds[1] /\ s.prm.bounds \subseteq Bounds(cs)
    <3>1. s.prm.bp = Thresholds[1] /\ s.prm.bounds \subseteq Confs(F, T)
      BY DEF BtIn
    <3>2. Confs(F, T) \subseteq Bounds(cs)
      BY DEF Confs, Bounds, ConfTimes, Found
    <3>. QED BY <3>1, <3>2
  <2>. HIDE DEF d, o
  <2>4. Len(F) \in 1..Len(F) /\ d.conf = T /\ d.conf = F[Len(F)].conf /\ d.low = F[Len(F)].lowTime
    BY <2>2, <2>3, BuysNewest, OfflineFacts
  <2>5. F[Len(F)].conf \in Nat
    BY <2>4, ConfirmedFacts DEF Found
  <2>6. Len(F) \in {k \in 1..Len(F) : F[k].conf <= T}
    BY <2>4, <2>5
  <2>. QED BY <2>4, <2>6 DEF Confs, Lows
<1>. HIDE DEF d, o
<1>3. PICK b, op, tr, se, pr : s = [open |-> op, trades |-> tr, prm |-> pr, seen |-> se]
                              /\ pr = [bp |-> Thresholds[1], bounds |-> b, lastCandle |-> 0, lastLow |-> 0]
                              /\ b \subseteq Confs(F, T) /\ se \subseteq Lows(F, T)
  BY DEF BtIn
<1>4. CASE ~BtAsks(cs, s, n)
  <2>1. new = [open |-> o, trades |-> tr, prm |-> pr, seen |-> se]
    BY <1>1, <1>3, <1>4
  <2>. HIDE DEF new
  <2>2. new.open = o /\ new.trades = tr /\ new.prm = pr /\ new.seen = se
    BY <2>1
  <2>3. new.prm.bounds = b
    BY <1>3, <2>2
  <2>. QED BY <1>3, <2>1, <2>2, <2>3 DEF BtIn, new
<1>5. CASE BtAsks(cs, s, n) /\ ~BtEnters(cs, u, s, n)
  <2>0. new = [s EXCEPT !.open = o, !.seen = @ \cup {d.low}]
    BY <1>1, <1>5
  <2>. HIDE DEF new
  <2>1. new = [open |-> o, trades |-> tr, prm |-> pr, seen |-> se \cup {d.low}]
    BY <1>3, <2>0
  <2>. HIDE DEF new
  <2>2. new.open = o /\ new.trades = tr /\ new.prm = pr /\ new.seen = se \cup {d.low}
    BY <2>1
  <2>3. new.prm.bounds = b
    BY <1>3, <2>2
  <2>. QED BY <1>2, <1>3, <1>5, <2>1, <2>2, <2>3 DEF BtIn, new
<1>6. CASE BtAsks(cs, s, n) /\ BtEnters(cs, u, s, n)
  <2>0. PICK op2, tr2, prm2 : op2 = o \cup {BtTrade(cs, s, n)} /\ tr2 = Append(s.trades, BtTrade(cs, s, n))
                              /\ prm2 = RecordEntryCycle(s.prm, d)
    OBVIOUS
  <2>5. new = [open |-> op2, trades |-> tr2, prm |-> prm2, seen |-> s.seen \cup {d.low}]
    BY <1>1, <1>6, <2>0
  <2>6. s.seen = se /\ s.prm = pr
    BY <1>3
  <2>1. new = [open |-> op2, trades |-> tr2, prm |-> prm2, seen |-> se \cup {d.low}]
    BY <2>5, <2>6
  <2>2. prm2 = [bp |-> Thresholds[1], bounds |-> b \cup {d.conf}, lastCandle |-> 0, lastLow |-> 0]
    <3>1. prm2 = [pr EXCEPT !.bounds = @ \cup {d.conf}]
      BY <2>0, <2>6 DEF RecordEntryCycle
    <3>. QED BY <1>3, <3>1
  <2>. HIDE DEF new
  <2>3. new.open = op2 /\ new.trades = tr2 /\ new.prm = prm2 /\ new.seen = se \cup {d.low}
    BY <2>1
  <2>4. new.prm.bounds = b \cup {d.conf}
    BY <2>2, <2>3
  <2>. QED BY <1>2, <1>3, <1>6, <2>1, <2>2, <2>3, <2>4 DEF BtIn, new
<1>. QED BY <1>4, <1>5, <1>6

\* They grow with the pullbacks and the time.
LEMMA ConfsGrow ==
    ASSUME NEW F \in Seq(Pull), NEW G \in Seq(Pull), IsPrefix(F, G), NEW T \in Int, NEW U \in Int, T <= U
    PROVE  Confs(F, T) \subseteq Confs(G, U) /\ Lows(F, T) \subseteq Lows(G, U)
<1>. DEFINE A == {k \in 1..Len(F) : F[k].conf <= T}
            B == {k \in 1..Len(G) : G[k].conf <= U}
<1>1. Len(F) \in Nat /\ Len(G) \in Nat /\ Len(F) <= Len(G)
  BY LenProperties DEF IsPrefix
<1>2. \A j \in 1..Len(F) : F[j] = G[j] /\ j \in 1..Len(G) /\ F[j].conf \in Nat
  <2>1. \A j \in 1..Len(F) : F[j] \in Pull
    BY ElementOfSeq
  <2>2. \A j \in 1..Len(F) : F[j].conf \in Nat
    BY <2>1 DEF Pull
  <2>3. \A j \in 1..Len(F) : F[j] = G[j]
    BY PrefixTells
  <2>. QED BY <1>1, <2>2, <2>3
<1>3. ASSUME NEW j \in A
      PROVE  j \in B /\ F[j] = G[j]
  <2>1. F[j] = G[j] /\ j \in 1..Len(G) /\ F[j].conf \in Nat /\ F[j].conf <= T
    BY <1>2
  <2>2. PICK x \in Nat : x = F[j].conf /\ x = G[j].conf
    BY <2>1
  <2>3. x <= U
    BY <2>1, <2>2
  <2>. QED BY <2>1, <2>2, <2>3
<1>4. Confs(F, T) = {F[j].conf : j \in A} /\ Lows(F, T) = {F[j].lowTime : j \in A}
      /\ Confs(G, U) = {G[j].conf : j \in B} /\ Lows(G, U) = {G[j].lowTime : j \in B}
  BY DEF Confs, Lows
<1>. HIDE DEF A, B
<1>. QED BY <1>3, <1>4

\* What it remembers it remembers later, when there is more.
LEMMA BtInLater ==
    ASSUME NEW s, NEW F \in Seq(Pull), NEW G \in Seq(Pull), IsPrefix(F, G), NEW T \in Int, NEW U \in Int, T <= U,
           BtIn(s, F, T)
    PROVE  BtIn(s, G, U)
<1>1. Confs(F, T) \subseteq Confs(G, U) /\ Lows(F, T) \subseteq Lows(G, U)
  BY ConfsGrow
<1>. QED BY <1>1 DEF BtIn

\* The candle at hand, and the backtest before and after its decision.
LastOne == candles[Len(candles)]

Before == Bt(candles)[Len(candles) - 1]

After == Bt(candles)[Len(candles)]

\* What the last candle leaves open, and what the backtest decides.
Left == StillOpen(Before.open, LastOne)

Offline == BtDecision(candles, Before, Len(candles))

BtInv ==
  /\ Len(candles) >= 2
  /\ Len(candles) = 2 => Found(candles) = << >>
  /\ BtIn(After, Found(candles), LastOne.time)
  /\ BtIn(Before, Found(candles), LastOne.time - Bar)

\* The day in numbers.
LEMMA DayFacts ==
    ASSUME Day
    PROVE  /\ IsDay(candles) /\ candles \in Seq(Candle)
           /\ Len(candles) \in Nat /\ Len(candles) >= 1 /\ Len(candles) <= MaxCandles /\ MaxCandles \in Nat
           /\ Len(candles) \in 1..Len(candles) /\ LastOne \in Candle
           /\ LastOne.time = 4 * Len(candles) /\ LastOne.time \in Nat /\ LastOne.time > 0
           /\ CloseTime(LastOne) = 4 * Len(candles) + 4 /\ Now = 4 * Len(candles) + 5
           /\ LastClose = LastOne.close
<1>. DEFINE n == Len(candles)
<1>1. /\ candles \in Seq(Candle) /\ n \in Nat /\ n >= 1 /\ n <= MaxCandles /\ MaxCandles \in Nat
      /\ \A i \in 1..n : candles[i].time = Bar * i
  BY LenProperties, LiveAssumption DEF Day
<1>2. n \in 1..n
  BY <1>1
<1>3. candles[n] \in Candle /\ candles[n].time = Bar * n
  BY <1>1, <1>2, ElementOfSeq
<1>4. LastOne.time = 4 * n /\ LastOne \in Candle
  BY <1>3 DEF LastOne, Bar
<1>5. CloseTime(LastOne) = 4 * n + 4 /\ Now = 4 * n + 5
  BY <1>1, <1>4 DEF CloseTime, Now, Bar
<1>6. LastClose = LastOne.close
  BY DEF LastClose, LastOne
<1>. QED BY <1>1, <1>2, <1>4, <1>5, <1>6, DayIsDay

LEMMA AfterIs ==
    ASSUME Day
    PROVE  /\ After = BacktestStep(candles, UnlockedAt(candles), Before, Len(candles))
           /\ BtOpen(candles, Before, Len(candles)) = Left
<1>1. Len(candles) \in Nat /\ Len(candles) \in 1..Len(candles)
  BY DayFacts
<1>2. \A i \in 1..Len(candles) : Bt(candles)[i] = BacktestStep(candles, UnlockedAt(candles), Bt(candles)[i - 1], i)
  BY <1>1, BtAre
<1>3. After = BacktestStep(candles, UnlockedAt(candles), Before, Len(candles))
  BY <1>1, <1>2 DEF After, Before
<1>. QED BY <1>3 DEF BtOpen, Left, LastOne

\* Before the first pullback the backtest does nothing.
LEMMA BtWaits ==
    ASSUME OfflineDay, NEW cs, IsDay(cs), Len(cs) <= MaxCandles, Found(cs) = << >>
    PROVE  \A i \in 0..Len(cs) : Bt(cs)[i] = BtStart
<1>. DEFINE n == Len(cs)
            b == Bt(cs)
            u == UnlockedAt(cs)
            P == {i \in 0..n : b[i] = BtStart}
<1>0. n \in Nat
  BY DayLength
<1>1. b[0] = BtStart /\ \A i \in 1..n : b[i] = BacktestStep(cs, u, b[i - 1], i)
  BY <1>0, BtAre
<1>2. ASSUME NEW i \in 1..n
      PROVE  BacktestStep(cs, u, BtStart, i) = BtStart
  <2>1. BtOpen(cs, BtStart, i) = {}
    BY DEF BtOpen, BtStart, StillOpen
  <2>2. BtDecision(cs, BtStart, i) = NoEntry
    <3>1. PICK w : w = Upto(cs, i)
      OBVIOUS
    <3>2. IsDay(w)
      BY <3>1, UptoIsDay
    <3>3. Found(w) = << >>
      BY <3>1, NoneBefore, OfflineFacts
    <3>4. PICK d : d = BtDecision(cs, BtStart, i)
      OBVIOUS
    <3>5. PICK prm : prm = BtStart.prm
      OBVIOUS
    <3>6. d = EntryOf(CurrentPullback(w, prm), w, prm, BtOpen(cs, BtStart, i), cs[i].close)
      BY <3>1, <3>4, <3>5, BtDecides
    <3>7. prm.bp = Thresholds[1] /\ prm.bounds \subseteq Bounds(w)
      BY <3>5 DEF BtStart, CleanParams
    <3>8. d # NoEntry => Len(Found(w)) \in 1..Len(Found(w))
      BY <3>2, <3>6, <3>7, BuysNewest, OfflineFacts
    <3>9. Len(Found(w)) = 0
      BY <3>3
    <3>. QED BY <3>4, <3>8, <3>9
  <2>3. ~BtAsks(cs, BtStart, i)
    BY <2>2 DEF BtAsks
  <2>4. BacktestStep(cs, u, BtStart, i) = [BtStart EXCEPT !.open = BtOpen(cs, BtStart, i)]
    BY <2>3, BtStepIs
  <2>5. [BtStart EXCEPT !.open = {}] = BtStart
    <3>1. PICK o, tr, prm, se : o = {} /\ BtStart = [open |-> o, trades |-> tr, prm |-> prm, seen |-> se]
      BY DEF BtStart
    <3>2. PICK s : s = [BtStart EXCEPT !.open = o]
      OBVIOUS
    <3>3. s = [open |-> o, trades |-> tr, prm |-> prm, seen |-> se]
      BY <3>1, <3>2
    <3>. QED BY <3>1, <3>2, <3>3
  <2>. QED BY <2>1, <2>4, <2>5
<1>. HIDE DEF n, b, u
<1>3. 0 \in P
  BY <1>0, <1>1
<1>4. ASSUME NEW i \in 1..n, i - 1 \in P
      PROVE  i \in P
  <2>1. b[i - 1] = BtStart /\ i \in 0..n
    BY <1>0, <1>4
  <2>2. b[i] = BtStart
    BY <1>1, <1>2, <2>1
  <2>. QED BY <2>1, <2>2
<1>. HIDE DEF P
<1>5. \A i \in 0..n : i \in P
  BY <1>0, <1>3, <1>4, StepInduction
<1>. QED BY <1>5 DEF P, n, b

\* What it remembers in the beginning, which is nothing,
LEMMA BtBegins ==
    ASSUME OfflineDay, Init
    PROVE  BtInv /\ Before = BtStart /\ After = BtStart
<1>1. Day
  BY DayStarts
<1>2. /\ IsDay(candles) /\ Len(candles) \in Nat /\ Len(candles) <= MaxCandles /\ Len(candles) >= 1
  BY <1>1, DayFacts
<1>3. Len(candles) >= 2 /\ Found(candles) = << >>
  BY DEF Init, OfflineDay
<1>4. \A i \in 0..Len(candles) : Bt(candles)[i] = BtStart
  BY <1>2, <1>3, BtWaits
<1>5. Before = BtStart /\ After = BtStart
  BY <1>2, <1>4 DEF Before, After
<1>6. \A F, T : BtIn(BtStart, F, T)
  BY DEF BtIn, BtStart, CleanParams
<1>. QED BY <1>3, <1>5, <1>6 DEF BtInv

\* and with every candle.
LEMMA BtGoesOn ==
    ASSUME OfflineDay, Day, BtInv, CloseCandle
    PROVE  BtInv' /\ Before' = After
<1>. DEFINE n == Len(candles)
<1>1. Day' /\ Len(candles') = n + 1 /\ Part(candles, candles', 0) /\ n \in Nat /\ n >= 2
  BY CandleCloses, DayFacts DEF BtInv
<1>2. Before' = After
  <2>1. n \in 0..n
    BY <1>1
  <2>2. Bt(candles')[n] = Bt(candles)[n]
    BY <2>1, BtStays
  <2>3. Len(candles') - 1 = n
    BY <1>1
  <2>. QED BY <2>2, <2>3 DEF Before, After
<1>3. /\ IsDay(candles') /\ Len(candles') <= MaxCandles
      /\ candles'[Len(candles')].time = 4 * (n + 1) /\ LastOne.time = 4 * n
  <2>1. (IsDay(candles) /\ Len(candles) <= MaxCandles /\ LastOne.time = 4 * Len(candles))
    BY DayFacts
  <2>2. IsDay(candles')
    BY <1>1 DEF Part
  <2>3. Len(candles') \in 1..Len(candles') /\ Len(candles') <= MaxCandles
    BY <1>1, LiveAssumption DEF Day
  <2>4. candles'[Len(candles')].time = Bar * Len(candles')
    BY <1>1, <2>3 DEF Day
  <2>. QED BY <1>1, <2>1, <2>2, <2>3, <2>4 DEF Bar
<1>. DEFINE T == 4 * n
            U == 4 * (n + 1)
            F == Found(candles)
            G == Found(candles')
<1>4. F \in Seq(Pull) /\ G \in Seq(Pull) /\ IsPrefix(F, G)
  <2>1. IsDay(candles)
    BY DayFacts
  <2>2. F \in Seq(Pull) /\ G \in Seq(Pull)
    BY <1>3, <2>1, ConfirmedFacts DEF Found
  <2>3. IsPrefix(F, G)
    BY <1>1, OneMoreCandle, OfflineFacts DEF Found
  <2>. QED BY <2>2, <2>3
<1>5. BtIn(After, F, T)
  BY <1>3 DEF BtInv
<1>6. T \in Int /\ U \in Int /\ T <= U /\ U - Bar = T
  BY <1>1 DEF Bar
<1>. HIDE DEF F, G, T, U
<1>7. BtIn(After, G, T) /\ BtIn(After, G, U)
  <2>1. T <= T
    BY <1>6
  <2>. QED BY <1>4, <1>5, <1>6, <2>1, BtInLater
<1>8. PICK s : s = Before' /\ s = After
  BY <1>2
<1>9. BtIn(BacktestStep(candles', UnlockedAt(candles'), s, Len(candles')), G, U)
  <2>1. U = candles'[Len(candles')].time
    BY <1>3 DEF U
  <2>2. BtIn(s, G, U)
    BY <1>7, <1>8
  <2>. QED BY <1>3, <2>1, <2>2, BtInStep DEF G
<1>10. After' = BacktestStep(candles', UnlockedAt(candles'), s, Len(candles'))
  <2>1. Len(candles') \in Nat /\ Len(candles') \in 1..Len(candles')
    BY <1>1
  <2>2. \A i \in 1..Len(candles') : Bt(candles')[i] = BacktestStep(candles', UnlockedAt(candles'), Bt(candles')[i - 1], i)
    BY <2>1, BtAre
  <2>. QED BY <1>8, <2>1, <2>2 DEF After, Before
<1>11. LastOne' = candles'[Len(candles')] /\ LastOne'.time = U /\ Found(candles') = G
  BY <1>3 DEF LastOne, U, G
<1>12. BtIn(After', G, U) /\ BtIn(Before', G, U - Bar)
  BY <1>6, <1>7, <1>8, <1>9, <1>10
<1>13. Len(candles') >= 2 /\ Len(candles') # 2
  BY <1>1
<1>. QED BY <1>2, <1>11, <1>12, <1>13 DEF BtInv

\* A setup, whatever has been signalled before, and the entry for it.
Setup(p, cs, known, price) ==
  /\ ~(Entry.onePerSymbol /\ known # {})
  /\ ConfirmationCandles(cs)
  /\ p # NoPullback
  /\ Entry.requireZone => MatchingZone(p, CloseTime(cs[Len(cs)]), price) # NoZone
  /\ SpacingAllows(known, price)

SetupEntry(p, cs, price) ==
  [conf |-> cs[Len(cs)].time, low |-> p.lowTime, peak |-> p.peak,
   zone |-> MatchingZone(p, CloseTime(cs[Len(cs)]), price).id,
   mult |-> Multiplier(price, MatchingZone(p, CloseTime(cs[Len(cs)]), price))]

LEMMA EntryIs ==
    ASSUME NEW p, NEW cs, NEW prm, NEW known, NEW price
    PROVE  EntryOf(p, cs, prm, known, price) =
             IF Setup(p, cs, known, price) /\ prm.lastCandle # cs[Len(cs)].time /\ prm.lastLow # p.lowTime
             THEN SetupEntry(p, cs, price) ELSE NoEntry
BY DEF EntryOf, Setup, SetupEntry

\* Parameters without marks, with the boundaries of earlier candles, decide with
\* the last pullback of the day.
LEMMA CleanIs ==
    ASSUME WholeDay, Detector.maxCount >= 1, Day, NEW F, F = Found(candles), NEW T, T = LastOne.time,
           NEW b, b \subseteq Confs(F, T - Bar),
           NEW prm, prm = [bp |-> Thresholds[1], bounds |-> b, lastCandle |-> 0, lastLow |-> 0],
           NEW known, NEW p, p = Newest(F, T)
    PROVE  /\ EntryOf(CurrentPullback(candles, prm), candles, prm, known, LastClose)
                = IF Setup(p, candles, known, LastClose) THEN SetupEntry(p, candles, LastClose) ELSE NoEntry
           /\ p # NoPullback => Len(F) \in 1..Len(F) /\ p = F[Len(F)] /\ p.conf = T
<1>1. IsDay(candles) /\ T \in Nat /\ T > 0 /\ T = candles[Len(candles)].time
  BY DayFacts DEF LastOne
<1>2. /\ F \in Seq(Pull) /\ Len(F) \in Nat
      /\ \A j \in 1..Len(F) : F[j] \in Pull /\ F[j].conf \in Nat /\ F[j].lowTime \in Nat \ {0}
  <2>1. F \in Seq(Pull) /\ Len(F) \in Nat /\ \A j \in 1..Len(F) : F[j] \in Pull
    BY FoundFacts
  <2>2. \A q \in Pull : q.conf \in Nat /\ q.lowTime \in Nat \ {0}
    BY DEF Pull
  <2>. QED BY <2>1, <2>2
<1>3. T \notin b
  <2>1. \A x \in Confs(F, T - Bar) : x <= T - 4
    BY DEF Confs, Bar
  <2>2. T \notin Confs(F, T - Bar)
    BY <1>1, <2>1
  <2>. QED BY <2>2
<1>4. p # NoPullback => Len(F) \in 1..Len(F) /\ p = F[Len(F)] /\ p.conf = T /\ p.lowTime # 0
  BY <1>2 DEF Newest
<1>5. CurrentPullback(candles, prm) = p
  <2>1. PICK th : th = EntryThresholds(prm.bp)
    OBVIOUS
  <2>2. F = Confirmed(candles, th)
    BY <2>1 DEF Found
  <2>3. prm.bounds \subseteq ConfTimes(candles, th)
    BY <2>2 DEF Confs, ConfTimes
  <2>4. candles[Len(candles)].time \notin prm.bounds
    BY <1>1, <1>3
  <2>5. Detector.disallowSame /\ Detector.minBetween = 0 /\ Detector.maxCount >= 1
    BY DEF WholeDay
  <2>6. CurrentPullback(candles, prm) = Newest(F, candles[Len(candles)].time)
    BY <1>1, <2>1, <2>2, <2>3, <2>4, <2>5, CurrentIsNewest
  <2>. QED BY <1>1, <2>6
<1>6. Setup(p, candles, known, LastClose) => p # NoPullback
  BY DEF Setup
<1>7. EntryOf(p, candles, prm, known, LastClose) =
        IF Setup(p, candles, known, LastClose) /\ prm.lastCandle # candles[Len(candles)].time
           /\ prm.lastLow # p.lowTime
        THEN SetupEntry(p, candles, LastClose) ELSE NoEntry
  BY EntryIs
<1>8. prm.lastCandle = 0 /\ prm.lastLow = 0 /\ 0 # candles[Len(candles)].time
  BY <1>1
<1>. QED BY <1>4, <1>5, <1>6, <1>7, <1>8

\* The backtest decides with the last pullback of the day, and no mark speaks
\* against it.
LEMMA OfflineIs ==
    ASSUME OfflineDay, Day, BtInv, NEW p, p = Newest(Found(candles), LastOne.time)
    PROVE  /\ Offline = IF Setup(p, candles, Left, LastClose) THEN SetupEntry(p, candles, LastClose) ELSE NoEntry
           /\ p # NoPullback => /\ Len(Found(candles)) \in 1..Len(Found(candles))
                                /\ p = Found(candles)[Len(Found(candles))] /\ p.conf = LastOne.time
                                /\ p.lowTime \notin Before.seen
<1>. DEFINE F == Found(candles)
            T == LastOne.time
            n == Len(candles)
<1>1. IsDay(candles) /\ n \in 1..n /\ n <= MaxCandles /\ LastClose = candles[n].close /\ T \in Nat
  BY DayFacts DEF LastOne
<1>2. PICK b, prm : /\ prm = Before.prm /\ prm = [bp |-> Thresholds[1], bounds |-> b, lastCandle |-> 0, lastLow |-> 0]
                    /\ b \subseteq Confs(F, T - Bar) /\ Before.seen \subseteq Lows(F, T - Bar)
  BY DEF BtInv, BtIn
<1>3. Offline = EntryOf(CurrentPullback(candles, prm), candles, prm, Left, LastClose)
  <2>1. Upto(candles, n) = candles
    BY <1>1, UptoAll
  <2>2. Offline = EntryOf(CurrentPullback(Upto(candles, n), Before.prm), Upto(candles, n), Before.prm,
                          BtOpen(candles, Before, n), candles[n].close)
    BY <1>1, BtDecides DEF Offline
  <2>3. BtOpen(candles, Before, n) = Left
    BY AfterIs
  <2>. QED BY <1>1, <1>2, <2>1, <2>2, <2>3
<1>. HIDE DEF F, T, n
<1>4. /\ EntryOf(CurrentPullback(candles, prm), candles, prm, Left, LastClose)
           = IF Setup(p, candles, Left, LastClose) THEN SetupEntry(p, candles, LastClose) ELSE NoEntry
      /\ p # NoPullback => Len(F) \in 1..Len(F) /\ p = F[Len(F)] /\ p.conf = T
  BY <1>2, CleanIs, OfflineFacts DEF F, T
<1>5. ASSUME p # NoPullback, p.lowTime \in Before.seen PROVE FALSE
  <2>1. Len(F) \in 1..Len(F) /\ p = F[Len(F)] /\ p.conf = T
    BY <1>4, <1>5
  <2>2. p.lowTime \in Lows(F, T - Bar)
    BY <1>2, <1>5
  <2>3. PICK j \in 1..Len(F) : F[j].lowTime = p.lowTime /\ F[j].conf <= T - 4
    BY <2>2 DEF Lows, Bar
  <2>4. j = Len(F)
    <3>1. Detector.disallowSame /\ F[j].lowTime = F[Len(F)].lowTime
      BY <2>1, <2>3, OfflineFacts
    <3>. QED BY <2>1, <3>1, LowsDiffer DEF F
  <2>. QED BY <1>1, <2>1, <2>3, <2>4
<1>. QED BY <1>3, <1>4, <1>5 DEF F, T

\* The signal of the last candle, and the marks and boundaries a run may have:
\* those of the signals.
HasConf(all, x) == \E i \in 1..Len(all) : all[i].conf = x

HasLow(all, x) == \E i \in 1..Len(all) : all[i].low = x

Marked(all, prm) ==
  /\ \A b \in prm.bounds : HasConf(all, b)
  /\ prm.lastCandle = 0 \/ HasConf(all, prm.lastCandle)
  /\ prm.lastLow = 0 \/ HasLow(all, prm.lastLow)

\* What a live run decides when it knows the same positions.
LiveDecision(prm) == ShouldBuy(Window300, prm, Left, LastClose)

LEMMA LiveIs ==
    ASSUME OfflineDay, Day, NEW prm
    PROVE  LiveDecision(prm) =
             LET p == CurrentPullback(candles, prm)
             IN IF Setup(p, candles, Left, LastClose) /\ prm.lastCandle # LastOne.time /\ prm.lastLow # p.lowTime
                THEN SetupEntry(p, candles, LastClose) ELSE NoEntry
<1>1. Window300 = candles
  BY WindowIsDay, OfflineFacts
<1>2. PICK p : p = CurrentPullback(candles, prm)
  OBVIOUS
<1>3. LiveDecision(prm) = EntryOf(p, candles, prm, Left, LastClose)
  BY <1>1, <1>2 DEF LiveDecision, ShouldBuy
<1>. QED BY <1>2, <1>3, EntryIs DEF LastOne

\* What a live run buys, the backtest buys: it does not know less.
LEMMA BuysAlike ==
    ASSUME OfflineDay, Day, BtInv, NEW prm \in ParamSet(candles), NEW d, d = LiveDecision(prm), d # NoEntry
    PROVE  /\ Offline = d /\ d.low \notin Before.seen /\ d.conf = LastOne.time /\ Len(candles) >= 3
           /\ Len(Found(candles)) \in 1..Len(Found(candles)) /\ d.conf = Found(candles)[Len(Found(candles))].conf
           /\ d.low = Found(candles)[Len(Found(candles))].lowTime
<1>. DEFINE F == Found(candles)
<1>1. PICK p : p = CurrentPullback(candles, prm)
  OBVIOUS
<1>2. Setup(p, candles, Left, LastClose) /\ d = SetupEntry(p, candles, LastClose)
  BY <1>1, LiveIs
<1>3. /\ Len(F) \in 1..Len(F) /\ p = F[Len(F)] /\ d.conf = LastOne.time /\ d.conf = F[Len(F)].conf
      /\ d.low = F[Len(F)].lowTime
  <2>1. IsDay(candles)
    BY DayFacts
  <2>2. prm.bp = Thresholds[1] /\ prm.bounds \subseteq Bounds(candles)
    BY DEF ParamSet
  <2>3. d = EntryOf(CurrentPullback(candles, prm), candles, prm, Left, LastClose)
    <3>1. Window300 = candles
      BY WindowIsDay, OfflineFacts
    <3>. QED BY <3>1 DEF LiveDecision, ShouldBuy
  <2>. QED BY <1>1, <2>1, <2>2, <2>3, BuysNewest, OfflineFacts DEF LastOne
<1>4. Len(F) \in Nat /\ Len(F) > 0
  BY <1>3, FoundFacts
<1>. HIDE DEF F
<1>5. p = Newest(F, LastOne.time)
  BY <1>3, <1>4 DEF Newest
<1>6. p # NoPullback
  BY <1>2 DEF Setup
<1>7. Offline = d /\ p.lowTime \notin Before.seen
  BY <1>2, <1>5, <1>6, OfflineIs DEF F
<1>8. Len(candles) >= 3
  <2>1. Len(candles) >= 2 /\ (Len(candles) = 2 => F = << >>) /\ Len(candles) \in Nat
    BY DayFacts DEF BtInv, F
  <2>2. F # << >>
    BY <1>4
  <2>3. PICK k \in Nat : k = Len(candles)
    BY <2>1
  <2>4. k >= 2 /\ k # 2
    BY <2>1, <2>2, <2>3
  <2>. QED BY <2>3, <2>4
<1>. QED BY <1>3, <1>7, <1>8 DEF F

\* What a live run does not buy, although nobody has signalled it, the backtest
\* does not buy.
LEMMA WaitsAlike ==
    ASSUME OfflineDay, Day, BtInv, SignalsOfDay, NEW prm \in ParamSet(candles), Marked(signals, prm),
           ~HasConf(signals, LastOne.time), LiveDecision(prm) = NoEntry
    PROVE  Offline = NoEntry
<1>. DEFINE F == Found(candles)
            T == LastOne.time
<1>0. IsDay(candles) /\ T \in Nat /\ T > 0 /\ T = candles[Len(candles)].time
  BY DayFacts DEF LastOne
<1>1. PICK p : p = Newest(F, T)
  OBVIOUS
<1>2. CurrentPullback(candles, prm) = p
  <2>1. PICK th : th = EntryThresholds(prm.bp)
    OBVIOUS
  <2>2. F = Confirmed(candles, th) /\ prm.bounds \subseteq ConfTimes(candles, th)
    BY <2>1 DEF Found, ParamSet, Bounds
  <2>3. candles[Len(candles)].time \notin prm.bounds
    BY <1>0 DEF Marked
  <2>4. Detector.disallowSame /\ Detector.minBetween = 0 /\ Detector.maxCount >= 1
    BY OfflineFacts
  <2>5. CurrentPullback(candles, prm) = Newest(F, candles[Len(candles)].time)
    <3>. HIDE DEF F
    <3>. QED BY <1>0, <2>1, <2>2, <2>3, <2>4, CurrentIsNewest
  <2>. QED BY <1>0, <1>1, <2>5
<1>3. SUFFICES ASSUME Setup(p, candles, Left, LastClose) PROVE FALSE
  BY <1>1, OfflineIs
<1>4. p # NoPullback
  BY <1>3 DEF Setup
<1>5. Len(F) \in 1..Len(F) /\ p = F[Len(F)] /\ p.conf = T
  BY <1>1, <1>4, OfflineIs
<1>. HIDE DEF F, T
<1>6. prm.lastCandle # T
  BY <1>0 DEF Marked, T
<1>7. prm.lastLow # p.lowTime
  <2>. SUFFICES ASSUME prm.lastLow = p.lowTime PROVE FALSE
    OBVIOUS
  <2>1. p.lowTime \in Nat \ {0}
    <3>1. p \in Pull
      BY <1>5, FoundFacts DEF F
    <3>. QED BY <3>1 DEF Pull
  <2>2. PICK i \in 1..Len(signals) : signals[i].low = p.lowTime
    BY <2>1 DEF Marked, HasLow
  <2>3. PICK j \in 1..Len(F) : F[j].conf = signals[i].conf /\ F[j].lowTime = signals[i].low
    BY DEF SignalsOfDay, IsOfDay, F
  <2>4. j = Len(F)
    <3>1. Detector.disallowSame /\ F[j].lowTime = F[Len(F)].lowTime
      BY <1>5, <2>2, <2>3, OfflineFacts
    <3>. QED BY <1>5, <3>1, LowsDiffer DEF F
  <2>5. signals[i].conf = T
    BY <1>5, <2>3, <2>4
  <2>. QED BY <2>5 DEF HasConf, T
<1>8. LiveDecision(prm) = SetupEntry(p, candles, LastClose)
  BY <1>2, <1>3, <1>6, <1>7, LiveIs DEF T
<1>9. SetupEntry(p, candles, LastClose).conf = T
  BY <1>0 DEF SetupEntry
<1>10. NoEntry.conf = 0
  BY DEF NoEntry
<1>. QED BY <1>0, <1>8, <1>9, <1>10

\* The zone with the lowest number is one of them.
LEMMA FirstIsOne ==
    ASSUME NEW is \in SUBSET (1..Len(Zones)), is # {}
    PROVE  \E i \in is : FirstOf(is) = Zones[i]
<1>1. PICK z \in Int : z = Len(Zones)
  BY ZonesAssumption, LenProperties
<1>2. IsFiniteSet(1..z) /\ is \subseteq 1..z
  BY <1>1, FS_Interval
<1>3. IsFiniteSet(is) /\ is \in SUBSET Int
  <2>1. IsFiniteSet(is)
    BY <1>2, FS_Subset
  <2>2. is \subseteq Int
    BY <1>2
  <2>. QED BY <2>1, <2>2
<1>4. Min(is) \in is
  BY <1>3, MinIsLeast
<1>. QED BY <1>4 DEF FirstOf

\* The zone of a setup holds the moment after the close, too.
LEMMA ZoneStillHolds ==
    ASSUME OfflineDay, Day, NEW p, NEW known, Setup(p, candles, known, LastClose)
    PROVE  ZoneHolds(SetupEntry(p, candles, LastClose), Now, LastClose)
<1>. DEFINE closed == CloseTime(candles[Len(candles)])
            times == {i \in PullbackZones(p) : InTime(closed, Zones[i])}
            both == {i \in times : InPrice(LastClose, Zones[i])}
            zone == MatchingZone(p, closed, LastClose)
<1>1. SUFFICES ASSUME Entry.requireZone
               PROVE  \E i \in DOMAIN Zones : /\ Zones[i].id = zone.id /\ InTime(Now, Zones[i])
                                              /\ InPrice(LastClose, Zones[i]) \/ Entry.priceOutside
  <2>. HIDE DEF zone
  <2>1. SetupEntry(p, candles, LastClose).zone = zone.id
    BY DEF SetupEntry, zone
  <2>. QED BY <2>1 DEF ZoneHolds
<1>2. DOMAIN Zones = 1..Len(Zones) /\ Len(Zones) \in Nat
  BY ZonesAssumption, LenProperties
<1>3. times \in SUBSET (1..Len(Zones)) /\ both \subseteq times
  BY <1>2 DEF PullbackZones
<1>4. ConfirmedZone(p, closed, LastClose) =
        IF both # {} THEN FirstOf(both) ELSE IF Entry.priceOutside THEN FirstOf(times) ELSE NoZone
  BY DEF ConfirmedZone
<1>5. zone = ConfirmedZone(p, closed, LastClose) /\ zone # NoZone
  BY <1>1 DEF MatchingZone, Setup
<1>6. ASSUME NEW i \in times
      PROVE  InTime(Now, Zones[i])
  <2>1. Zones[i].time1 <= closed /\ closed <= Zones[i].time2
    BY <1>6 DEF InTime
  <2>2. i \in 1..Len(Zones)
    BY <1>3, <1>6
  <2>3. Zones[i] \in [id : Nat, time1 : Nat, time2 : Nat, top : Int, mult : Nat] /\ Zones[i].time2 % Bar # 0
    BY <2>2, ZonesAssumption, ElementOfSeq DEF OfflineDay
  <2>4. PICK a, b \in Nat : a = Zones[i].time1 /\ b = Zones[i].time2 /\ b % 4 # 0
    BY <2>3 DEF Bar
  <2>5. PICK n \in Nat : n = Len(candles) /\ closed = 4 * n + 4 /\ Now = 4 * n + 5
    BY DayFacts DEF LastOne
  <2>6. a <= 4 * n + 4 /\ 4 * n + 4 <= b
    BY <2>1, <2>4, <2>5
  <2>7. b # 4 * n + 4
    <3>1. (4 * (n + 1)) % 4 = 0 /\ 4 * (n + 1) = 4 * n + 4
      OBVIOUS
    <3>. QED BY <2>4, <3>1
  <2>. QED BY <2>4, <2>5, <2>6, <2>7 DEF InTime
<1>7. CASE both # {}
  <2>1. both \in SUBSET (1..Len(Zones))
    BY <1>3
  <2>2. PICK i \in both : FirstOf(both) = Zones[i]
    <3>. HIDE DEF both
    <3>. QED BY <1>7, <2>1, FirstIsOne
  <2>3. zone = Zones[i] /\ i \in times /\ InPrice(LastClose, Zones[i]) /\ i \in DOMAIN Zones
    BY <1>2, <1>3, <1>4, <1>5, <1>7, <2>2
  <2>. HIDE DEF zone, times, both
  <2>. QED BY <1>6, <2>3
<1>8. CASE both = {} /\ Entry.priceOutside
  <2>1. zone = FirstOf(times)
    BY <1>4, <1>5, <1>8
  <2>. HIDE DEF zone, times
  <2>2. times # {}
    BY <1>5, <2>1 DEF FirstOf
  <2>3. PICK i \in times : zone = Zones[i]
    BY <1>3, <2>1, <2>2, FirstIsOne
  <2>. QED BY <1>2, <1>3, <1>6, <1>8, <2>3
<1>9. CASE both = {} /\ ~Entry.priceOutside
  BY <1>4, <1>5, <1>9
<1>. QED BY <1>7, <1>8, <1>9

\* An unlocked market is one in which the backtest may enter,
LEMMA UnlockedAsks ==
    ASSUME OfflineDay, Day
    PROVE  AssetUnlocked(candles, "NONE", Now) <=>
             /\ SessionAllows(CloseTime(candles[Len(candles)])) /\ ~NewsBlocked(CloseTime(candles[Len(candles)]) + 1)
             /\ UnlockedAt(candles) <= CloseTime(candles[Len(candles)]) + 1
<1>. DEFINE closed == CloseTime(candles[Len(candles)])
<1>1. PICK n \in Nat : n = Len(candles) /\ closed = 4 * n + 4 /\ Now = 4 * n + 5
  BY DayFacts DEF LastOne
<1>2. AssetUnlocked(candles, "NONE", Now) <=> InSession(Now) /\ ~NewsBlocked(Now) /\ Unlocked(candles, Now)
  BY DEF AssetUnlocked
<1>3. InSession(Now) <=> SessionAllows(closed)
  <2>1. PICK s, e \in Nat : s = Session.start /\ e = Session.end
    BY SessionAssumption
  <2>2. s % 4 = 0 /\ e % 4 # 0 /\ e % 4 # 1
    BY <2>1, OfflineFacts DEF OfflineDay, Aligned, Bar
  <2>3. PICK x, y \in Int : s = 4 * x /\ y \in 0..3 /\ e % 4 = y /\ e = 4 * (e \div 4) + y
    BY <2>2
  <2>4. PICK z \in Int : e = 4 * z + 2 \/ e = 4 * z + 3
    BY <2>2, <2>3
  <2>5. (s <= 4 * n + 5 /\ 4 * n + 5 < e) <=> (s <= 4 * n + 4 /\ 4 * n + 4 <= e)
    BY <2>3, <2>4
  <2>6. InSession(Now) <=> s <= 4 * n + 5 /\ 4 * n + 5 < e
    BY <1>1, <2>1 DEF InSession
  <2>7. SessionAllows(closed) <=> s <= 4 * n + 4 /\ 4 * n + 4 <= e
    BY <1>1, <2>1 DEF SessionAllows
  <2>. QED BY <2>5, <2>6, <2>7
<1>4. Now = closed + 1
  BY <1>1
<1>5. InSession(Now) => (Unlocked(candles, Now) <=> UnlockedAt(candles) <= Now)
  <2>. SUFFICES ASSUME InSession(Now) PROVE Unlocked(candles, Now) <=> UnlockedAt(candles) <= Now
    OBVIOUS
  <2>1. Session.end >= 1
    BY <1>1, SessionAssumption DEF InSession
  <2>2. Now \in Int /\ closed \in Int /\ Now <= closed + 1
    BY <1>1
  <2>. HIDE DEF Now
  <2>. QED BY <2>1, <2>2, UnlockedBy
<1>. QED BY <1>2, <1>3, <1>4, <1>5

\* The step of the backtest in which nothing is bought, and the one in which
\* something is.
LEMMA BtQuiet ==
    ASSUME OfflineDay, Day, BtInv,
           \/ Offline = NoEntry
           \/ ~AssetUnlocked(candles, "NONE", Now)
           \/ ~(Fitting(Offline.mult, Used(Left)) > 0)
    PROVE  After.open = Left /\ After.trades = Before.trades
<1>. DEFINE n == Len(candles)
            u == UnlockedAt(candles)
            asks == BtAsks(candles, Before, n)
            enters == BtEnters(candles, u, Before, n)
<1>1. ~(asks /\ enters)
  <2>1. CASE Offline = NoEntry
    BY <2>1 DEF BtAsks, Offline
  <2>2. CASE ~AssetUnlocked(candles, "NONE", Now)
    BY <2>2, UnlockedAsks DEF BtAsks, BtEnters
  <2>3. CASE ~(Fitting(Offline.mult, Used(Left)) > 0)
    <3>1. BtSize(candles, Before, n) = Fitting(Offline.mult, Used(Left))
      <4>1. Entry.degrade /\ BtOpen(candles, Before, n) = Left
        BY AfterIs DEF OfflineDay
      <4>. QED BY <4>1 DEF BtSize, SizeEntry, Offline
    <3>. QED BY <2>3, <3>1 DEF BtEnters
  <2>. QED BY <2>1, <2>2, <2>3
<1>2. After = IF ~asks THEN [Before EXCEPT !.open = BtOpen(candles, Before, n)]
              ELSE IF enters
              THEN [open   |-> BtOpen(candles, Before, n) \cup {BtTrade(candles, Before, n)},
                    trades |-> Append(Before.trades, BtTrade(candles, Before, n)),
                    prm    |-> RecordEntryCycle(Before.prm, Offline),
                    seen   |-> Before.seen \cup {Offline.low}]
              ELSE [Before EXCEPT !.open = BtOpen(candles, Before, n), !.seen = @ \cup {Offline.low}]
  BY AfterIs, BtStepIs DEF Offline
<1>. HIDE DEF asks, enters
<1>3. BtOpen(candles, Before, n) = Left
  BY AfterIs
<1>4. PICK op, tr, pr, se : Before = [open |-> op, trades |-> tr, prm |-> pr, seen |-> se]
  BY DEF BtInv, BtIn
<1>5. CASE ~asks
  <2>1. After = [Before EXCEPT !.open = Left]
    BY <1>2, <1>3, <1>5
  <2>. QED BY <1>4, <2>1
<1>6. CASE asks /\ ~enters
  <2>1. After = [Before EXCEPT !.open = Left, !.seen = @ \cup {Offline.low}]
    BY <1>2, <1>3, <1>6
  <2>. QED BY <1>4, <2>1
<1>. QED BY <1>1, <1>5, <1>6

\* The position for a decision of this candle.
PositionOf(d, size) ==
  [conf |-> d.conf, low |-> d.low, peak |-> d.peak, mult |-> size,
   price |-> LastClose, tp |-> TakeProfit(LastClose)]

LEMMA BtBuys ==
    ASSUME OfflineDay, Day, BtInv, NEW prm \in ParamSet(candles), NEW d, d = LiveDecision(prm), d # NoEntry,
           AssetUnlocked(candles, "NONE", Now), NEW size, size = Fitting(d.mult, Used(Left)), size > 0
    PROVE  /\ After.open = Left \cup {PositionOf(d, size)}
           /\ After.trades = Append(Before.trades, PositionOf(d, size))
<1>. DEFINE n == Len(candles)
            u == UnlockedAt(candles)
            closed == CloseTime(candles[n])
            x == PositionOf(d, size)
<1>1. Offline = d /\ d.low \notin Before.seen /\ n >= 3
  BY BuysAlike
<1>2. SessionAllows(closed) /\ ~NewsBlocked(closed + 1) /\ u <= closed + 1
  BY UnlockedAsks
<1>3. BtAsks(candles, Before, n)
  BY <1>1, <1>2 DEF BtAsks, Offline
<1>4. BtOpen(candles, Before, n) = Left
  BY AfterIs
<1>5. BtSize(candles, Before, n) = size
  <2>1. Entry.degrade
    BY DEF OfflineDay
  <2>. QED BY <1>1, <1>4, <2>1 DEF BtSize, SizeEntry, Offline
<1>6. Now = closed + 1 /\ LastClose = candles[n].close
  BY DayFacts DEF LastOne
<1>7. ZoneHolds(d, Now, LastClose)
  <2>1. PICK p : p = CurrentPullback(candles, prm)
    OBVIOUS
  <2>2. Setup(p, candles, Left, LastClose) /\ d = SetupEntry(p, candles, LastClose)
    BY <2>1, LiveIs
  <2>. QED BY <2>2, ZoneStillHolds
<1>8. BtEnters(candles, u, Before, n)
  <2>1. ZoneHolds(d, closed + 1, candles[n].close)
    BY <1>6, <1>7
  <2>. QED BY <1>1, <1>2, <1>5, <2>1 DEF BtEnters, Offline
<1>9. BtTrade(candles, Before, n) = x
  BY <1>1, <1>5, <1>6 DEF BtTrade, PositionOf, Offline
<1>10. After = [open   |-> BtOpen(candles, Before, n) \cup {BtTrade(candles, Before, n)},
                trades |-> Append(Before.trades, BtTrade(candles, Before, n)),
                prm    |-> RecordEntryCycle(Before.prm, Offline),
                seen   |-> Before.seen \cup {Offline.low}]
  BY <1>3, <1>8, AfterIs, BtStepIs DEF Offline
<1>. HIDE DEF x
<1>11. After.open = Left \cup {x}
  BY <1>4, <1>9, <1>10
<1>12. After.trades = Append(Before.trades, x)
  BY <1>9, <1>10
<1>. QED BY <1>11, <1>12 DEF x

\* Of the last candle there is a signal with this status.
NowHas(st) == \E i \in 1..Len(signals) : signals[i].conf = LastOne.time /\ signals[i].status = st

\* The live side has what the backtest had before the last candle was decided,
\* or what it has since.
AsBefore == entries = Before.trades /\ open = Left

AsAfter == entries = After.trades /\ open = After.open

\* An order under way is one that the backtest has executed.
SentOK(i) ==
  /\ signals[i].conf = LastOne.time /\ ~due /\ AsBefore
  /\ \E r \in Runs : run[r].at = "ordering" /\ run[r].signal = i
  /\ After.open = Left \cup {PositionOf(signals[i], signals[i].mult)}
  /\ After.trades = Append(Before.trades, PositionOf(signals[i], signals[i].mult))

RunOK(x) == AssetUnlocked(candles, "NONE", Now) /\ x.params.override = "NONE" /\ Marked(signals, x.params)

\* While nothing happens that an offline run cannot know.
SteadyInv ==
  /\ params.override = "NONE" /\ Marked(signals, params)
  /\ \A r \in Runs : run[r].at # "idle" => RunOK(run[r])
  /\ \A i \in 1..Len(signals) : signals[i].status \in {"REJECTED", "SENT", "EXECUTED"}
  /\ Known = open
  /\ due => ~HasConf(signals, LastOne.time)
  /\ ~NowHas("EXECUTED") => AsBefore
  /\ ~due /\ (\A i \in 1..Len(signals) : signals[i].status # "SENT") => AsAfter
  /\ \A i \in 1..Len(signals) : signals[i].status = "SENT" => SentOK(i)

OfflineInv == steady => LiveInv /\ BtInv /\ SteadyInv

\* The backtest of the same candles is the same.
LEMMA SameCandles ==
    ASSUME candles' = candles
    PROVE  /\ LastOne' = LastOne /\ Before' = Before /\ After' = After /\ Left' = Left
           /\ Now' = Now /\ LastClose' = LastClose /\ (BtInv => BtInv')
BY DEF LastOne, Before, After, Left, Now, LastClose, BtInv

\* Who knows of a signal knows of it later.
LEMMA MarkedStays ==
    ASSUME NEW all, NEW more, NEW prm, Marked(all, prm),
           \A i \in 1..Len(all) : i \in 1..Len(more) /\ more[i].conf = all[i].conf /\ more[i].low = all[i].low
    PROVE  Marked(more, prm)
<1>1. (\A x : HasConf(all, x) => HasConf(more, x)) /\ (\A x : HasLow(all, x) => HasLow(more, x))
  BY DEF HasConf, HasLow
<1>. QED BY <1>1 DEF Marked

\* No order is under way.
LEMMA NoneSent ==
    ASSUME SteadyInv, due \/ \A r \in Runs : run[r].at # "ordering"
    PROVE  \A i \in 1..Len(signals) : signals[i].status # "SENT"
BY DEF SteadyInv, SentOK

\* As long as the last candle waits, nothing has been done about it.
LEMMA DueIsBefore ==
    ASSUME SteadyInv, due
    PROVE  AsBefore /\ ~HasConf(signals, LastOne.time)
BY DEF SteadyInv, NowHas, HasConf

\* When neither a signal nor a position changes.
LEMMA QuietSteady ==
    ASSUME SteadyInv, UNCHANGED <<candles, signals, open, entries, params>>,
           \A r \in Runs : run'[r].at # "idle" => RunOK(run'[r]),
           \A r \in Runs : run[r].at = "ordering" => run'[r] = run[r],
           due' => due, due /\ ~due' => AsAfter
    PROVE  SteadyInv'
<1>1. LastOne' = LastOne /\ Before' = Before /\ After' = After /\ Left' = Left /\ Now' = Now /\ LastClose' = LastClose
  BY SameCandles
<1>2. /\ params'.override = "NONE" /\ Marked(signals', params')
      /\ \A i \in 1..Len(signals') : signals'[i].status \in {"REJECTED", "SENT", "EXECUTED"}
  BY DEF SteadyInv
<1>3. \A r \in Runs : run'[r].at # "idle" => RunOK(run[r])'
  BY <1>1 DEF RunOK
<1>4. Known' = open'
  <2>1. Known' = Known
    BY DEF Known
  <2>. QED BY <2>1 DEF SteadyInv
<1>5. due' => ~HasConf(signals', LastOne'.time)
  BY <1>1 DEF SteadyInv
<1>6. (NowHas("EXECUTED")' <=> NowHas("EXECUTED")) /\ (AsBefore' <=> AsBefore) /\ (AsAfter' <=> AsAfter)
  BY <1>1 DEF NowHas, AsBefore, AsAfter
<1>7. ~NowHas("EXECUTED")' => AsBefore'
  BY <1>6 DEF SteadyInv
<1>8. ~due' /\ (\A i \in 1..Len(signals') : signals'[i].status # "SENT") => AsAfter'
  BY <1>6 DEF SteadyInv
<1>9. ASSUME NEW i \in 1..Len(signals'), signals'[i].status = "SENT"
      PROVE  SentOK(i)'
  <2>1. SentOK(i)
    BY <1>9 DEF SteadyInv
  <2>2. PICK r \in Runs : run[r].at = "ordering" /\ run[r].signal = i
    BY <2>1 DEF SentOK
  <2>3. run'[r].at = "ordering" /\ run'[r].signal = i
    BY <2>2
  <2>4. PositionOf(signals[i], signals[i].mult)' = PositionOf(signals[i], signals[i].mult)
    BY <1>1 DEF PositionOf
  <2>. QED BY <1>1, <1>6, <2>1, <2>3, <2>4 DEF SentOK
<1>. QED BY <1>2, <1>3, <1>4, <1>5, <1>7, <1>8, <1>9 DEF SteadyInv

\* A run loads the parameters, or gives up.
LEMMA LoadSteady ==
    ASSUME SteadyInv, LiveInv, NEW r \in Runs, Load(r) \/ LockTimeout(r)
    PROVE  SteadyInv'
<1>0. run \in [Runs -> RunSet(candles)]
  BY DEF LiveInv
<1>1. UNCHANGED <<candles, signals, open, entries, params, due>> /\ run[r].at # "ordering"
  BY DEF Load, LockTimeout
<1>2. CASE Load(r)
  <2>. DEFINE x == [at |-> "waiting", params |-> params, signal |-> 0]
  <2>1. run' = [run EXCEPT ![r] = x]
    BY <1>2 DEF Load
  <2>2. RunOK(x)
    <3>1. params.override = "NONE" /\ Marked(signals, params)
      BY DEF SteadyInv
    <3>2. AssetUnlocked(candles, "NONE", Now)
      BY <1>2, <3>1 DEF Load
    <3>. QED BY <3>1, <3>2 DEF RunOK
  <2>. HIDE DEF x
  <2>3. \A q \in Runs : run'[q] = IF q = r THEN x ELSE run[q]
    BY <1>0, <2>1
  <2>4. \A q \in Runs : run'[q].at # "idle" => RunOK(run'[q])
    BY <2>2, <2>3 DEF SteadyInv
  <2>5. \A q \in Runs : run[q].at = "ordering" => run'[q] = run[q]
    BY <1>1, <2>3
  <2>. QED BY <1>1, <2>4, <2>5, QuietSteady
<1>3. CASE LockTimeout(r)
  <2>1. run' = [run EXCEPT ![r] = Idle]
    BY <1>3 DEF LockTimeout, Return
  <2>2. \A q \in Runs : run'[q] = IF q = r THEN Idle ELSE run[q]
    BY <1>0, <2>1
  <2>3. Idle.at = "idle"
    BY DEF Idle
  <2>4. \A q \in Runs : run'[q].at # "idle" => RunOK(run'[q])
    BY <2>2, <2>3 DEF SteadyInv
  <2>5. \A q \in Runs : run[q].at = "ordering" => run'[q] = run[q]
    BY <1>1, <2>2
  <2>. QED BY <1>1, <2>4, <2>5, QuietSteady
<1>. QED BY <1>2, <1>3

\* The runner starts no run: the backtest does not enter either.
LEMMA LockedSteady ==
    ASSUME OfflineDay, Day, BtInv, SteadyInv, StayLocked
    PROVE  SteadyInv'
<1>1. UNCHANGED <<candles, signals, open, entries, params, run>> /\ due /\ ~due'
  BY DEF StayLocked
<1>2. params.override = "NONE"
  BY DEF SteadyInv
<1>3. ~AssetUnlocked(candles, "NONE", Now)
  BY <1>2 DEF StayLocked
<1>4. After.open = Left /\ After.trades = Before.trades
  BY <1>3, BtQuiet
<1>5. AsAfter
  BY <1>1, <1>4, DueIsBefore DEF AsBefore, AsAfter
<1>6. \A r \in Runs : run'[r].at # "idle" => RunOK(run'[r])
  BY <1>1 DEF SteadyInv
<1>. QED BY <1>1, <1>5, <1>6, QuietSteady

\* A candle closes when the one before has been dealt with.
LEMMA CloseSteady ==
    ASSUME OfflineDay, LiveInv, BtInv, SteadyInv, CloseCandle, steady'
    PROVE  SteadyInv'
<1>0. Day /\ SignalsOfDay
  BY DEF LiveInv
<1>1. ~due /\ (\A r \in Runs : run[r].at = "idle") /\ due' /\ UNCHANGED <<params, signals, run, entries>>
  BY DEF CloseCandle
<1>2. \A i \in 1..Len(signals) : signals[i].status # "SENT"
  BY <1>1, NoneSent
<1>3. AsAfter
  BY <1>1, <1>2 DEF SteadyInv
<1>4. Before' = After
  BY <1>0, BtGoesOn
<1>5. PICK s \in Shapes : candles' = Append(candles, NextCandle(s)) /\ open' = StillOpen(open, NextCandle(s))
  BY DEF CloseCandle
<1>6. LastOne' = NextCandle(s)
  <2>1. PICK c : c = NextCandle(s)
    OBVIOUS
  <2>2. c \in Candle /\ candles \in Seq(Candle) /\ Len(candles) \in Nat
    BY <1>0, <2>1, NextIsCandle, DayFacts
  <2>3. Len(candles') = Len(candles) + 1 /\ candles'[Len(candles) + 1] = c
    BY <1>5, <2>1, <2>2, AppendProperties
  <2>. QED BY <2>1, <2>3 DEF LastOne
<1>7. open' = Left'
  BY <1>3, <1>4, <1>5, <1>6 DEF AsAfter, Left
<1>8. AsBefore'
  BY <1>1, <1>3, <1>4, <1>7 DEF AsAfter, AsBefore
<1>9. Known' = open'
  <2>1. open' \subseteq open
    BY <1>5 DEF StillOpen
  <2>2. \A p \in open : \E i \in DOMAIN signals : /\ signals[i].status = "EXECUTED"
                                                 /\ signals[i].conf = p.conf /\ signals[i].low = p.low
    BY DEF SteadyInv, Known
  <2>3. \A p \in open' : \E i \in DOMAIN signals' : /\ signals'[i].status = "EXECUTED"
                                                   /\ signals'[i].conf = p.conf /\ signals'[i].low = p.low
    BY <1>1, <2>1, <2>2
  <2>. QED BY <2>3 DEF Known
<1>10. ~HasConf(signals', LastOne'.time)
  <2>1. LastOne.time = 4 * Len(candles) /\ Len(candles) \in Nat
    BY <1>0, DayFacts
  <2>2. LastOne'.time = 4 * (Len(candles) + 1)
    BY <1>0, <1>6, NextIsCandle DEF Bar
  <2>3. ASSUME NEW i \in 1..Len(signals)
        PROVE  signals[i].conf # LastOne'.time
    <3>1. PICK j \in 1..Len(Found(candles)) : Found(candles)[j].conf = signals[i].conf
      BY <1>0 DEF SignalsOfDay, IsOfDay
    <3>2. signals[i].conf \in Nat /\ signals[i].conf <= LastOne.time
      BY <1>0, <3>1, FoundFacts DEF LastOne
    <3>. QED BY <2>1, <2>2, <3>2
  <2>. QED BY <1>1, <2>3 DEF HasConf
<1>11. /\ params'.override = "NONE" /\ Marked(signals', params')
       /\ \A i \in 1..Len(signals') : signals'[i].status \in {"REJECTED", "SENT", "EXECUTED"} /\ signals'[i].status # "SENT"
  BY <1>1, <1>2 DEF SteadyInv
<1>12. \A r \in Runs : run'[r].at = "idle"
  BY <1>1
<1>. QED BY <1>1, <1>8, <1>9, <1>10, <1>11, <1>12 DEF SteadyInv

\* An order is executed: now the live side has the trade, too.
LEMMA ExecutedSteady ==
    ASSUME OfflineDay, LiveInv, BtInv, SteadyInv, NEW r \in Runs, Executed(r)
    PROVE  SteadyInv'
<1>. DEFINE i == run[r].signal
            p == PositionOf(signals[i], signals[i].mult)
<1>0. /\ SignalsOfDay /\ Orders /\ run \in [Runs -> RunSet(candles)] /\ run[r].at = "ordering"
      /\ IsSeq(signals) /\ DOMAIN signals = 1..Len(signals)
  BY DEF LiveInv, Executed, SignalsOfDay, IsSeq
<1>1. i \in 1..Len(signals) /\ signals[i].status = "SENT"
  BY <1>0 DEF Orders, Ahead
<1>2. SentOK(i)
  BY <1>1 DEF SteadyInv
<1>3. /\ SetStatus(i, "EXECUTED") /\ candles' = candles /\ due' = due /\ Return(r)
      /\ params' = [run[r].params EXCEPT !.bounds = @ \cup {signals[i].conf}]
  BY DEF Executed
<1>4. open' = open \cup {p} /\ entries' = Append(entries, p)
  BY DEF Executed, Fill, PositionOf
<1>5. LastOne' = LastOne /\ Before' = Before /\ After' = After /\ Left' = Left /\ Now' = Now /\ LastClose' = LastClose
  BY <1>3, SameCandles
<1>6. AsAfter'
  BY <1>2, <1>4, <1>5 DEF SentOK, AsBefore, AsAfter
<1>. HIDE DEF i
<1>7. PICK e : Updated(i, e) /\ e.status = "EXECUTED"
  BY <1>0, <1>1, <1>3, StatusIsUpdate DEF Statuses
<1>8. /\ Len(signals') = Len(signals) /\ \A j \in 1..Len(signals) : signals'[j] = IF j = i THEN e ELSE signals[j]
      /\ \A j \in 1..Len(signals) : signals'[j].conf = signals[j].conf /\ signals'[j].low = signals[j].low
      /\ DOMAIN signals' = 1..Len(signals')
  <2>1. OneSetup
    BY DEF LiveInv
  <2>2. /\ SignalsOfDay' /\ Len(signals') = Len(signals)
        /\ \A j \in 1..Len(signals) : signals'[j] = IF j = i THEN e ELSE signals[j]
        /\ \A j \in 1..Len(signals) : SetupOf(signals[j], signals'[j])
    BY <1>0, <1>1, <1>3, <1>7, <2>1, UpdateKeeps
  <2>3. DOMAIN signals' = 1..Len(signals')
    BY <2>2 DEF SignalsOfDay, IsSeq
  <2>. QED BY <2>2, <2>3 DEF SetupOf
<1>9. \A prm : Marked(signals, prm) => Marked(signals', prm)
  <2>1. \A j \in 1..Len(signals) : j \in 1..Len(signals') /\ signals'[j].conf = signals[j].conf /\ signals'[j].low = signals[j].low
    BY <1>8
  <2>2. PICK more : more = signals'
    OBVIOUS
  <2>. QED BY <2>1, <2>2, MarkedStays
<1>10. RunOK(run[r])
  BY <1>0 DEF SteadyInv
<1>11. params'.override = "NONE" /\ Marked(signals', params')
  <2>1. PICK x \in ParamSet(candles) : x = run[r].params
    BY <1>0 DEF RunSet
  <2>2. Marked(signals', x) /\ x.override = "NONE"
    BY <1>9, <1>10, <2>1 DEF RunOK
  <2>3. PICK c : c = signals[i].conf
    OBVIOUS
  <2>4. HasConf(signals', c)
    BY <1>1, <1>8, <2>3 DEF HasConf
  <2>5. PICK y : y = [x EXCEPT !.bounds = @ \cup {c}]
    OBVIOUS
  <2>6. /\ y.bounds = x.bounds \cup {c} /\ y.override = x.override
        /\ y.lastCandle = x.lastCandle /\ y.lastLow = x.lastLow
    BY <2>5 DEF ParamSet
  <2>7. Marked(signals', y)
    BY <2>2, <2>4, <2>6 DEF Marked
  <2>8. params' = y
    BY <1>3, <2>1, <2>3, <2>5
  <2>. QED BY <2>2, <2>6, <2>7, <2>8
<1>12. ASSUME NEW q \in Runs, run'[q].at # "idle"
       PROVE  RunOK(run[q])'
  <2>1. run' = [run EXCEPT ![r] = Idle] /\ Idle.at = "idle"
    BY <1>3 DEF Return, Idle
  <2>2. q # r /\ run'[q] = run[q]
    BY <1>0, <1>12, <2>1
  <2>3. RunOK(run[q])
    BY <1>12, <2>2 DEF SteadyInv
  <2>. QED BY <1>3, <1>5, <1>9, <2>2, <2>3 DEF RunOK
<1>13. ASSUME NEW j \in 1..Len(signals'), signals'[j].status = "SENT"
       PROVE  FALSE
  <2>1. j \in 1..Len(signals) /\ j # i /\ signals[j].status = "SENT"
    BY <1>7, <1>8, <1>13
  <2>2. SentOK(j)
    BY <2>1 DEF SteadyInv
  <2>3. PICK q \in Runs : run[q].at = "ordering" /\ run[q].signal = j
    BY <2>2 DEF SentOK
  <2>4. q = r
    BY <1>0, <2>3 DEF Orders
  <2>. QED BY <2>1, <2>3, <2>4 DEF i
<1>14. \A j \in 1..Len(signals') : signals'[j].status \in {"REJECTED", "SENT", "EXECUTED"}
  BY <1>7, <1>8 DEF SteadyInv
<1>15. Known' = open'
  <2>1. ASSUME NEW q \in open'
        PROVE  \E j \in DOMAIN signals' : /\ signals'[j].status = "EXECUTED"
                                          /\ signals'[j].conf = q.conf /\ signals'[j].low = q.low
    <3>1. CASE q = p
      <4>1. p.conf = signals[i].conf /\ p.low = signals[i].low
        BY DEF PositionOf
      <4>. HIDE DEF p
      <4>2. i \in DOMAIN signals' /\ signals'[i].status = "EXECUTED" /\ signals'[i].conf = q.conf /\ signals'[i].low = q.low
        BY <1>1, <1>7, <1>8, <3>1, <4>1
      <4>. QED BY <4>2
    <3>2. CASE q \in open
      <4>1. PICK j \in DOMAIN signals : /\ signals[j].status = "EXECUTED"
                                        /\ signals[j].conf = q.conf /\ signals[j].low = q.low
        BY <3>2 DEF SteadyInv, Known
      <4>2. j \in 1..Len(signals) /\ j # i
        BY <1>0, <1>1, <4>1
      <4>3. signals'[j] = signals[j] /\ j \in DOMAIN signals'
        BY <1>8, <4>2
      <4>. QED BY <4>1, <4>3
    <3>. HIDE DEF p
    <3>. QED BY <1>4, <2>1, <3>1, <3>2
  <2>. QED BY <2>1 DEF Known
<1>16. NowHas("EXECUTED")'
  <2>1. signals'[i].conf = LastOne'.time /\ signals'[i].status = "EXECUTED" /\ i \in 1..Len(signals')
    BY <1>1, <1>2, <1>5, <1>7, <1>8 DEF SentOK
  <2>. QED BY <2>1 DEF NowHas
<1>17. ~due'
  BY <1>2, <1>3 DEF SentOK
<1>. QED BY <1>6, <1>11, <1>12, <1>13, <1>14, <1>15, <1>16, <1>17 DEF SteadyInv

\* What was executed on this candle is not bought again.
LEMMA AgainIsDuplicate ==
    ASSUME WholeDay, LiveInv, NEW prm \in ParamSet(candles), NEW known,
           NEW d, d = ShouldBuy(Window300, prm, known, LastClose), d # NoEntry, NowHas("EXECUTED")
    PROVE  DuplicateSetup(d)
<1>. DEFINE F == Found(candles)
            n == Len(F)
<1>0. Day /\ SignalsOfDay /\ OneSetup /\ Detector.disallowSame
  BY DEF LiveInv, WholeDay
<1>1. /\ d.conf = LastOne.time /\ d.zone = ZoneNow(candles) /\ n \in 1..n /\ d.conf = F[n].conf /\ d.low = F[n].lowTime
  BY <1>0, DecisionIs DEF LastOne
<1>2. PICK i \in 1..Len(signals) : signals[i].conf = LastOne.time /\ signals[i].status = "EXECUTED"
  BY DEF NowHas
<1>3. PICK x \in 1..Len(F) : F[x].conf = signals[i].conf /\ F[x].lowTime = signals[i].low
  BY <1>0 DEF SignalsOfDay, IsOfDay
<1>4. x = n
  <2>1. F[x].conf = F[n].conf
    BY <1>1, <1>2, <1>3
  <2>2. \A a, b \in 1..Len(F) : F[a].conf = F[b].conf => a = b
    BY <1>0, FoundInOrder
  <2>. HIDE DEF F
  <2>. QED BY <1>1, <2>1, <2>2
<1>5. signals[i].zone = d.zone
  BY <1>0, <1>1, <1>2 DEF OneSetup, LastOne
<1>6. SameSetup(signals[i], d)
  BY <1>1, <1>2, <1>3, <1>4, <1>5 DEF SameSetup
<1>7. i \in DOMAIN signals
  BY <1>0 DEF SignalsOfDay, IsSeq
<1>. QED BY <1>2, <1>6, <1>7 DEF DuplicateSetup, Protected

\* A run decides: the backtest decides the same, unless the candle has been
\* dealt with.
LEMMA EvaluateSteady ==
    ASSUME OfflineDay, LiveInv, BtInv, SteadyInv, NEW r \in Runs, Evaluate(r)
    PROVE  SteadyInv'
<1>. DEFINE prm == run[r].params
            d == ShouldBuy(Window300, prm, Known, LastClose)
            size == Fitting(d.mult, PlannedEquivalents)
            status == IF ~DuplicateSetup(d) /\ size > 0 THEN "SENT" ELSE "REJECTED"
            marked == [prm EXCEPT !.lastCandle = d.conf, !.lastLow = d.low]
            s == [conf |-> d.conf, low |-> d.low, zone |-> d.zone, peak |-> d.peak,
                  mult |-> size, status |-> status, filled |-> FALSE]
            n == Len(signals)
<1>0. /\ Day /\ SignalsOfDay /\ run \in [Runs -> RunSet(candles)] /\ prm \in ParamSet(candles) /\ WholeDay
      /\ IsSeq(signals) /\ n \in Nat /\ DOMAIN signals = 1..n
  BY OfflineFacts DEF LiveInv, RunSet, SignalsOfDay, IsSeq
<1>1. UNCHANGED <<candles, open, entries, steady>> /\ ~due' /\ run[r].at = "waiting"
      /\ \A q \in Runs : run[q].at # "ordering"
  BY DEF Evaluate, LockFree
<1>2. \A i \in 1..n : signals[i].status # "SENT"
  BY <1>1, NoneSent
<1>3. RunOK(run[r]) /\ Known = open
  BY <1>1 DEF SteadyInv
<1>4. AssetUnlocked(candles, "NONE", Now) /\ prm.override = "NONE" /\ Marked(signals, prm)
  BY <1>3 DEF RunOK
<1>5. PlannedEquivalents = Used(Known)
  <2>1. {j \in DOMAIN signals : signals[j].status \in {"SENT", "RECONCILING"}} = {}
    <3>1. \A j \in DOMAIN signals : signals[j].status \in {"REJECTED", "SENT", "EXECUTED"} /\ signals[j].status # "SENT"
      BY <1>0, <1>2 DEF SteadyInv
    <3>. QED BY <3>1
  <2>2. Known \cup {signals[i] : i \in {}} = Known
    OBVIOUS
  <2>. QED BY <2>1, <2>2 DEF PlannedEquivalents
<1>6. AsBefore => Known = Left /\ d = LiveDecision(prm)
  BY <1>3 DEF AsBefore, LiveDecision
<1>7. LastOne' = LastOne /\ Before' = Before /\ After' = After /\ Left' = Left /\ Now' = Now /\ LastClose' = LastClose
  BY <1>1, SameCandles
<1>8. CASE d = NoEntry
  <2>1. UNCHANGED <<params, signals>> /\ run' = [run EXCEPT ![r] = Idle] /\ Idle.at = "idle"
    BY <1>8 DEF Evaluate, Return, Idle
  <2>2. due /\ ~due' => AsAfter
    <3>. SUFFICES ASSUME due PROVE AsAfter
      OBVIOUS
    <3>1. AsBefore /\ ~HasConf(signals, LastOne.time)
      BY DueIsBefore
    <3>2. Offline = NoEntry
      <4>. HIDE DEF prm, d
      <4>. QED BY <1>0, <1>4, <1>6, <1>8, <3>1, WaitsAlike
    <3>3. After.open = Left /\ After.trades = Before.trades
      BY <1>0, <3>2, BtQuiet
    <3>. QED BY <3>1, <3>3 DEF AsBefore, AsAfter
  <2>. HIDE DEF d, prm
  <2>3. \A q \in Runs : run'[q] = IF q = r THEN Idle ELSE run[q]
    BY <1>0, <2>1
  <2>4. \A q \in Runs : run'[q].at # "idle" => RunOK(run'[q])
    BY <2>1, <2>3 DEF SteadyInv
  <2>5. due' => due
    BY <1>1
  <2>. QED BY <1>1, <2>1, <2>2, <2>4, <2>5, QuietSteady
<1>9. CASE d # NoEntry
  <2>1. /\ params' = marked /\ signals' = Append(signals, s)
        /\ run' = [run EXCEPT ![r] = IF status = "SENT"
                                     THEN [at |-> "ordering", params |-> marked, signal |-> Len(signals')]
                                     ELSE Idle]
    BY <1>9 DEF Evaluate
  <2>2. \/ status = "SENT" /\ size > 0 /\ ~DuplicateSetup(d)
        \/ status = "REJECTED" /\ (DuplicateSetup(d) \/ ~(size > 0))
    OBVIOUS
  <2>3. NowHas("EXECUTED") => DuplicateSetup(d)
    BY <1>0, <1>9, AgainIsDuplicate
  <2>4. d.conf = LastOne.time
    BY <1>0, <1>9, DecisionIs DEF LastOne
  <2>5. DuplicateSetup(d) => NowHas("EXECUTED")
    <3>. SUFFICES ASSUME DuplicateSetup(d) PROVE NowHas("EXECUTED")
      OBVIOUS
    <3>1. PICK i \in DOMAIN signals : signals[i].status \in Protected /\ signals[i].conf = d.conf
      BY DEF DuplicateSetup, SameSetup
    <3>2. i \in 1..n /\ signals[i].status = "EXECUTED"
      BY <1>0, <1>2, <3>1 DEF SteadyInv, Protected
    <3>. QED BY <2>4, <3>1, <3>2 DEF NowHas
  <2>6. ~NowHas("EXECUTED") => AsBefore
    BY DEF SteadyInv
  <2>7. AsBefore => size = Fitting(d.mult, Used(Left))
    BY <1>5, <1>6
  <2>8. s.conf = d.conf /\ s.low = d.low /\ s.peak = d.peak /\ s.mult = size /\ s.status = status
    OBVIOUS
  <2>9. /\ marked.bounds = prm.bounds /\ marked.lastCandle = d.conf /\ marked.lastLow = d.low
        /\ marked.override = prm.override
    <3>1. PICK x \in ParamSet(candles) : x = prm
      BY <1>0
    <3>2. marked = [x EXCEPT !.lastCandle = d.conf, !.lastLow = d.low]
      BY <3>1
    <3>. HIDE DEF d, marked, prm
    <3>. QED BY <3>1, <3>2 DEF ParamSet
  <2>. HIDE DEF d, size, status, marked, s, prm
  <2>10. /\ Len(signals') = n + 1 /\ signals'[n + 1] = s
         /\ \A i \in 1..n : signals'[i] = signals[i]
         /\ DOMAIN signals' = 1..(n + 1)
    <3>1. signals' = Added(signals, s)
      BY <2>1 DEF Added
    <3>2. /\ IsSeq(Added(signals, s)) /\ Len(Added(signals, s)) = n + 1
          /\ \A i \in 1..n : Added(signals, s)[i] = signals[i]
          /\ Added(signals, s)[n + 1] = s
      BY <1>0, AppendIs
    <3>. QED BY <3>1, <3>2 DEF IsSeq
  <2>11. \A x : Marked(signals, x) => Marked(signals', x)
    <3>1. \A j \in 1..n : j \in 1..Len(signals') /\ signals'[j].conf = signals[j].conf /\ signals'[j].low = signals[j].low
      BY <1>0, <2>10
    <3>2. PICK more : more = signals'
      OBVIOUS
    <3>. QED BY <3>1, <3>2, MarkedStays
  <2>12. params'.override = "NONE" /\ Marked(signals', marked)
    <3>1. n + 1 \in 1..Len(signals')
      BY <1>0, <2>10
    <3>2. HasConf(signals', d.conf) /\ HasLow(signals', d.low)
      BY <2>8, <2>10, <3>1 DEF HasConf, HasLow
    <3>3. \A b \in prm.bounds : HasConf(signals', b)
      BY <1>4, <2>11 DEF Marked
    <3>4. Marked(signals', marked)
      BY <2>9, <3>2, <3>3 DEF Marked
    <3>. QED BY <1>4, <2>1, <2>9, <3>4
  <2>13. ASSUME NEW q \in Runs, run'[q].at # "idle"
         PROVE  RunOK(run[q])'
    <3>1. CASE q = r
      <4>1. Idle.at = "idle"
        BY DEF Idle
      <4>2. run'[q] = [at |-> "ordering", params |-> marked, signal |-> Len(signals')]
        BY <1>0, <2>1, <2>13, <3>1, <4>1
      <4>3. run'[q].params = marked
        BY <4>2
      <4>. QED BY <1>1, <1>4, <1>7, <2>1, <2>12, <4>3 DEF RunOK
    <3>2. CASE q # r
      <4>1. run'[q] = run[q]
        BY <1>0, <2>1, <3>2
      <4>2. RunOK(run[q])
        BY <2>13, <4>1 DEF SteadyInv
      <4>. QED BY <1>1, <1>7, <2>11, <4>1, <4>2 DEF RunOK
    <3>. QED BY <3>1, <3>2
  <2>14. status \in {"REJECTED", "SENT"}
    BY <2>2
  <2>15. \A j \in 1..Len(signals') : signals'[j].status \in {"REJECTED", "SENT", "EXECUTED"}
    <3>. TAKE j \in 1..Len(signals')
    <3>1. CASE j = n + 1
      BY <2>8, <2>10, <2>14, <3>1
    <3>2. CASE j # n + 1
      <4>1. j \in 1..n
        BY <1>0, <2>10, <3>2
      <4>. QED BY <2>10, <4>1 DEF SteadyInv
    <3>. QED BY <3>1, <3>2
  <2>16. Known' = open'
    <3>1. ASSUME NEW p \in open'
          PROVE  \E j \in DOMAIN signals' : /\ signals'[j].status = "EXECUTED"
                                            /\ signals'[j].conf = p.conf /\ signals'[j].low = p.low
      <4>1. p \in Known
        BY <1>1, <1>3, <3>1
      <4>2. PICK j \in DOMAIN signals : /\ signals[j].status = "EXECUTED"
                                        /\ signals[j].conf = p.conf /\ signals[j].low = p.low
        BY <4>1 DEF Known
      <4>3. j \in 1..n /\ j \in DOMAIN signals'
        BY <1>0, <2>10, <4>2
      <4>. QED BY <2>10, <4>2, <4>3
    <3>. QED BY <3>1 DEF Known
  <2>17. NowHas("EXECUTED") => NowHas("EXECUTED")'
    <3>. SUFFICES ASSUME NowHas("EXECUTED") PROVE NowHas("EXECUTED")'
      OBVIOUS
    <3>1. PICK i \in 1..n : signals[i].conf = LastOne.time /\ signals[i].status = "EXECUTED"
      BY DEF NowHas
    <3>2. i \in 1..Len(signals') /\ signals'[i] = signals[i]
      BY <1>0, <2>10
    <3>. QED BY <1>7, <3>1, <3>2 DEF NowHas
  <2>18. ~NowHas("EXECUTED")' => AsBefore'
    BY <1>1, <1>7, <2>6, <2>17 DEF AsBefore
  <2>19. CASE status = "SENT"
    <3>1. AsBefore /\ size = Fitting(d.mult, Used(Left)) /\ d = LiveDecision(prm) /\ size > 0
      BY <1>6, <2>2, <2>3, <2>6, <2>7, <2>19
    <3>2. After.open = Left \cup {PositionOf(d, size)} /\ After.trades = Append(Before.trades, PositionOf(d, size))
      BY <1>0, <1>4, <1>9, <3>1, BtBuys
    <3>3. PositionOf(s, s.mult) = PositionOf(d, size)
      BY <2>8 DEF PositionOf
    <3>4. ASSUME NEW j \in 1..Len(signals'), signals'[j].status = "SENT"
          PROVE  SentOK(j)'
      <4>1. j = n + 1
        <5>1. j # n + 1 => j \in 1..n
          BY <1>0, <2>10
        <5>. QED BY <1>2, <2>10, <3>4, <5>1
      <4>2. signals'[j] = s
        BY <2>10, <4>1
      <4>3. signals'[j].conf = LastOne' .time
        BY <1>7, <2>4, <2>8, <4>2
      <4>4. AsBefore'
        BY <1>1, <1>7, <3>1 DEF AsBefore
      <4>5. run'[r].at = "ordering" /\ run'[r].signal = j
        <5>1. run'[r] = [at |-> "ordering", params |-> marked, signal |-> Len(signals')]
          BY <1>0, <2>1, <2>19
        <5>. QED BY <2>10, <4>1, <5>1
      <4>6. PositionOf(signals[j], signals[j].mult)' = PositionOf(s, s.mult)
        BY <1>7, <4>2 DEF PositionOf
      <4>. QED BY <1>1, <1>7, <3>2, <3>3, <4>3, <4>4, <4>5, <4>6 DEF SentOK
    <3>5. n + 1 \in 1..Len(signals') /\ signals'[n + 1].status = "SENT"
      BY <1>0, <2>8, <2>10, <2>19
    <3>. QED BY <1>1, <2>1, <2>12, <2>13, <2>15, <2>16, <2>18, <3>4, <3>5 DEF SteadyInv
  <2>20. CASE status = "REJECTED"
    <3>1. \A j \in 1..Len(signals') : signals'[j].status # "SENT"
      <4>. TAKE j \in 1..Len(signals')
      <4>1. CASE j = n + 1
        BY <2>8, <2>10, <2>20, <4>1
      <4>2. CASE j # n + 1
        <5>1. j \in 1..n
          BY <1>0, <2>10, <4>2
        <5>. QED BY <1>2, <2>10, <5>1
      <4>. QED BY <4>1, <4>2
    <3>2. AsAfter
      <4>1. CASE NowHas("EXECUTED")
        <5>1. ~due
          BY <4>1, DueIsBefore DEF NowHas, HasConf
        <5>. QED BY <1>2, <5>1 DEF SteadyInv
      <4>2. CASE ~NowHas("EXECUTED")
        <5>1. AsBefore /\ size = Fitting(d.mult, Used(Left)) /\ d = LiveDecision(prm) /\ ~(size > 0)
          BY <1>6, <2>2, <2>5, <2>6, <2>7, <2>20, <4>2
        <5>2. Offline = d
          BY <1>0, <1>9, <5>1, BuysAlike
        <5>3. After.open = Left /\ After.trades = Before.trades
          BY <1>0, <5>1, <5>2, BtQuiet
        <5>. QED BY <5>1, <5>3 DEF AsBefore, AsAfter
      <4>. QED BY <4>1, <4>2
    <3>3. AsAfter'
      BY <1>1, <1>7, <3>2 DEF AsAfter
    <3>. QED BY <1>1, <2>1, <2>12, <2>13, <2>15, <2>16, <2>18, <3>1, <3>3 DEF SteadyInv
  <2>. QED BY <2>14, <2>19, <2>20
<1>. QED BY <1>8, <1>9

\* All of this holds in the beginning,
LEMMA SteadyBegins == ASSUME OfflineDay, Init PROVE OfflineInv
<1>1. LiveInv /\ Day
  BY LiveStarts, DayStarts
<1>2. BtInv /\ Before = BtStart /\ After = BtStart
  BY BtBegins
<1>3. signals = << >> /\ entries = << >> /\ open = {} /\ ~due /\ params = NoParams /\ \A r \in Runs : run[r].at = "idle"
  BY DEF Init, Idle
<1>4. 1..Len(signals) = {}
  BY <1>3
<1>5. params.override = "NONE" /\ Marked(signals, params)
  BY <1>3 DEF NoParams, Marked
<1>6. Left = {}
  BY <1>2 DEF Left, StillOpen, BtStart
<1>7. AsBefore /\ AsAfter
  BY <1>2, <1>3, <1>6 DEF AsBefore, AsAfter, BtStart
<1>8. Known = open
  BY <1>3 DEF Known
<1>9. SteadyInv
  BY <1>3, <1>4, <1>5, <1>7, <1>8 DEF SteadyInv
<1>. QED BY <1>1, <1>2, <1>9 DEF OfflineInv

\* and after every step.
LEMMA SteadyGoesOn == ASSUME OfflineDay, OfflineInv, [Next]_vars PROVE OfflineInv'
<1>. SUFFICES ASSUME steady' PROVE LiveInv' /\ BtInv' /\ SteadyInv'
  BY DEF OfflineInv
<1>1. ~ManualUnlock /\ ~SaveForm /\ \A r \in Runs : ~Failed(r) /\ ~Ambiguous(r)
  BY DEF ManualUnlock, SaveForm, Failed, Ambiguous, Disturb
<1>2. steady
  BY <1>1 DEF Next, vars, CloseCandle, StayLocked, Load, LockTimeout, Evaluate, Executed, SyncExecuted, SyncFailed
<1>3. LiveInv /\ BtInv /\ SteadyInv /\ Day /\ SignalsOfDay
  BY <1>2 DEF OfflineInv, LiveInv
<1>4. LiveInv'
  BY <1>1, <1>3, LiveGoesOn, OfflineFacts
<1>5. BtInv'
  <2>1. CASE CloseCandle
    BY <1>3, <2>1, BtGoesOn
  <2>2. CASE ~CloseCandle
    BY <1>3, <2>2, CandlesStay, SameCandles
  <2>. QED BY <2>1, <2>2
<1>6. SteadyInv'
  <2>1. CASE CloseCandle
    BY <1>2, <1>3, <2>1, CloseSteady
  <2>2. CASE StayLocked
    BY <1>2, <1>3, <2>2, LockedSteady
  <2>3. ASSUME NEW r \in Runs, Load(r) \/ LockTimeout(r) \/ Evaluate(r) \/ Executed(r)
        PROVE  SteadyInv'
    BY <1>2, <1>3, <2>3, LoadSteady, EvaluateSteady, ExecutedSteady
  <2>4. ASSUME NEW i \in DOMAIN signals, SyncExecuted(i) \/ SyncFailed(i)
        PROVE  FALSE
    <3>1. signals[i].status = "RECONCILING"
      BY <2>4 DEF SyncExecuted, SyncFailed
    <3>2. i \in 1..Len(signals)
      BY <1>3 DEF SignalsOfDay, IsSeq
    <3>. QED BY <1>3, <3>1, <3>2 DEF SteadyInv
  <2>5. CASE UNCHANGED vars
    <3>1. UNCHANGED <<candles, signals, open, entries, params, run, due>>
      BY <2>5 DEF vars
    <3>2. \A r \in Runs : run'[r].at # "idle" => RunOK(run'[r])
      BY <1>3, <3>1 DEF SteadyInv
    <3>. QED BY <1>3, <3>1, <3>2, QuietSteady
  <2>. QED BY <1>1, <2>1, <2>2, <2>3, <2>4, <2>5 DEF Next
<1>. QED BY <1>4, <1>5, <1>6

\* At the end of a day everything has been decided.
LEMMA DayIsDone == ASSUME OfflineDay, OfflineInv PROVE BacktestAgreesWithLive
<1>. SUFFICES ASSUME Finished, steady
              PROVE  Backtest(candles, params.bp).trades = entries
  BY DEF BacktestAgreesWithLive
<1>1. steady /\ SteadyInv /\ LiveInv /\ Day
  BY DEF OfflineInv, LiveInv
<1>2. ~due /\ \A i \in 1..Len(signals) : signals[i].status # "SENT"
  BY <1>1, NoneSent DEF Finished
<1>3. entries = After.trades
  BY <1>1, <1>2 DEF SteadyInv, AsAfter
<1>4. params.bp = Thresholds[1]
  BY <1>1 DEF LiveInv, ParamSet
<1>5. Backtest(candles, Thresholds[1]) = After
  <2>1. Len(candles) \in Nat
    BY <1>1, DayFacts
  <2>. QED BY <2>1, BtAre DEF After
<1>. QED BY <1>3, <1>4, <1>5

(* For every day, every detector and any number of runs that satisfy the        *)
(* premises: when every candle has been evaluated and every order answered, the *)
(* backtest of the day makes the trades that were made live, in the same order, *)
(* of the same size and at the same price (torum_v1_backtest.py, runner.py).    *)
THEOREM BacktestIsLive == ASSUME OfflineDay PROVE Spec => []BacktestAgreesWithLive
<1>1. Init => OfflineInv
  BY SteadyBegins
<1>2. OfflineInv /\ [Next]_vars => OfflineInv'
  BY SteadyGoesOn
<1>3. OfflineInv => BacktestAgreesWithLive
  BY DayIsDone
<1>. QED BY <1>1, <1>2, <1>3, PTL DEF Spec

----------------------------------------------------------------------------
(* The replay.  It has no positions, no capacity and no unlock rule, and so   *)
(* whatever was bought live it has signalled on the same candle: its          *)
(* parameters are clean but for boundaries, like those of the backtest.       *)

\* The premises: no day begins with a pullback, and the replay sees the whole day.
ReplayDay ==
  /\ WholeDay
  /\ Detector.maxCount >= 1 /\ ReplayWindow >= MaxCandles
  /\ \A m \in Mornings : Len(m) >= 2 /\ Found(m) = << >>

RpStart == [signals |-> {}, prm |-> CleanParams(Thresholds[1])]

RpRuns(cs, n, st) == st = [i \in 0..n |-> IF i = 0 THEN RpStart ELSE ReplayStep(cs, st[i - 1], i)]

Rp(cs) == CHOOSE st : RpRuns(cs, Len(cs), st)

\* The recursive function of the replay exists,
LEMMA RpExists ==
    ASSUME NEW cs, NEW n \in Nat
    PROVE  \E st : RpRuns(cs, n, st)
<1>. DEFINE P == {k \in 0..n : \E st : RpRuns(cs, k, st)}
<1>1. 0 \in P
  <2>. DEFINE g == [i \in 0..0 |-> RpStart]
  <2>1. RpRuns(cs, 0, g)
    BY DEF RpRuns
  <2>. QED BY <2>1
<1>2. ASSUME NEW k \in 1..n, k - 1 \in P
      PROVE  k \in P
  <2>1. PICK st : RpRuns(cs, k - 1, st)
    BY <1>2
  <2>. DEFINE g == [i \in 0..k |-> IF i = k THEN ReplayStep(cs, st[k - 1], k) ELSE st[i]]
  <2>2. \A i \in 0..(k - 1) : g[i] = st[i]
    OBVIOUS
  <2>3. \A i \in 0..k : g[i] = IF i = 0 THEN RpStart ELSE ReplayStep(cs, g[i - 1], i)
    <3>. TAKE i \in 0..k
    <3>1. CASE i = k
      <4>1. g[i] = ReplayStep(cs, st[k - 1], k) /\ g[k - 1] = st[k - 1]
        BY <2>2, <3>1
      <4>. HIDE DEF g
      <4>. QED BY <3>1, <4>1
    <3>2. CASE i # k
      <4>1. i \in 0..(k - 1) /\ (i # 0 => i - 1 \in 0..(k - 1))
        BY <3>2
      <4>2. st[i] = IF i = 0 THEN RpStart ELSE ReplayStep(cs, st[i - 1], i)
        BY <2>1, <4>1 DEF RpRuns
      <4>3. g[i] = st[i] /\ (i # 0 => g[i - 1] = st[i - 1])
        BY <2>2, <4>1
      <4>. HIDE DEF g
      <4>. QED BY <4>2, <4>3
    <3>. QED BY <3>1, <3>2
  <2>4. g = [i \in 0..k |-> g[i]]
    OBVIOUS
  <2>. HIDE DEF g
  <2>5. RpRuns(cs, k, g)
    BY <2>3, <2>4 DEF RpRuns
  <2>. QED BY <2>5
<1>3. n \in P
  <2>. HIDE DEF P
  <2>1. \A k \in 0..n : k \in P
    BY <1>1, <1>2, StepInduction
  <2>. QED BY <2>1
<1>. QED BY <1>3

\* and these are its values.
LEMMA RpAre ==
    ASSUME NEW cs, Len(cs) \in Nat
    PROVE  /\ Rp(cs)[0] = RpStart
           /\ \A i \in 1..Len(cs) : Rp(cs)[i] = ReplayStep(cs, Rp(cs)[i - 1], i)
           /\ Replay(cs, Thresholds[1]) = Rp(cs)[Len(cs)].signals
<1>. DEFINE n == Len(cs)
            st == Rp(cs)
<1>1. RpRuns(cs, n, st)
  <2>1. \E g : RpRuns(cs, n, g)
    BY RpExists
  <2>. QED BY <2>1 DEF Rp
<1>2. Replay(cs, Thresholds[1]) = st[n].signals
  BY DEF Replay, Rp, RpRuns, RpStart
<1>. HIDE DEF n, st
<1>3. \A i \in 0..n : st[i] = IF i = 0 THEN RpStart ELSE ReplayStep(cs, st[i - 1], i)
  BY <1>1 DEF RpRuns
<1>4. st[0] = RpStart /\ \A i \in 1..n : st[i] = ReplayStep(cs, st[i - 1], i)
  <2>1. n \in Nat
    BY DEF n
  <2>. QED BY <1>3, <2>1
<1>. QED BY <1>2, <1>4 DEF n, st

\* The parts of a step.
RpDecision(cs, s, i) == ShouldBuy(Window(cs, i, ReplayWindow), s.prm, {}, cs[i].close)

RpAsks(cs, s, i) ==
  /\ i >= 3 /\ ReplaySession(CloseTime(cs[i]) + 1) /\ ~NewsBlocked(CloseTime(cs[i]) + 1)
  /\ RpDecision(cs, s, i) # NoEntry

LEMMA RpStepIs ==
    ASSUME NEW cs, NEW s, NEW i
    PROVE  ReplayStep(cs, s, i) =
             IF RpAsks(cs, s, i)
             THEN [signals |-> s.signals \cup {RpDecision(cs, s, i)},
                   prm     |-> RecordEntryCycle(s.prm, RpDecision(cs, s, i))]
             ELSE s
BY DEF ReplayStep, RpAsks, RpDecision

\* What the replay decides with.
LEMMA RpDecides ==
    ASSUME ReplayDay, NEW cs, IsDay(cs), Len(cs) <= MaxCandles, NEW s, NEW i \in 1..Len(cs)
    PROVE  RpDecision(cs, s, i) =
             EntryOf(CurrentPullback(Upto(cs, i), s.prm), Upto(cs, i), s.prm, {}, cs[i].close)
<1>1. Len(cs) \in Nat /\ MaxCandles \in Nat /\ ReplayWindow \in Nat /\ MaxCandles <= ReplayWindow
  BY DayLength, LiveAssumption, WindowAssumption DEF ReplayDay
<1>2. i \in Nat /\ i <= ReplayWindow
  BY <1>1
<1>3. Window(cs, i, ReplayWindow) = Upto(cs, i)
  BY <1>1, <1>2, WindowIsPart
<1>. QED BY <1>3 DEF RpDecision, ShouldBuy

\* A history and a longer one are alike as far as the first goes.
LEMMA UptoStays ==
    ASSUME Day, CloseCandle, NEW i \in 1..Len(candles)
    PROVE  Upto(candles', i) = Upto(candles, i) /\ candles'[i] = candles[i]
<1>. DEFINE n == Len(candles)
            a == Upto(candles, i)
            b == Upto(candles', i)
<1>0. candles \in Seq(Candle) /\ n \in Nat
  BY LenProperties DEF Day
<1>1. Day' /\ Len(candles') = n + 1 /\ Part(candles, candles', 0)
  BY CandleCloses
<1>2. candles' \in Seq(Candle) /\ \A k \in 1..n : candles'[k] = candles[k]
  BY <1>0, <1>1 DEF Day, Part
<1>3. i \in Nat /\ i <= n /\ i <= Len(candles')
  BY <1>0, <1>1
<1>4. a \in Seq(Candle) /\ Len(a) = i /\ \A k \in 1..i : a[k] = candles[k]
  BY <1>0, <1>3, UptoIs
<1>5. b \in Seq(Candle) /\ Len(b) = i /\ \A k \in 1..i : b[k] = candles'[k]
  BY <1>2, <1>3, UptoIs
<1>. HIDE DEF a, b, n
<1>6. \A k \in 1..i : a[k] = b[k]
  <2>1. \A k \in 1..i : k \in 1..n
    BY <1>0, <1>3
  <2>. QED BY <1>2, <1>4, <1>5, <2>1
<1>7. a = [k \in 1..i |-> a[k]] /\ b = [k \in 1..i |-> b[k]]
  BY <1>4, <1>5, LenProperties
<1>8. a = b
  BY <1>6, <1>7
<1>9. i \in 1..n
  BY <1>0, <1>3
<1>. QED BY <1>2, <1>8, <1>9 DEF a, b

\* One more candle leaves the states of the replay as they were.
LEMMA RpStays ==
    ASSUME ReplayDay, Day, CloseCandle
    PROVE  \A i \in 0..Len(candles) : Rp(candles')[i] = Rp(candles)[i]
<1>. DEFINE n == Len(candles)
            b == Rp(candles)
            c == Rp(candles')
            P == {i \in 0..n : c[i] = b[i]}
<1>0. /\ n \in Nat /\ n <= MaxCandles /\ Len(candles') = n + 1 /\ Len(candles') <= MaxCandles
      /\ IsDay(candles) /\ IsDay(candles')
  <2>1. Day' /\ Len(candles') = n + 1 /\ Part(candles, candles', 0)
    BY CandleCloses
  <2>2. IsDay(candles) /\ n \in Nat /\ n <= MaxCandles
    BY DayFacts
  <2>3. Len(candles') <= MaxCandles
    BY <2>1, LiveAssumption DEF Day
  <2>. QED BY <2>1, <2>2, <2>3 DEF Part
<1>1. b[0] = RpStart /\ \A i \in 1..n : b[i] = ReplayStep(candles, b[i - 1], i)
  BY <1>0, RpAre
<1>2. c[0] = RpStart /\ \A i \in 1..(n + 1) : c[i] = ReplayStep(candles', c[i - 1], i)
  <2>1. Len(candles') \in Nat
    BY <1>0
  <2>. QED BY <1>0, <2>1, RpAre
<1>3. ASSUME NEW i \in 1..n, NEW s
      PROVE  ReplayStep(candles', s, i) = ReplayStep(candles, s, i)
  <2>1. Upto(candles', i) = Upto(candles, i) /\ candles'[i] = candles[i]
    BY <1>3, UptoStays
  <2>2. i \in 1..Len(candles')
    BY <1>0
  <2>3. RpDecision(candles', s, i) = RpDecision(candles, s, i)
    <3>1. RpDecision(candles', s, i) =
            EntryOf(CurrentPullback(Upto(candles', i), s.prm), Upto(candles', i), s.prm, {}, candles'[i].close)
      BY <1>0, <2>2, RpDecides
    <3>2. RpDecision(candles, s, i) =
            EntryOf(CurrentPullback(Upto(candles, i), s.prm), Upto(candles, i), s.prm, {}, candles[i].close)
      BY <1>0, <1>3, RpDecides
    <3>. QED BY <2>1, <3>1, <3>2
  <2>4. RpAsks(candles', s, i) <=> RpAsks(candles, s, i)
    BY <2>1, <2>3 DEF RpAsks
  <2>5. PICK x : x = ReplayStep(candles, s, i)
    OBVIOUS
  <2>6. x = IF RpAsks(candles, s, i)
            THEN [signals |-> s.signals \cup {RpDecision(candles, s, i)},
                  prm     |-> RecordEntryCycle(s.prm, RpDecision(candles, s, i))]
            ELSE s
    BY <2>5, RpStepIs
  <2>7. ReplayStep(candles', s, i) =
            IF RpAsks(candles', s, i)
            THEN [signals |-> s.signals \cup {RpDecision(candles', s, i)},
                  prm     |-> RecordEntryCycle(s.prm, RpDecision(candles', s, i))]
            ELSE s
    BY RpStepIs
  <2>. QED BY <2>3, <2>4, <2>5, <2>6, <2>7
<1>4. ASSUME NEW i \in 1..n
      PROVE  c[i] = ReplayStep(candles, c[i - 1], i)
  <2>1. i \in 1..(n + 1)
    BY <1>0
  <2>. QED BY <1>2, <1>3, <2>1
<1>. HIDE DEF b, c, n
<1>5. 0 \in P
  BY <1>0, <1>1, <1>2
<1>6. ASSUME NEW i \in 1..n, i - 1 \in P
      PROVE  i \in P
  <2>1. c[i - 1] = b[i - 1]
    BY <1>6
  <2>2. c[i] = b[i]
    BY <1>1, <1>4, <2>1
  <2>. QED BY <1>0, <2>2
<1>. HIDE DEF P
<1>7. \A i \in 0..n : i \in P
  BY <1>0, <1>5, <1>6, StepInduction
<1>. QED BY <1>7 DEF P, b, c, n

\* What the replay remembers is pullbacks of the day.
RpIn(s, F, T) ==
  /\ s = [signals |-> s.signals, prm |-> s.prm]
  /\ s.prm = [bp |-> Thresholds[1], bounds |-> s.prm.bounds, lastCandle |-> 0, lastLow |-> 0]
  /\ s.prm.bounds \subseteq Confs(F, T)

LEMMA RpInStep ==
    ASSUME ReplayDay, NEW cs, IsDay(cs), Len(cs) <= MaxCandles, NEW s,
           NEW F, F = Found(cs), NEW T, T = cs[Len(cs)].time, RpIn(s, F, T)
    PROVE  RpIn(ReplayStep(cs, s, Len(cs)), F, T)
<1>. DEFINE n == Len(cs)
            d == RpDecision(cs, s, n)
            new == ReplayStep(cs, s, n)
<1>1. new = IF RpAsks(cs, s, n)
            THEN [signals |-> s.signals \cup {d}, prm |-> RecordEntryCycle(s.prm, d)] ELSE s
  BY RpStepIs
<1>2. RpAsks(cs, s, n) => d.conf \in Confs(F, T)
  <2>. SUFFICES ASSUME d # NoEntry PROVE d.conf \in Confs(F, T)
    BY DEF RpAsks
  <2>1. n \in 1..n /\ n \in Nat
    BY DayLength
  <2>2. d = EntryOf(CurrentPullback(cs, s.prm), cs, s.prm, {}, cs[n].close)
    <3>1. Upto(cs, n) = cs
      BY UptoAll
    <3>. QED BY <2>1, <3>1, RpDecides
  <2>3. s.prm.bp = Thresholds[1] /\ s.prm.bounds \subseteq Bounds(cs)
    <3>1. s.prm.bp = Thresholds[1] /\ s.prm.bounds \subseteq Confs(F, T)
      BY DEF RpIn
    <3>2. Confs(F, T) \subseteq Bounds(cs)
      BY DEF Confs, Bounds, ConfTimes, Found
    <3>. QED BY <3>1, <3>2
  <2>. HIDE DEF d
  <2>4. Len(F) \in 1..Len(F) /\ d.conf = T /\ d.conf = F[Len(F)].conf
    BY <2>2, <2>3, BuysNewest DEF ReplayDay
  <2>5. F[Len(F)].conf \in Nat
    BY <2>4, ConfirmedFacts DEF Found
  <2>6. Len(F) \in {k \in 1..Len(F) : F[k].conf <= T}
    BY <2>4, <2>5
  <2>. QED BY <2>4, <2>6 DEF Confs
<1>. HIDE DEF d
<1>3. PICK b, si, pr : s = [signals |-> si, prm |-> pr]
                       /\ pr = [bp |-> Thresholds[1], bounds |-> b, lastCandle |-> 0, lastLow |-> 0]
                       /\ b \subseteq Confs(F, T)
  BY DEF RpIn
<1>4. CASE ~RpAsks(cs, s, n)
  BY <1>1, <1>4
<1>5. CASE RpAsks(cs, s, n)
  <2>1. PICK si2, prm2 : si2 = s.signals \cup {d} /\ prm2 = RecordEntryCycle(s.prm, d)
    OBVIOUS
  <2>2. new = [signals |-> si2, prm |-> prm2]
    BY <1>1, <1>5, <2>1
  <2>3. prm2 = [bp |-> Thresholds[1], bounds |-> b \cup {d.conf}, lastCandle |-> 0, lastLow |-> 0]
    <3>1. prm2 = [pr EXCEPT !.bounds = @ \cup {d.conf}]
      BY <1>3, <2>1 DEF RecordEntryCycle
    <3>. QED BY <1>3, <3>1
  <2>. HIDE DEF new
  <2>4. new.signals = si2 /\ new.prm = prm2
    BY <2>2
  <2>5. new.prm.bounds = b \cup {d.conf}
    BY <2>3, <2>4
  <2>. QED BY <1>2, <1>3, <1>5, <2>2, <2>3, <2>4, <2>5 DEF RpIn, new
<1>. QED BY <1>4, <1>5

\* The replay before and after the last candle.
RpBefore == Rp(candles)[Len(candles) - 1]

RpAfter == Rp(candles)[Len(candles)]

ReplayInv ==
  /\ Len(candles) >= 2
  /\ Len(candles) = 2 => Found(candles) = << >>
  /\ RpIn(RpAfter, Found(candles), LastOne.time)
  /\ RpIn(RpBefore, Found(candles), LastOne.time - Bar)

LEMMA RpAfterIs ==
    ASSUME Day
    PROVE  RpAfter = ReplayStep(candles, RpBefore, Len(candles))
<1>1. Len(candles) \in Nat /\ Len(candles) \in 1..Len(candles)
  BY DayFacts
<1>2. \A i \in 1..Len(candles) : Rp(candles)[i] = ReplayStep(candles, Rp(candles)[i - 1], i)
  BY <1>1, RpAre
<1>. QED BY <1>1, <1>2 DEF RpAfter, RpBefore

\* Before the first pullback the replay does nothing.
LEMMA RpWaits ==
    ASSUME ReplayDay, NEW cs, IsDay(cs), Len(cs) <= MaxCandles, Found(cs) = << >>
    PROVE  \A i \in 0..Len(cs) : Rp(cs)[i] = RpStart
<1>. DEFINE n == Len(cs)
            b == Rp(cs)
            P == {i \in 0..n : b[i] = RpStart}
<1>0. n \in Nat
  BY DayLength
<1>1. b[0] = RpStart /\ \A i \in 1..n : b[i] = ReplayStep(cs, b[i - 1], i)
  BY <1>0, RpAre
<1>2. ASSUME NEW i \in 1..n
      PROVE  ReplayStep(cs, RpStart, i) = RpStart
  <2>1. RpDecision(cs, RpStart, i) = NoEntry
    <3>1. PICK w : w = Upto(cs, i)
      OBVIOUS
    <3>2. IsDay(w)
      BY <3>1, UptoIsDay
    <3>3. Found(w) = << >>
      BY <3>1, NoneBefore DEF ReplayDay, WholeDay
    <3>4. PICK d : d = RpDecision(cs, RpStart, i)
      OBVIOUS
    <3>5. PICK prm : prm = RpStart.prm
      OBVIOUS
    <3>6. d = EntryOf(CurrentPullback(w, prm), w, prm, {}, cs[i].close)
      BY <3>1, <3>4, <3>5, RpDecides
    <3>7. prm.bp = Thresholds[1] /\ prm.bounds \subseteq Bounds(w)
      BY <3>5 DEF RpStart, CleanParams
    <3>8. d # NoEntry => Len(Found(w)) \in 1..Len(Found(w))
      BY <3>2, <3>6, <3>7, BuysNewest DEF ReplayDay
    <3>9. Len(Found(w)) = 0
      BY <3>3
    <3>. QED BY <3>4, <3>8, <3>9
  <2>2. ~RpAsks(cs, RpStart, i)
    BY <2>1 DEF RpAsks
  <2>. QED BY <2>2, RpStepIs
<1>. HIDE DEF n, b
<1>3. 0 \in P
  BY <1>0, <1>1
<1>4. ASSUME NEW i \in 1..n, i - 1 \in P
      PROVE  i \in P
  <2>1. b[i - 1] = RpStart /\ i \in 0..n
    BY <1>0, <1>4
  <2>2. b[i] = RpStart
    BY <1>1, <1>2, <2>1
  <2>. QED BY <2>1, <2>2
<1>. HIDE DEF P
<1>5. \A i \in 0..n : i \in P
  BY <1>0, <1>3, <1>4, StepInduction
<1>. QED BY <1>5 DEF P, n, b

\* What it remembers in the beginning, which is nothing,
LEMMA RpBegins == ASSUME ReplayDay, Init PROVE ReplayInv
<1>1. Day
  BY DayStarts
<1>2. /\ IsDay(candles) /\ Len(candles) \in Nat /\ Len(candles) <= MaxCandles /\ Len(candles) >= 1
  BY <1>1, DayFacts
<1>3. Len(candles) >= 2 /\ Found(candles) = << >>
  BY DEF Init, ReplayDay
<1>4. \A i \in 0..Len(candles) : Rp(candles)[i] = RpStart
  BY <1>2, <1>3, RpWaits
<1>5. RpBefore = RpStart /\ RpAfter = RpStart
  BY <1>2, <1>4 DEF RpBefore, RpAfter
<1>6. \A F, T : RpIn(RpStart, F, T)
  BY DEF RpIn, RpStart, CleanParams
<1>. QED BY <1>3, <1>5, <1>6 DEF ReplayInv

\* and with every candle.  No signal is lost.
LEMMA RpGoesOn ==
    ASSUME ReplayDay, Day, ReplayInv, CloseCandle
    PROVE  ReplayInv' /\ RpAfter.signals \subseteq RpAfter'.signals
<1>. DEFINE n == Len(candles)
            T == 4 * n
            U == 4 * (n + 1)
            F == Found(candles)
            G == Found(candles')
<1>1. Day' /\ Len(candles') = n + 1 /\ Part(candles, candles', 0) /\ n \in Nat /\ n >= 2
  BY CandleCloses, DayFacts DEF ReplayInv
<1>2. RpBefore' = RpAfter
  <2>1. n \in 0..n
    BY <1>1
  <2>2. Rp(candles')[n] = Rp(candles)[n]
    BY <2>1, RpStays
  <2>3. Len(candles') - 1 = n
    BY <1>1
  <2>. QED BY <2>2, <2>3 DEF RpBefore, RpAfter
<1>3. /\ IsDay(candles') /\ Len(candles') <= MaxCandles
      /\ candles'[Len(candles')].time = U /\ LastOne.time = T /\ IsDay(candles)
  <2>1. (IsDay(candles) /\ LastOne.time = 4 * Len(candles))
    BY DayFacts
  <2>2. IsDay(candles')
    BY <1>1 DEF Part
  <2>3. Len(candles') \in 1..Len(candles') /\ Len(candles') <= MaxCandles
    BY <1>1, LiveAssumption DEF Day
  <2>4. candles'[Len(candles')].time = Bar * Len(candles')
    BY <1>1, <2>3 DEF Day
  <2>. QED BY <1>1, <2>1, <2>2, <2>3, <2>4 DEF Bar
<1>4. F \in Seq(Pull) /\ G \in Seq(Pull) /\ IsPrefix(F, G)
  <2>1. F \in Seq(Pull) /\ G \in Seq(Pull)
    BY <1>3, ConfirmedFacts DEF Found
  <2>2. IsPrefix(F, G)
    BY <1>1, OneMoreCandle DEF Found, ReplayDay, WholeDay
  <2>. QED BY <2>1, <2>2
<1>5. RpIn(RpAfter, F, T)
  BY <1>3 DEF ReplayInv
<1>6. T \in Int /\ U \in Int /\ T <= T /\ T <= U /\ U - Bar = T
  BY <1>1 DEF Bar
<1>. HIDE DEF F, G, T, U
<1>7. RpIn(RpAfter, G, T) /\ RpIn(RpAfter, G, U)
  <2>1. Confs(F, T) \subseteq Confs(G, T) /\ Confs(F, T) \subseteq Confs(G, U)
    BY <1>4, <1>6, ConfsGrow
  <2>. QED BY <1>5, <2>1 DEF RpIn
<1>8. PICK s : s = RpBefore' /\ s = RpAfter
  BY <1>2
<1>9. RpAfter' = ReplayStep(candles', s, Len(candles'))
  <2>1. Len(candles') \in Nat /\ Len(candles') \in 1..Len(candles')
    BY <1>1
  <2>2. \A i \in 1..Len(candles') : Rp(candles')[i] = ReplayStep(candles', Rp(candles')[i - 1], i)
    BY <2>1, RpAre
  <2>. QED BY <1>8, <2>1, <2>2 DEF RpAfter, RpBefore
<1>10. RpIn(ReplayStep(candles', s, Len(candles')), G, U)
  <2>1. U = candles'[Len(candles')].time /\ RpIn(s, G, U)
    BY <1>3, <1>7, <1>8
  <2>. QED BY <1>3, <2>1, RpInStep DEF G
<1>11. LastOne' = candles'[Len(candles')] /\ LastOne'.time = U /\ Found(candles') = G
  BY <1>3 DEF LastOne, G
<1>12. RpIn(RpAfter', G, U) /\ RpIn(RpBefore', G, U - Bar)
  BY <1>6, <1>7, <1>8, <1>9, <1>10
<1>13. Len(candles') >= 2 /\ Len(candles') # 2
  BY <1>1
<1>14. s.signals \subseteq ReplayStep(candles', s, Len(candles')).signals
  <2>1. PICK x, d : x = ReplayStep(candles', s, Len(candles')) /\ d = RpDecision(candles', s, Len(candles'))
    OBVIOUS
  <2>2. x = IF RpAsks(candles', s, Len(candles'))
            THEN [signals |-> s.signals \cup {d}, prm |-> RecordEntryCycle(s.prm, d)] ELSE s
    BY <2>1, RpStepIs
  <2>. QED BY <2>1, <2>2
<1>. QED BY <1>8, <1>9, <1>11, <1>12, <1>13, <1>14 DEF ReplayInv

\* As long as nothing happens that an offline run cannot know, runs go on in an
\* unlocked market and no order is in doubt.
CalmInv ==
  /\ params.override = "NONE"
  /\ \A r \in Runs : run[r].at # "idle" => AssetUnlocked(candles, "NONE", Now) /\ run[r].params.override = "NONE"
  /\ \A i \in 1..Len(signals) : signals[i].status \in {"REJECTED", "SENT", "EXECUTED"}

ShownIn(all, x) == \E s \in all : s.conf = x.conf /\ s.low = x.low

\* What was ordered and what was bought the replay has signalled.
ShownInv ==
  /\ \A i \in 1..Len(entries) : ShownIn(RpAfter.signals, entries[i])
  /\ \A i \in 1..Len(signals) : signals[i].status = "SENT" => ShownIn(RpAfter.signals, signals[i])

ReplayDayInv == steady => LiveInv /\ CalmInv /\ ReplayInv /\ ShownInv

\* An unlocked market is one in which the replay looks for an entry.
LEMMA UnlockedReplays ==
    ASSUME Day, AssetUnlocked(candles, "NONE", Now)
    PROVE  ReplaySession(CloseTime(LastOne) + 1) /\ ~NewsBlocked(CloseTime(LastOne) + 1)
<1>1. PICK n \in Nat : CloseTime(LastOne) = 4 * n + 4 /\ Now = 4 * n + 5
  BY DayFacts
<1>2. InSession(Now) /\ ~NewsBlocked(Now)
  BY DEF AssetUnlocked
<1>3. PICK s, e \in Nat : s = Session.start /\ e = Session.end
  BY SessionAssumption
<1>4. CloseTime(LastOne) + 1 = Now
  BY <1>1
<1>5. ReplaySession(Now)
  BY <1>1, <1>2, <1>3 DEF InSession, ReplaySession
<1>. QED BY <1>2, <1>4, <1>5

\* What a run decides to buy, whatever positions it knows, the replay signals.
LEMMA RunIsShown ==
    ASSUME ReplayDay, Day, ReplayInv, AssetUnlocked(candles, "NONE", Now), NEW prm \in ParamSet(candles), NEW known,
           NEW d, d = ShouldBuy(Window300, prm, known, LastClose), d # NoEntry
    PROVE  ShownIn(RpAfter.signals, d)
<1>. DEFINE F == Found(candles)
            T == LastOne.time
            n == Len(candles)
<1>1. /\ IsDay(candles) /\ n \in 1..n /\ n \in Nat /\ n <= MaxCandles /\ LastClose = candles[n].close
      /\ T = candles[n].time /\ LastOne = candles[n]
  BY DayFacts DEF LastOne
<1>2. PICK p : p = CurrentPullback(candles, prm)
  OBVIOUS
<1>3. d = EntryOf(p, candles, prm, known, LastClose)
  <2>1. Window300 = candles
    BY WindowIsDay DEF ReplayDay, WholeDay
  <2>. QED BY <1>2, <2>1 DEF ShouldBuy
<1>4. Setup(p, candles, known, LastClose) /\ d = SetupEntry(p, candles, LastClose)
  <2>1. EntryOf(p, candles, prm, known, LastClose) =
          IF Setup(p, candles, known, LastClose) /\ prm.lastCandle # candles[Len(candles)].time
             /\ prm.lastLow # p.lowTime
          THEN SetupEntry(p, candles, LastClose) ELSE NoEntry
    BY EntryIs
  <2>. QED BY <1>3, <2>1
<1>5. Len(F) \in 1..Len(F) /\ p = F[Len(F)] /\ d.conf = T /\ d.conf = F[Len(F)].conf
  <2>1. prm.bp = Thresholds[1] /\ prm.bounds \subseteq Bounds(candles)
    BY DEF ParamSet
  <2>. QED BY <1>1, <1>2, <1>3, <2>1, BuysNewest DEF ReplayDay
<1>. HIDE DEF n
<1>6. Setup(p, candles, {}, LastClose)
  <2>1. SpacingAllows({}, LastClose)
    BY DEF SpacingAllows
  <2>. QED BY <1>4, <2>1 DEF Setup
<1>7. PICK b, q : /\ q = RpBefore.prm /\ q = [bp |-> Thresholds[1], bounds |-> b, lastCandle |-> 0, lastLow |-> 0]
                  /\ b \subseteq Confs(F, T - Bar)
  BY DEF ReplayInv, RpIn
<1>8. RpDecision(candles, RpBefore, n) = d
  <2>1. Upto(candles, n) = candles
    BY <1>1, UptoAll DEF n
  <2>2. RpDecision(candles, RpBefore, n) =
          EntryOf(CurrentPullback(Upto(candles, n), RpBefore.prm), Upto(candles, n), RpBefore.prm, {}, candles[n].close)
    BY <1>1, RpDecides DEF n
  <2>3. RpDecision(candles, RpBefore, n) = EntryOf(CurrentPullback(candles, q), candles, q, {}, LastClose)
    BY <1>1, <1>7, <2>1, <2>2
  <2>4. p = Newest(F, T)
    <3>1. Len(F) \in Nat /\ Len(F) > 0
      BY <1>5, FoundFacts
    <3>. QED BY <1>5, <3>1 DEF Newest
  <2>5. EntryOf(CurrentPullback(candles, q), candles, q, {}, LastClose)
          = IF Setup(p, candles, {}, LastClose) THEN SetupEntry(p, candles, LastClose) ELSE NoEntry
    <3>. HIDE DEF F, T
    <3>. QED BY <1>7, <2>4, CleanIs DEF ReplayDay, F, T
  <2>. QED BY <1>4, <1>6, <2>3, <2>5
<1>9. n >= 3
  <2>1. n >= 2 /\ (n = 2 => F = << >>)
    BY DEF ReplayInv, n
  <2>2. F # << >>
    <3>1. Len(F) \in Nat /\ Len(F) > 0
      BY <1>5, FoundFacts
    <3>. HIDE DEF F
    <3>. QED BY <3>1
  <2>. QED BY <1>1, <2>1, <2>2
<1>10. RpAsks(candles, RpBefore, n)
  BY <1>1, <1>8, <1>9, UnlockedReplays DEF RpAsks
<1>11. RpAfter = [signals |-> RpBefore.signals \cup {d}, prm |-> RecordEntryCycle(RpBefore.prm, d)]
  <2>1. RpAfter = ReplayStep(candles, RpBefore, n)
    BY RpAfterIs DEF n
  <2>2. ReplayStep(candles, RpBefore, n) =
          IF RpAsks(candles, RpBefore, n)
          THEN [signals |-> RpBefore.signals \cup {RpDecision(candles, RpBefore, n)},
                prm     |-> RecordEntryCycle(RpBefore.prm, RpDecision(candles, RpBefore, n))]
          ELSE RpBefore
    BY RpStepIs
  <2>. QED BY <1>8, <1>10, <2>1, <2>2
<1>12. d \in RpAfter.signals
  BY <1>11
<1>. QED BY <1>12 DEF ShownIn

\* As long as the candles stay, the replay stays.
LEMMA SameReplay ==
    ASSUME candles' = candles
    PROVE  RpAfter' = RpAfter /\ (ReplayInv => ReplayInv') /\ Now' = Now
BY DEF RpAfter, RpBefore, ReplayInv, LastOne, Now

\* When neither a signal nor an entry changes.
LEMMA QuietShown ==
    ASSUME CalmInv, ShownInv, UNCHANGED <<candles, signals, entries, params>>,
           \A r \in Runs : run'[r].at # "idle" =>
             AssetUnlocked(candles, "NONE", Now) /\ run'[r].params.override = "NONE"
    PROVE  CalmInv' /\ ShownInv'
<1>1. RpAfter' = RpAfter /\ Now' = Now
  BY SameReplay
<1>2. CalmInv'
  BY <1>1 DEF CalmInv
<1>3. ShownInv'
  BY <1>1 DEF ShownInv
<1>. QED BY <1>2, <1>3

\* A candle closes: what was signalled is signalled still.
LEMMA CloseShown ==
    ASSUME ReplayDay, Day, ReplayInv, CalmInv, ShownInv, CloseCandle, steady'
    PROVE  CalmInv' /\ ShownInv'
<1>1. UNCHANGED <<params, signals, run, entries>> /\ \A r \in Runs : run[r].at = "idle"
  BY DEF CloseCandle
<1>2. \A x : ShownIn(RpAfter.signals, x) => ShownIn(RpAfter'.signals, x)
  BY RpGoesOn DEF ShownIn
<1>3. CalmInv'
  BY <1>1 DEF CalmInv
<1>4. ShownInv'
  BY <1>1, <1>2 DEF ShownInv
<1>. QED BY <1>3, <1>4

\* A run begins, or gives up.
LEMMA LoadShown ==
    ASSUME LiveInv, CalmInv, ShownInv, NEW r \in Runs, Load(r) \/ LockTimeout(r)
    PROVE  CalmInv' /\ ShownInv'
<1>0. run \in [Runs -> RunSet(candles)]
  BY DEF LiveInv
<1>1. UNCHANGED <<candles, signals, entries, params>>
  BY DEF Load, LockTimeout
<1>2. PICK x : run' = [run EXCEPT ![r] = x] /\
               (x.at # "idle" => AssetUnlocked(candles, "NONE", Now) /\ x.params.override = "NONE")
  <2>1. CASE Load(r)
    <3>. DEFINE x == [at |-> "waiting", params |-> params, signal |-> 0]
    <3>1. run' = [run EXCEPT ![r] = x] /\ AssetUnlocked(candles, params.override, Now) /\ params.override = "NONE"
      BY <2>1 DEF Load, CalmInv
    <3>2. x.params.override = "NONE" /\ AssetUnlocked(candles, "NONE", Now)
      BY <3>1
    <3>. QED BY <3>1, <3>2
  <2>2. CASE LockTimeout(r)
    <3>1. run' = [run EXCEPT ![r] = Idle]
      BY <2>2 DEF LockTimeout, Return
    <3>2. Idle.at = "idle"
      BY DEF Idle
    <3>. QED BY <3>1, <3>2
  <2>. QED BY <2>1, <2>2
<1>3. \A q \in Runs : run'[q] = IF q = r THEN x ELSE run[q]
  BY <1>0, <1>2
<1>4. \A q \in Runs : run'[q].at # "idle" =>
        AssetUnlocked(candles, "NONE", Now) /\ run'[q].params.override = "NONE"
  BY <1>2, <1>3 DEF CalmInv
<1>. QED BY <1>1, <1>4, QuietShown

\* A run decides: what it orders the replay has signalled on this candle.
LEMMA EvaluateShown ==
    ASSUME ReplayDay, LiveInv, CalmInv, ReplayInv, ShownInv, NEW r \in Runs, Evaluate(r)
    PROVE  CalmInv' /\ ShownInv'
<1>. DEFINE prm == run[r].params
            d == ShouldBuy(Window300, prm, Known, LastClose)
            size == Fitting(d.mult, PlannedEquivalents)
            status == IF ~DuplicateSetup(d) /\ size > 0 THEN "SENT" ELSE "REJECTED"
            marked == [prm EXCEPT !.lastCandle = d.conf, !.lastLow = d.low]
            s == [conf |-> d.conf, low |-> d.low, zone |-> d.zone, peak |-> d.peak,
                  mult |-> size, status |-> status, filled |-> FALSE]
            n == Len(signals)
<1>0. /\ Day /\ SignalsOfDay /\ run \in [Runs -> RunSet(candles)] /\ prm \in ParamSet(candles)
      /\ n \in Nat /\ DOMAIN signals = 1..n /\ IsSeq(signals)
  BY DEF LiveInv, RunSet, SignalsOfDay, IsSeq
<1>1. UNCHANGED <<candles, entries>> /\ run[r].at = "waiting"
  BY DEF Evaluate
<1>2. RpAfter' = RpAfter /\ Now' = Now
  BY <1>1, SameReplay
<1>3. AssetUnlocked(candles, "NONE", Now) /\ prm.override = "NONE"
  BY <1>1 DEF CalmInv
<1>4. CASE d = NoEntry
  <2>1. UNCHANGED <<params, signals>> /\ run' = [run EXCEPT ![r] = Idle] /\ Idle.at = "idle"
    BY <1>4 DEF Evaluate, Return, Idle
  <2>. HIDE DEF d, prm
  <2>2. \A q \in Runs : run'[q] = IF q = r THEN Idle ELSE run[q]
    BY <1>0, <2>1
  <2>3. \A q \in Runs : run'[q].at # "idle" =>
          AssetUnlocked(candles, "NONE", Now) /\ run'[q].params.override = "NONE"
    BY <2>1, <2>2 DEF CalmInv
  <2>. QED BY <1>1, <2>1, <2>3, QuietShown
<1>5. CASE d # NoEntry
  <2>1. /\ params' = marked /\ signals' = Append(signals, s)
        /\ run' = [run EXCEPT ![r] = IF status = "SENT"
                                     THEN [at |-> "ordering", params |-> marked, signal |-> Len(signals')]
                                     ELSE Idle]
    BY <1>5 DEF Evaluate
  <2>2. marked.override = "NONE"
    <3>1. PICK x \in ParamSet(candles) : x = prm
      BY <1>0
    <3>2. [x EXCEPT !.lastCandle = d.conf, !.lastLow = d.low].override = x.override
      BY DEF ParamSet
    <3>. QED BY <1>3, <3>1, <3>2
  <2>3. ShownIn(RpAfter.signals, d)
    BY <1>0, <1>3, <1>5, RunIsShown
  <2>4. s.conf = d.conf /\ s.low = d.low /\ s.status = status /\ status \in {"SENT", "REJECTED"}
    OBVIOUS
  <2>. HIDE DEF d, prm, marked, s, status
  <2>5. PICK x : /\ run' = [run EXCEPT ![r] = x]
                 /\ x.at # "idle" => x.params.override = "NONE"
    <3>1. [at |-> "ordering", params |-> marked, signal |-> Len(signals')].params.override = "NONE"
      BY <2>2
    <3>2. Idle.at = "idle"
      BY DEF Idle
    <3>. QED BY <2>1, <3>1, <3>2
  <2>6. \A q \in Runs : run'[q] = IF q = r THEN x ELSE run[q]
    BY <1>0, <2>5
  <2>7. \A q \in Runs : run'[q].at # "idle" =>
          AssetUnlocked(candles, "NONE", Now) /\ run'[q].params.override = "NONE"
    BY <1>3, <2>5, <2>6 DEF CalmInv
  <2>8. Len(signals') = n + 1 /\ \A j \in 1..(n + 1) : signals'[j] = IF j = n + 1 THEN s ELSE signals[j]
    BY <1>0, <2>1, AppendIs
  <2>9. \A j \in 1..(n + 1) : j = n + 1 \/ j \in 1..n
    BY <1>0
  <2>10. CalmInv'
    <3>1. \A j \in 1..Len(signals') : signals'[j].status \in {"REJECTED", "SENT", "EXECUTED"}
      BY <2>4, <2>8, <2>9 DEF CalmInv
    <3>2. \A q \in Runs : run'[q].at # "idle" =>
            AssetUnlocked(candles', "NONE", Now') /\ run'[q].params.override = "NONE"
      BY <1>1, <1>2, <2>7
    <3>3. params'.override = "NONE"
      BY <2>1, <2>2
    <3>. QED BY <3>1, <3>2, <3>3 DEF CalmInv
  <2>11. ShownInv'
    <3>1. ASSUME NEW j \in 1..Len(signals'), signals'[j].status = "SENT"
          PROVE  ShownIn(RpAfter.signals, signals'[j])
      <4>1. CASE j = n + 1
        BY <2>3, <2>4, <2>8, <4>1 DEF ShownIn
      <4>2. CASE j \in 1..n
        <5>1. signals'[j] = signals[j]
          BY <1>0, <2>8, <4>2
        <5>. QED BY <3>1, <4>2, <5>1 DEF ShownInv
      <4>. QED BY <2>8, <2>9, <4>1, <4>2
    <3>. QED BY <1>1, <1>2, <3>1 DEF ShownInv
  <2>. QED BY <2>10, <2>11
<1>. QED BY <1>4, <1>5

\* An order is executed: it was signalled when it was decided.
LEMMA ExecutedShown ==
    ASSUME LiveInv, CalmInv, ShownInv, NEW r \in Runs, Executed(r)
    PROVE  CalmInv' /\ ShownInv'
<1>. DEFINE i == run[r].signal
            p == PositionOf(signals[i], signals[i].mult)
            n == Len(entries)
<1>0. /\ SignalsOfDay /\ OneSetup /\ Orders /\ run \in [Runs -> RunSet(candles)] /\ run[r].at = "ordering"
      /\ IsSeq(signals) /\ IsSeq(entries) /\ n \in Nat
  BY DEF LiveInv, Executed, SignalsOfDay, EntriesHaveSignals, IsSeq
<1>1. i \in 1..Len(signals) /\ signals[i].status = "SENT"
  BY <1>0 DEF Orders, Ahead
<1>2. /\ SetStatus(i, "EXECUTED") /\ candles' = candles /\ Return(r)
      /\ params' = [run[r].params EXCEPT !.bounds = @ \cup {signals[i].conf}]
  BY DEF Executed
<1>3. entries' = Append(entries, p) /\ p.conf = signals[i].conf /\ p.low = signals[i].low
  BY DEF Executed, Fill, PositionOf
<1>4. ShownIn(RpAfter.signals, p)
  <2>1. ShownIn(RpAfter.signals, signals[i])
    BY <1>1 DEF ShownInv
  <2>. QED BY <1>3, <2>1 DEF ShownIn
<1>5. RpAfter' = RpAfter /\ Now' = Now
  BY <1>2, SameReplay
<1>. HIDE DEF i, p
<1>6. PICK e : Updated(i, e) /\ e.status = "EXECUTED"
  BY <1>0, <1>1, <1>2, StatusIsUpdate DEF Statuses
<1>7. /\ Len(signals') = Len(signals)
      /\ \A j \in 1..Len(signals) : signals'[j] = IF j = i THEN e ELSE signals[j]
  BY <1>0, <1>1, <1>2, <1>6, UpdateKeeps
<1>8. params'.override = "NONE"
  <2>1. PICK x \in ParamSet(candles) : x = run[r].params
    BY <1>0 DEF RunSet
  <2>2. x.override = "NONE"
    BY <1>0, <2>1 DEF CalmInv
  <2>3. PICK c : c = signals[i].conf
    OBVIOUS
  <2>4. [x EXCEPT !.bounds = @ \cup {c}].override = x.override
    BY DEF ParamSet
  <2>. QED BY <1>2, <2>1, <2>2, <2>3, <2>4
<1>9. CalmInv'
  <2>1. run' = [run EXCEPT ![r] = Idle] /\ Idle.at = "idle"
    BY <1>2 DEF Return, Idle
  <2>2. \A q \in Runs : run'[q] = IF q = r THEN Idle ELSE run[q]
    BY <1>0, <2>1
  <2>3. \A q \in Runs : run'[q].at # "idle" =>
          AssetUnlocked(candles', "NONE", Now') /\ run'[q].params.override = "NONE"
    BY <1>2, <1>5, <2>1, <2>2 DEF CalmInv
  <2>4. \A j \in 1..Len(signals') : signals'[j].status \in {"REJECTED", "SENT", "EXECUTED"}
    BY <1>6, <1>7 DEF CalmInv
  <2>. QED BY <1>8, <2>3, <2>4 DEF CalmInv
<1>10. ShownInv'
  <2>1. Len(entries') = n + 1 /\ \A j \in 1..(n + 1) : entries'[j] = IF j = n + 1 THEN p ELSE entries[j]
    BY <1>0, <1>3, AppendIs
  <2>2. \A j \in 1..Len(entries') : ShownIn(RpAfter.signals, entries'[j])
    <3>1. \A j \in 1..(n + 1) : j = n + 1 \/ j \in 1..n
      BY <1>0
    <3>. QED BY <1>0, <1>4, <2>1, <3>1 DEF ShownInv
  <2>3. \A j \in 1..Len(signals') : signals'[j].status = "SENT" => ShownIn(RpAfter.signals, signals'[j])
    BY <1>6, <1>7 DEF ShownInv
  <2>. QED BY <1>5, <2>2, <2>3 DEF ShownInv
<1>. QED BY <1>9, <1>10

\* The invariant holds in the beginning,
LEMMA ReplayBegins == ASSUME ReplayDay, Init PROVE ReplayDayInv
<1>1. LiveInv /\ ReplayInv
  BY LiveStarts, RpBegins
<1>2. /\ signals = << >> /\ entries = << >> /\ params.override = "NONE" /\ \A r \in Runs : run[r].at = "idle"
  BY DEF Init, Idle, NoParams
<1>3. 1..Len(signals) = {} /\ 1..Len(entries) = {}
  BY <1>2
<1>4. CalmInv
  BY <1>2, <1>3 DEF CalmInv
<1>5. ShownInv
  BY <1>3 DEF ShownInv
<1>. QED BY <1>1, <1>4, <1>5 DEF ReplayDayInv

\* after every step,
LEMMA ReplayGoesOn == ASSUME ReplayDay, ReplayDayInv, [Next]_vars PROVE ReplayDayInv'
<1>. SUFFICES ASSUME steady' PROVE LiveInv' /\ CalmInv' /\ ReplayInv' /\ ShownInv'
  BY DEF ReplayDayInv
<1>1. ~ManualUnlock /\ ~SaveForm /\ \A r \in Runs : ~Failed(r) /\ ~Ambiguous(r)
  BY DEF ManualUnlock, SaveForm, Failed, Ambiguous, Disturb
<1>2. steady
  BY <1>1 DEF Next, vars, CloseCandle, StayLocked, Load, LockTimeout, Evaluate, Executed, SyncExecuted, SyncFailed
<1>3. LiveInv /\ CalmInv /\ ReplayInv /\ ShownInv /\ Day /\ SignalsOfDay
  BY <1>2 DEF ReplayDayInv, LiveInv
<1>4. LiveInv'
  BY <1>1, <1>3, LiveGoesOn DEF ReplayDay
<1>5. ReplayInv'
  <2>1. CASE CloseCandle
    BY <1>3, <2>1, RpGoesOn
  <2>2. CASE ~CloseCandle
    BY <1>3, <2>2, CandlesStay, SameReplay
  <2>. QED BY <2>1, <2>2
<1>6. CalmInv' /\ ShownInv'
  <2>1. CASE CloseCandle
    BY <1>3, <2>1, CloseShown
  <2>2. CASE StayLocked \/ UNCHANGED vars
    <3>1. UNCHANGED <<candles, signals, entries, params, run>>
      BY <2>2 DEF StayLocked, vars
    <3>2. \A r \in Runs : run'[r].at # "idle" =>
            AssetUnlocked(candles, "NONE", Now) /\ run'[r].params.override = "NONE"
      BY <1>3, <3>1 DEF CalmInv
    <3>. QED BY <1>3, <3>1, <3>2, QuietShown
  <2>3. ASSUME NEW r \in Runs, Load(r) \/ LockTimeout(r) \/ Evaluate(r) \/ Executed(r)
        PROVE  CalmInv' /\ ShownInv'
    BY <1>3, <2>3, LoadShown, EvaluateShown, ExecutedShown
  <2>4. ASSUME NEW i \in DOMAIN signals, SyncExecuted(i) \/ SyncFailed(i)
        PROVE  FALSE
    <3>1. signals[i].status = "RECONCILING"
      BY <2>4 DEF SyncExecuted, SyncFailed
    <3>2. i \in 1..Len(signals)
      BY <1>3 DEF SignalsOfDay, IsSeq
    <3>. QED BY <1>3, <3>1, <3>2 DEF CalmInv
  <2>. QED BY <1>1, <2>1, <2>2, <2>3, <2>4 DEF Next
<1>. QED BY <1>4, <1>5, <1>6

\* and is what was to be shown.
LEMMA ReplayIsDone == ASSUME ReplayDay, ReplayDayInv PROVE ReplayShowsTheEntries
<1>. SUFFICES ASSUME steady, NEW i \in DOMAIN entries
              PROVE  ShownIn(Replay(candles, params.bp), entries[i])
  BY DEF ReplayShowsTheEntries, ShownIn
<1>1. LiveInv /\ ShownInv /\ Day
  BY DEF ReplayDayInv, LiveInv
<1>2. i \in 1..Len(entries)
  BY <1>1 DEF LiveInv, EntriesHaveSignals, IsSeq
<1>3. params.bp = Thresholds[1]
  BY <1>1 DEF LiveInv, ParamSet
<1>4. Replay(candles, Thresholds[1]) = RpAfter.signals
  <2>1. Len(candles) \in Nat
    BY <1>1, DayFacts
  <2>. QED BY <2>1, RpAre DEF RpAfter
<1>. QED BY <1>1, <1>2, <1>3, <1>4 DEF ShownInv

(* For every day, every detector and any number of runs that satisfy the        *)
(* premises: as long as nothing happens that an offline run cannot know, the    *)
(* replay shows a signal on the candle and at the low of every entry that was   *)
(* made (torum_v1_simulator.py against runner.py).                                 *)
THEOREM ReplayShowsWhatWasBought == ASSUME ReplayDay PROVE Spec => []ReplayShowsTheEntries
<1>1. Init => ReplayDayInv
  BY ReplayBegins
<1>2. ReplayDayInv /\ [Next]_vars => ReplayDayInv'
  BY ReplayGoesOn
<1>3. ReplayDayInv => ReplayShowsTheEntries
  BY ReplayIsDone
<1>. QED BY <1>1, <1>2, <1>3, PTL DEF Spec
==============================================================================
