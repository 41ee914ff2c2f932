------------------------------- MODULE TorumV1 -------------------------------
(***************************************************************************)
(* The live side of Torum V1: candles close, runs of the strategy load     *)
(* their configuration, wait for the lock of the symbol, decide, and have  *)
(* an order executed, refused or left in doubt.                            *)
(*                                                                         *)
(* What connects two entries is a JSON column, StrategyConfig.params_json: *)
(* the marks of the last signal and the confirmation times of the executed *)
(* entries.  Runs, the position sync, the manual unlock and the editor all *)
(* write the whole value.  A run writes the copy it loaded before it had   *)
(* the lock (the session keeps loaded rows across commits).                *)
(*                                                                         *)
(* Sources: strategies/runner.py, strategies/plugins/torum_v1_strategy.py, *)
(* strategies/routes.py, strategies/service.py, positions/service.py.      *)
(***************************************************************************)
EXTENDS TorumBacktest, SequencesExt

CONSTANTS
  Runs,          \* runs of the strategy that may overlap
  Shapes,        \* the candles that may follow: [body, up, down]
  Mornings,      \* the candles the day may begin with
  LiveWindow,    \* candles the context of a run holds
  Thresholds,    \* entry thresholds the user may choose, the first in force at the start
  Kinds,         \* bound: the disturbances that happen, of "fault", "override" and "edit"
  MaxCandles,    \* bound: candles of the history
  MaxSpent       \* bound: disturbances of all kinds

ASSUME LiveAssumption ==
  /\ LiveWindow \in Nat \ {0}
  /\ Thresholds # << >>
  /\ Shapes \subseteq [body : Int, up : Nat, down : Nat]
  /\ \A m \in Mornings :
       /\ m \in Seq([time : Nat, open : Int, close : Int, high : Int, low : Int])
       /\ Len(m) \in 1..MaxCandles
       /\ \A i \in DOMAIN m : m[i].time = Bar * i
  /\ Kinds \subseteq {"fault", "override", "edit"}
  /\ {MaxCandles, MaxSpent} \subseteq Nat

VARIABLES
  candles,    \* the closed M5 candles
  due,        \* the last candle has not been evaluated yet
  params,     \* the stored JSON: [bp, bounds, lastCandle, lastLow, override]
  signals,    \* the saved entry signals
  open,       \* the positions of the account
  run,        \* what each run has loaded and where it is
  entries,    \* the entries the broker has filled, in this order
  steady,     \* nothing has happened that an offline run cannot know
  forms,      \* what an open editor may show: every value of this revision
  spent       \* refused and doubtful orders, manual unlocks and saves so far

vars == <<candles, due, params, signals, open, run, entries, steady, forms, spent>>

Now == Bar * (Len(candles) + 1) + 1

LastClose == candles[Len(candles)].close

\* A new configuration.
NoParams == [bp |-> Thresholds[1], bounds |-> {}, lastCandle |-> 0, lastLow |-> 0, override |-> "NONE"]

Idle == [at |-> "idle", params |-> NoParams, signal |-> 0]

Init ==
  /\ candles \in Mornings
  /\ due = FALSE
  /\ params = NoParams
  /\ signals = << >>
  /\ open = {}
  /\ run = [r \in Runs |-> Idle]
  /\ entries = << >>
  /\ steady = TRUE
  /\ forms = {NoParams}
  /\ spent = 0

Window300 == Window(candles, Len(candles), LiveWindow)

----------------------------------------------------------------------------
(* The market.                                                             *)

\* The i-th candle of the day, of shape s, after a close of o.
CandleOf(i, o, s) ==
  LET c == o + s.body
  IN [time  |-> Bar * i, open |-> o, close |-> c,
      high  |-> Max({o, c}) + s.up, low |-> Min({o, c}) - s.down]

NextCandle(s) == CandleOf(Len(candles) + 1, LastClose, s)

\* A candle closes, and the broker has closed what its high has reached.
CloseCandle ==
  /\ Len(candles) < MaxCandles
  /\ \E s \in Shapes :
       /\ candles' = Append(candles, NextCandle(s))
       /\ open' = StillOpen(open, NextCandle(s))
  /\ due' = TRUE
  /\ steady' = (steady /\ ~due /\ \A r \in Runs : run[r].at = "idle")
  /\ UNCHANGED <<params, signals, run, entries, forms, spent>>

\* The automatic runner asks for the status first and starts no run without it.
StayLocked ==
  /\ due
  /\ ~AssetUnlocked(candles, params.override, Now)
  /\ due' = FALSE
  /\ UNCHANGED <<candles, params, signals, open, run, entries, steady, forms, spent>>

----------------------------------------------------------------------------
(* A run.                                                                  *)

Load(r) ==
  /\ run[r].at = "idle"
  /\ AssetUnlocked(candles, params.override, Now)
  /\ run' = [run EXCEPT ![r] = [at |-> "waiting", params |-> params, signal |-> 0]]
  /\ UNCHANGED <<candles, due, params, signals, open, entries, steady, forms, spent>>

LockFree == \A r \in Runs : run[r].at # "ordering"

\* A runtime write leaves the revision alone, and editors keep what they show.
Remember == forms' = IF "edit" \in Kinds THEN forms \cup {params'} ELSE forms

Return(r) == run' = [run EXCEPT ![r] = Idle]

\* The lock is not free in time.
LockTimeout(r) ==
  /\ run[r].at = "waiting"
  /\ ~LockFree
  /\ Return(r)
  /\ UNCHANGED <<candles, due, params, signals, open, entries, steady, forms, spent>>

Protected == {"SENT", "RECONCILING", "EXECUTED"}

SameSetup(d, e) == d.conf = e.conf /\ d.low = e.low /\ d.zone = e.zone

\* Mutant of DuplicateSetup: nothing is a duplicate.
DuplicateSetupNever(d) == FALSE

DuplicateSetup(d) ==
  \E i \in DOMAIN signals : signals[i].status \in Protected /\ SameSetup(signals[i], d)

\* The open positions of which the database has a row: those of executed signals.
Known ==
  {p \in open : \E i \in DOMAIN signals : /\ signals[i].status = "EXECUTED"
                                        /\ signals[i].conf = p.conf /\ signals[i].low = p.low}

\* What the plan counts: open positions it knows of, and signals in flight.
PlannedEquivalents ==
  Used(Known \cup {signals[i] : i \in {j \in DOMAIN signals : signals[j].status \in {"SENT", "RECONCILING"}}})

\* The decision, the marks, the saved signal and the exposure plan.  The marks
\* go into the copy of the run, and the copy into the database.
Evaluate(r) ==
  /\ run[r].at = "waiting"
  /\ LockFree
  /\ due' = FALSE
  /\ \E d \in {ShouldBuy(Window300, run[r].params, Known, LastClose)} :
     LET marked == [run[r].params EXCEPT !.lastCandle = d.conf, !.lastLow = d.low]
         size   == Fitting(d.mult, PlannedEquivalents)
         status == IF ~DuplicateSetup(d) /\ size > 0 THEN "SENT" ELSE "REJECTED"
     IN \/ /\ d = NoEntry
           /\ Return(r)
           /\ UNCHANGED <<params, signals, forms>>
        \/ /\ d # NoEntry
           /\ params' = marked
           /\ Remember
           /\ signals' = Append(signals, [conf |-> d.conf, low |-> d.low, zone |-> d.zone, peak |-> d.peak,
                                          mult |-> size, status |-> status, filled |-> FALSE])
           /\ run' = [run EXCEPT ![r] =
                        IF status = "SENT"
                        THEN [at |-> "ordering", params |-> marked, signal |-> Len(signals')]
                        ELSE Idle]
  /\ UNCHANGED <<candles, open, entries, steady, spent>>

\* The broker opens a position.
Fill(i) ==
  LET s == signals[i]
      p == [conf |-> s.conf, low |-> s.low, peak |-> s.peak, mult |-> s.mult,
            price |-> LastClose, tp |-> TakeProfit(LastClose)]
  IN open' = open \cup {p} /\ entries' = Append(entries, p)

SetStatus(i, status) == signals' = [signals EXCEPT ![i].status = status]

\* The order is executed: the boundary of the cycle is added to the copy.
Executed(r) ==
  LET i == run[r].signal
  IN /\ run[r].at = "ordering"
     /\ Fill(i)
     /\ SetStatus(i, "EXECUTED")
     /\ params' = [run[r].params EXCEPT !.bounds = @ \cup {signals[i].conf}]
     /\ Remember
     /\ Return(r)
     /\ UNCHANGED <<candles, due, steady, spent>>

\* Something that an offline run does not know of; bounded.
Disturb(kind) == /\ kind \in Kinds
                 /\ spent < MaxSpent
                 /\ spent' = spent + 1
                 /\ steady' = FALSE

\* A definite refusal releases the marks of this attempt and no others.
Failed(r) ==
  LET i == run[r].signal
      mine == run[r].params
  IN /\ run[r].at = "ordering"
     /\ Disturb("fault")
     /\ SetStatus(i, "FAILED")
     /\ params' = IF mine.lastCandle = signals[i].conf
                  THEN [mine EXCEPT !.lastCandle = 0, !.lastLow = 0] ELSE params
     /\ Remember
     /\ Return(r)
     /\ UNCHANGED <<candles, due, open, entries>>

\* The answer is in doubt; whether the broker filled is found out by the sync.
Ambiguous(r) ==
  LET i == run[r].signal
  IN /\ run[r].at = "ordering"
     /\ Disturb("fault")
     /\ \/ /\ Fill(i)
           /\ signals' = [signals EXCEPT ![i].status = "RECONCILING", ![i].filled = TRUE]
        \/ /\ UNCHANGED <<open, entries>>
           /\ SetStatus(i, "RECONCILING")
     /\ Return(r)
     /\ UNCHANGED <<candles, due, params, forms>>

----------------------------------------------------------------------------
(* The other writers.                                                      *)

\* The position sync finds the position of a signal in doubt and records its
\* cycle in the parameters stored now.
SyncExecuted(i) ==
  /\ signals[i].status = "RECONCILING"
  /\ signals[i].filled
  /\ SetStatus(i, "EXECUTED")
  /\ params' = [params EXCEPT !.bounds = @ \cup {signals[i].conf}]
  /\ Remember
  /\ UNCHANGED <<candles, due, open, run, entries, steady, spent>>

\* The sync gives a signal up; its marks stay.
SyncFailed(i) ==
  /\ signals[i].status = "RECONCILING"
  /\ ~signals[i].filled
  /\ SetStatus(i, "FAILED")
  /\ UNCHANGED <<candles, due, params, open, run, entries, steady, forms, spent>>

\* The user locks or unlocks by hand, or takes that back.
ManualUnlock ==
  /\ Disturb("override")
  /\ \E o \in {"NONE", "LOCKED", "UNLOCKED"} \ {params.override} :
       params' = [params EXCEPT !.override = o]
  /\ forms' = {params'}
  /\ UNCHANGED <<candles, due, signals, open, run, entries>>

\* The editor saves the parameters of its form, marks and boundaries included,
\* with the threshold the user has put in.  Only the editor and the manual unlock
\* count as a new revision, so a form is refused for those and for nothing else.
SaveForm ==
  /\ Disturb("edit")
  /\ \E f \in forms, i \in DOMAIN Thresholds : params' = [f EXCEPT !.bp = Thresholds[i]]
  /\ forms' = {params'}
  /\ UNCHANGED <<candles, due, signals, open, run, entries>>

Next ==
  \/ CloseCandle
  \/ StayLocked
  \/ \E r \in Runs : Load(r) \/ LockTimeout(r) \/ Evaluate(r) \/ Executed(r) \/ Failed(r) \/ Ambiguous(r)
  \/ \E i \in DOMAIN signals : SyncExecuted(i) \/ SyncFailed(i)
  \/ ManualUnlock
  \/ SaveForm

Spec == Init /\ [][Next]_vars

----------------------------------------------------------------------------
(* Properties.                                                             *)

TypeOK ==
  /\ Len(candles) <= MaxCandles
  /\ due \in BOOLEAN /\ steady \in BOOLEAN
  /\ params.bounds \subseteq {candles[i].time : i \in DOMAIN candles}
  /\ \A i \in DOMAIN signals :
       signals[i].status \in {"REJECTED", "SENT", "RECONCILING", "EXECUTED", "FAILED"}
  /\ \A r \in Runs : /\ run[r].at \in {"idle", "waiting", "ordering"}
                      /\ run[r].signal \in 0..Len(signals)
  /\ Used(open) <= Entry.maxEquivalent

Candles == {Bar * i : i \in 1..MaxCandles}

Cycles == INSTANCE EntryCycles
            WITH Times <- Candles,
                 cycles <- [i \in DOMAIN entries |-> [from |-> entries[i].peak, to |-> entries[i].conf]]

\* The live strategy implements EntryCycles: no fall of the market is bought
\* twice, although runs decide with parameters they loaded before an entry.
EntriesAreCycles == Cycles!Spec

\* A confirmed pullback is final: a later candle adds pullbacks and neither
\* takes one back nor moves it (detect_pullbacks).
ConfirmedPullbacksAreFinal ==
  [][candles' # candles =>
       LET th == EntryThresholds(Thresholds[1])
       IN IsPrefix(Confirmed(candles, th), Confirmed(candles', th))]_candles

\* Within a day the unlock rule stays fulfilled ("once a qualifying H2/H3 window
\* closes, the asset remains unlocked", _build_unlock_timeline).
UnlockIsMonotonic == 
  [][candles' # candles /\ Unlocked(candles, Now) => Unlocked(candles', Now')]_candles

\* The day is over and nothing is in flight.
Finished ==
  /\ Len(candles) = MaxCandles
  /\ ~due
  /\ \A r \in Runs : run[r].at = "idle"

\* When every candle was evaluated and every order answered, the backtest of the
\* day makes the trades that were made live.
BacktestAgreesWithLive ==
  Finished /\ steady => Backtest(candles, params.bp).trades = entries

\* The simulator explains what it answers: a setup that would be bought has no
\* step that waits and the multiplier shown, and one that waits although every
\* step is fulfilled has been signalled before or is too close to other entries.
SimulatorExplains ==
  LET answer  == Simulate(Window300, params, params.override, Now, Known, LastClose)
      waiting == WaitingSteps(Window300, params, params.override, Now, LastClose)
      low     == CurrentPullback(Window300, params).lowTime
  IN /\ answer = "BUY" => /\ waiting = {}
                          /\ SimulatedMultiplier(Window300, params, LastClose)
                               = ShouldBuy(Window300, params, Known, LastClose).mult
     /\ answer = "WAIT" /\ waiting = {} =>
          \/ params.lastCandle = candles[Len(candles)].time
          \/ params.lastLow = low
          \/ ~SpacingAllows(Known, LastClose)

\* The replay, which knows no capacity, no unlock and no positions, shows every
\* entry that was made.
ReplayShowsTheEntries ==
  Finished /\ steady =>
    \A i \in DOMAIN entries :
      \E s \in Replay(candles, params.bp) : s.conf = entries[i].conf /\ s.low = entries[i].low

\* The pullbacks of the chart do not overlap, and none runs across an entry: a
\* fall after the entry never deepens the pullback that was bought ("preventing a
\* post-entry fall from extending the old setup", _pullback_cycle_segments).  So
\* no run may lose the boundary of an entry from the parameters.
ChartIsCutAtEntries ==
  LET bought == {signals[i].conf : i \in {j \in DOMAIN signals : signals[j].status = "EXECUTED"}}
  IN Finished /\ steady =>
       \A p, q \in Range(ChartPullbacks(candles, params.bounds)) :
         /\ \A cut \in bought : p.peak >= cut \/ p.lowTime <= cut
         /\ p = q \/ p.lowTime <= q.peak \/ q.lowTime <= p.peak

\* The replay signals what was bought, and the chart starts anew after it.
EntriesAreShown == ReplayShowsTheEntries /\ ChartIsCutAtEntries

=============================================================================
