----------------------------- MODULE MC_Accounts -----------------------------
(* What an account may lose and what it has earned, and the dollar it is      *)
(* traded against: the risk snapshot, the stop-out line, the ledger with the  *)
(* performance report, the filter.  They share no state; "part" says which of *)
(* them runs.                                                                 *)
EXTENDS RiskSnapshots, StopOut, Performance, DollarStrength

VARIABLE part

\* Histories of each verdict; a day opens where the last one closed.
Histories == {<<6, 11, 10>>, <<10, 10, 11>>, <<6, 10, 11>>, <<11, 10, 6>>}
LastClose == closes[Max({d \in TradingDates : d < Date(hour)})]
OpensAtLastClose == hour % DayHours = 0 /\ Date(hour) \in TradingDates => closes[Date(hour)] = LastClose

Init == /\ part \in {"stopout", "snapshots", "ledger", "dollar"}
        /\ UsdInit /\ OpensAtLastClose
        /\ <<closes[0], closes[1], closes[2]>> \in (IF part = "dollar" THEN Histories ELSE {<<6, 11, 10>>})
        /\ \/ part = "stopout"
           \/ /\ part # "stopout" /\ held = 1 /\ other = 0 /\ equity = 20
              /\ threshold = 0 /\ move = [p \in 0..Price |-> p]
        /\ RiskInit /\ StopInit /\ PerfInit
Runs(name) == part = name /\ UNCHANGED part
\* The all-time high, which flags nothing, changes first and at once or not at all.
HighFirst == /\ changes \in 1..(changes' - 1) => UNCHANGED <<level, highest>> /\ ingest' \subseteq ingest
             /\ ingest # {} => ingest' # ingest
SnapshotsRun == Runs("snapshots") /\ RiskNext /\ HighFirst /\ UNCHANGED <<stopVars, perfVars, usdVars>>
StopOutRuns == Runs("stopout") /\ StopNext /\ UNCHANGED <<riskVars, perfVars, usdVars>>
LedgerRuns == Runs("ledger") /\ PerfNext /\ UNCHANGED <<riskVars, stopVars, usdVars>>
DollarRuns == Runs("dollar") /\ UsdNext /\ OpensAtLastClose' /\ UNCHANGED <<riskVars, stopVars, perfVars>>
Next == SnapshotsRun \/ StopOutRuns \/ LedgerRuns \/ DollarRuns
Spec == Init /\ [][Next]_<<part, riskVars, stopVars, perfVars, usdVars>>

ReportedStatuses == {<<"a", 1>>, <<"a", 2>>, <<"b", 3>>}
ReportedAlike == {<<"a", 1>>, <<"a", 2>>, <<"b", 2>>}
OnePosition == {<<"a", 1>>}

\* The other price with the betas 1, 1/2 and 3/2, rounded down.
Half == <<4, 5, 6, 8, 8, 9, 10, 11, 12, 12, 13, 13, 14, 14, 15, 16>>
OneAndAHalf == <<0, 0, 1, 2, 2, 3, 4, 5, 6, 7, 9, 10, 11, 13, 14, 16>>
Betas == {[p \in 0..16 |-> p]} \cup {[p \in 0..16 |-> IF p = 0 THEN 0 ELSE t[p]] : t \in {Half, OneAndAHalf}}
Losses == {-1}
Bought == {1, 2, 3}
Hedged == {-2, -1, 1, 2}
==============================================================================
