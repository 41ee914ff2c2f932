---------------------------- MODULE MC_Operations ----------------------------
(* The backtest jobs, the restarts of the watchdog and the economic calendar. *)
(* They share no state; "part" says which of them runs.  At first all         *)
(* releases but one are due now, and an event of the replaced provider later. *)
EXTENDS BacktestJobs, Watchdog, NewsCalendar

VARIABLE part
vars == <<part, jobVars, watchVars, newsVars>>

Init ==
  /\ part \in {"backtests", "watchdog", "calendar"}
  /\ JobsInit /\ WatchInit /\ NewsInit
  /\ \A r \in {"fed"} \cup Optional : official[r] = 1
  /\ \A e \in rows : e.time = LastTime
  /\ part # "calendar" => /\ rows = {}
                          /\ settings = CHOOSE rule \in Rules : TRUE
                          /\ \A r \in Releases : official[r] = 1

Runs(name) == part = name /\ UNCHANGED part
BacktestsRun == Runs("backtests") /\ JobsNext /\ UNCHANGED <<watchVars, newsVars>>
WatchdogRuns == Runs("watchdog") /\ WatchNext /\ UNCHANGED <<jobVars, newsVars>>
CalendarRuns == Runs("calendar") /\ NewsNext /\ UNCHANGED <<jobVars, watchVars>>
Next == BacktestsRun \/ WatchdogRuns \/ CalendarRuns

\* The threads of the pool run, and so do the scheduler of the news and the
\* requests that have been accepted.
Spec ==
  /\ Init /\ [][Next]_vars
  /\ \A w \in Workers : WF_jobVars(WorkerStep(w))
  /\ WF_newsVars(part = "calendar" /\ (SyncStep \/ ZoneStep("sync")))
  /\ WF_newsVars(part = "calendar" /\ ZoneStep("user"))

(* The calendar settles where it runs: once syncs, requests and restarts are  *)
(* over, events and zones are those of the official calendar under the        *)
(* settings of now (NewsCalendarService.sync_provider, update_settings).      *)
CalendarIsRight == part = "calendar" => CalendarSettles
==============================================================================
