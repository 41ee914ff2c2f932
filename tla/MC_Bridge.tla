------------------------------ MODULE MC_Bridge ------------------------------
(* Two disciplines of the bridge process that share no state: the terminal    *)
(* lock, with three threads that nest two deep, and the tick queue, with two  *)
(* accounts whose ticks share one buffer.  "part" says which of them runs.    *)
EXTENDS MT5Access, TickBuffer

CONSTANTS t1, t2, t3, a1, a2
VARIABLE part

ThreeThreads == {t1, t2, t3}
TwoAccounts == {a1, a2}

BridgeInit == part \in {"terminal", "ticks"} /\ AccessInit /\ Init
TerminalRuns == part = "terminal" /\ AccessNext /\ UNCHANGED <<part, vars>>
TicksRun == part = "ticks" /\ Next /\ UNCHANGED <<part, accessVars>>
BridgeNext == TerminalRuns \/ TicksRun

\* The fairness of the two; only IntervalPasses could be enabled, and not taken,
\* where the other one runs.
BridgeSpec ==
  /\ BridgeInit /\ [][BridgeNext]_<<part, accessVars, vars>>
  /\ \A t \in Threads : /\ WF_accessVars(Wake(t)) /\ WF_accessVars(Release(t))
                        /\ SF_accessVars(Release(t) /\ depth = 1)
  /\ WF_vars(part = "ticks" /\ IntervalPasses)
  /\ WF_vars(Peek) /\ WF_vars(Leave) /\ WF_vars(Confirm) /\ WF_vars(PostFails)
  /\ SF_vars(PostAnswered)
==============================================================================
