---------------------------- MODULE MC_TradeJobs ----------------------------
(* One key of every kind.  A behaviour asks for jobs at most MaxAsked times,  *)
(* for which keys it may choose.                                              *)
EXTENDS TradeJobs, FiniteSetsExt

CONSTANTS c1, c2, MaxAsked

OneCaller == {c1}
TwoCallers == {c1, c2}
RiskKeys == {"risk"}
FallbackKeys == {"fallback"}
NotifyKeys == {"notify"}
RiskAndNotify == {"risk", "notify"}
FallbackAndNotify == {"fallback", "notify"}
AllKeys == {"risk", "fallback", "notify"}
NoKeys == {}

Asked == MapThenSumSet(LAMBDA k : wanted[k], Keys)
         + Cardinality({c \in Callers : caller[c].key # NoKey})

\* FairSpec with a bound on what is asked for, which nothing is fair to.
MCNext == Next /\ Asked' <= MaxAsked
MCSpec == Init /\ [][MCNext]_vars /\ Fairness
=============================================================================
