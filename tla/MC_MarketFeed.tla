---------------------------- MODULE MC_MarketFeed ----------------------------
(* Ticks of two prices over two buckets for MarketFeed.                      *)
EXTENDS MarketFeed, TLC

\* Every point but the one between the ticks and their fallback job.
SafePoints == {"received", "strategy", "retire", "alerts", "reading", "push"}

AllPoints == SafePoints \cup {"stored"}

HandlerSymmetry == Permutations(Handlers)

\* The market opens above the target of the alert.
OpensAbove == feed' # << >> => feed'[1].p > Target

MCNext == Next /\ OpensAbove

MCSpec == Init /\ [][MCNext]_vars

=============================================================================
