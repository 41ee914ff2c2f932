------------------------------- MODULE StopOut -------------------------------
(* The estimated stop-out price of a gold symbol: where the equity of the     *)
(* account falls to the level at which the broker closes positions, when this *)
(* symbol falls and the other one follows with its beta.                      *)
(*                                                                            *)
(* Prices are on a grid 0..Price, Price being the current one; "held" and     *)
(* "other" are the values of a price unit of all that is held of a symbol.    *)
EXTENDS Integers

CONSTANTS
  Price,      \* current price of the symbol
  Moves,      \* where the other one goes: functions of the grid, one per beta
  Held,       \* what may be held of a symbol, negative when it is sold
  Equities, Levels, Margins,   \* what the broker reports
  NoMargin    \* the margin is not reported

ASSUME StopAssumption ==
  /\ Price \in Nat \ {0} /\ Held \subseteq Int /\ Moves \subseteq [0..Price -> Int]
  /\ Equities \subseteq Int /\ Levels \subseteq Nat /\ Margins \subseteq Nat /\ NoMargin \notin Nat

VARIABLES
  held, other,     \* what is held of this symbol, and of the other one if its price is known
  move,            \* its beta
  equity, threshold,   \* of the account, and the equity at which the broker acts
  low, high,       \* ends of the search
  at               \* "asked", "searching", "found" or "none"
stopVars == <<held, other, move, equity, threshold, low, high, at>>

\* The level is a percentage of the margin (mode 0) or an amount (mode 1).
MoneyThreshold(mode, level, margin) == level   \* (a mutant)
Threshold(mode, level, margin) == IF mode = 0 THEN (margin * level) \div 100 ELSE level
Reported(mode, margin) == mode = 1 \/ margin # NoMargin

StopInit ==
  /\ held \in Held /\ other \in Held \cup {0} /\ move \in Moves /\ equity \in Equities
  /\ \E mode \in {0, 1}, level \in Levels, margin \in Margins \cup {NoMargin} :
       Reported(mode, margin) /\ threshold = Threshold(mode, level, margin)
  /\ low = 0 /\ high = Price /\ at = "asked"

\* scenario_equity minus the threshold.
Gap(p) == equity - threshold + held * (p - Price) + other * (move[p] - move[Price])

Ask ==
  /\ at = "asked"
  /\ at' = IF Gap(Price) <= 0 THEN "found" ELSE IF Gap(0) > 0 THEN "none" ELSE "searching"
  /\ UNCHANGED <<held, other, move, equity, threshold, low, high>>

Middle == (low + high) \div 2
HalveUp ==     \* (a mutant: a middle that triggers becomes the upper end)
  IF Gap(Middle) <= 0 THEN high' = Middle /\ low' = low ELSE low' = Middle /\ high' = high
Halve ==
  IF Gap(Middle) <= 0 THEN low' = Middle /\ high' = high ELSE high' = Middle /\ low' = low

\* After enough halvings the ends are neighbours and the upper one is the line.
Search ==
  /\ at = "searching"
  /\ IF high - low > 1 THEN Halve /\ at' = at ELSE at' = "found" /\ UNCHANGED <<low, high>>
  /\ UNCHANGED <<held, other, move, equity, threshold>>

StopNext == Ask \/ Search
StopSpec == StopInit /\ [][StopNext]_stopVars

----------------------------------------------------------------------------
(* The line is the first trigger on the way down: above it the account holds  *)
(* and a step below it does not; without a line it holds all the way.         *)
Holds(p) == Gap(p) > 0
LineIsFirstTrigger ==
  /\ at = "none" => \A p \in 0..Price : Holds(p)
  /\ at = "found" => IF ~Holds(Price) THEN high = Price
                     ELSE ~Holds(high - 1) /\ \A p \in high..Price : Holds(p)
=============================================================================
