----------------------------- MODULE EntryCycles -----------------------------
(***************************************************************************)
(* What Torum V1 promises of its entries, whatever runs, retries and edits *)
(* lead to them: the market is cut into cycles, from a swing high to the   *)
(* candle that confirms its recovery, every entry has a cycle of its own,  *)
(* and a cycle never reaches back behind the one before it.  "A            *)
(* post-entry fall" does not extend "the old setup"                        *)
(* (torum_v1.py, _pullback_cycle_segments).                                *)
(***************************************************************************)
EXTENDS Naturals, Sequences

CONSTANT Times    \* the times of the candles

VARIABLE cycles   \* the cycles [from, to] that were bought, in this order

Init == cycles = << >>

\* A fall that lies behind everything bought so far is bought.
Enter(from, to) ==
  /\ from < to
  /\ cycles # << >> => cycles[Len(cycles)].to <= from
  /\ cycles' = Append(cycles, [from |-> from, to |-> to])

Next == \E from, to \in Times : Enter(from, to)

Spec == Init /\ [][Next]_cycles

=============================================================================
