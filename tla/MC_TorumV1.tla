----------------------------- MODULE MC_TorumV1 -----------------------------
(* A day of eight candles for TorumV1.  A price unit is about     *)
(* 0.1 %: a setup is a fall of two units, a take profit a rise of one.     *)
EXTENDS TorumV1

\* One step up, one down, two down with a wick, and a doji.
MCShapes == {[body |-> 1, up |-> 0, down |-> 0], [body |-> -1, up |-> 0, down |-> 0],
             [body |-> -2, up |-> 0, down |-> 0], [body |-> 0, up |-> 0, down |-> 1]}

MCThreeShapes == {s \in MCShapes : s.body # -1}

Up == CandleOf(1, 1000, [body |-> 1, up |-> 0, down |-> 0])

Down == CandleOf(1, 1001, [body |-> -1, up |-> 0, down |-> 0])

\* A day that unlocks with its first H2 candle, and one that has to wait.
MCMornings == {<<Up, CandleOf(2, 1001, [body |-> 0, up |-> 0, down |-> 0])>>,
               <<Down, CandleOf(2, 1000, [body |-> -1, up |-> 0, down |-> 0])>>}

RunSymmetry == Permutations(Runs)

MCDetector == [lookback |-> 4, swingConfirm |-> 1, endBars |-> 1, minBetween |-> 0,
               minBearish |-> 1, minLowerClose |-> 1, maxCount |-> 10,
               useWicks |-> TRUE, closeConfirmation |-> TRUE, acceptDoji |-> TRUE,
               peakExtension |-> TRUE, requireLeg |-> TRUE, disallowSame |-> TRUE,
               impulseFilter |-> TRUE]

\* Two rectangles that overlap in time; the second lies lower and asks for x2.
MCZones == << [id |-> 1, time1 |-> 4, time2 |-> 26, top |-> 999, mult |-> 1],
              [id |-> 2, time1 |-> 12, time2 |-> 42, top |-> 997, mult |-> 2] >>

MCSupports == {[level |-> 3, price |-> 995, lower |-> 994, upper |-> 995]}

MCEntry == [bars |-> 1, abovePrevious |-> FALSE, requireZone |-> TRUE, priceOutside |-> FALSE,
            onePerSymbol |-> FALSE, spacing |-> 25, recovery |-> 0,
            visualThreshold |-> 0, visualRecovery |-> 15,
            maxEquivalent |-> 3, degrade |-> TRUE, takeProfit |-> 9]

\* The same with "reduce when it does not fit" switched off.
MCEntryWhole == [MCEntry EXCEPT !.degrade = FALSE]

MCSession == [start |-> 4, end |-> 34, mode |-> {"H2", "H3"}, bullish |-> TRUE,
              hold |-> TRUE, minBody |-> 0]

MCNews == {[from |-> 23, to |-> 24]}

MCThresholds == <<15, 35>>

MCOneThreshold == <<15>>

=============================================================================
