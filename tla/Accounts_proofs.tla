---------------------------- MODULE Accounts_proofs ---------------------------
(* The line that the search of StopOut finds is the first trigger, for every  *)
(* price, beta, equity and margin, when both symbols are bought and the other *)
(* one never rises while this one falls.  Then the equity falls with the      *)
(* price (GapRises), and the search keeps a trigger at its lower end and none *)
(* at its upper one.                                                          *)
(* What the dollar filter is told is never older than a day and an hour, and  *)
(* is what the backtest computes for that hour; a lone change of the account  *)
(* is never hidden by an older risk snapshot; the report's capital is what    *)
(* the account held, and the months of a report add up to its period.         *)
EXTENDS RiskSnapshots, StopOut, DollarStrength, Performance, FiniteSetTheorems, WellFoundedInduction, TLAPS

Follows(m) == \A p, q \in 0..Price : p <= q => m[p] <= m[q]

LineType ==
  /\ held \in Nat /\ other \in Nat /\ equity \in Int /\ threshold \in Int
  /\ move \in [0..Price -> Int] /\ Follows(move)
  /\ low \in 0..Price /\ high \in 0..Price /\ at \in {"asked", "searching", "found", "none"}

Bracketed == low < high /\ Gap(low) <= 0 /\ Gap(high) > 0

IInv ==
  /\ LineType
  /\ at = "asked" => low = 0 /\ high = Price
  /\ at = "searching" => Bracketed
  /\ at = "found" => \/ Gap(Price) <= 0 /\ high = Price
                     \/ Bracketed /\ low = high - 1
  /\ at = "none" => Gap(0) > 0

----------------------------------------------------------------------------
(* What is held is a factor that keeps the order of two prices. *)
LEMMA Scales == ASSUME NEW a \in Nat, NEW x \in Int, NEW y \in Int, x <= y
                PROVE  a * x <= a * y
<1>1. PICK d \in Nat : y = x + d
  <2> WITNESS y - x \in Nat
  <2> QED OBVIOUS
<1>2. a * d \in Nat
  OBVIOUS
<1>3. a * y = a * x + a * d
  BY <1>1
<1> QED BY <1>2, <1>3

(* The equity falls with the price. *)
LEMMA GapRises == ASSUME LineType, NEW p \in 0..Price, NEW q \in 0..Price, p <= q
                  PROVE  Gap(p) \in Int /\ Gap(q) \in Int /\ Gap(p) <= Gap(q)
<1>1. Price \in Nat /\ Price \in 0..Price
  BY StopAssumption
<1>2. move[p] \in Int /\ move[q] \in Int /\ move[Price] \in Int /\ move[p] <= move[q]
  BY <1>1 DEF LineType, Follows
<1>3. held * (p - Price) <= held * (q - Price)
  <2>1. held \in Nat /\ p - Price \in Int /\ q - Price \in Int /\ p - Price <= q - Price
    BY <1>1 DEF LineType
  <2> QED BY <2>1, Scales
<1>4. other * (move[p] - move[Price]) <= other * (move[q] - move[Price])
  <2>1. /\ other \in Nat /\ move[p] - move[Price] \in Int /\ move[q] - move[Price] \in Int
        /\ move[p] - move[Price] <= move[q] - move[Price]
    BY <1>2 DEF LineType
  <2> QED BY <2>1, Scales
<1>5. /\ held * (p - Price) \in Int /\ held * (q - Price) \in Int
      /\ other * (move[p] - move[Price]) \in Int /\ other * (move[q] - move[Price]) \in Int
  BY <1>1, <1>2 DEF LineType
<1>6. ASSUME NEW c \in Int, NEW x \in Int, NEW y \in Int, NEW u \in Int, NEW v \in Int, x <= y, u <= v
      PROVE  c + x + u \in Int /\ c + y + v \in Int /\ c + x + u <= c + y + v
  BY <1>6
<1>7. equity - threshold \in Int
  BY DEF LineType
<1> QED BY <1>3, <1>4, <1>5, <1>6, <1>7, Zenon DEF Gap

----------------------------------------------------------------------------
(* What is assumed of the account: everything is bought, the betas are not    *)
(* negative.                                                                  *)
Bullish == Held \subseteq Nat /\ \A m \in Moves : Follows(m)

LEMMA InitLine == ASSUME Bullish, StopInit PROVE IInv
<1>1. threshold \in Int
  <2>1. PICK mode \in {0, 1}, percent \in Levels, margin \in Margins \cup {NoMargin} :
           Reported(mode, margin) /\ threshold = Threshold(mode, percent, margin)
    BY DEF StopInit
  <2>2. percent \in Nat
    BY StopAssumption
  <2>3. CASE mode = 0
    <3>1. margin \in Nat
      BY <2>1, <2>3, StopAssumption DEF Reported
    <3>2. margin * percent \in Int
      BY <2>2, <3>1
    <3> QED BY <2>1, <2>3, <3>2 DEF Threshold
  <2>4. CASE mode = 1
    BY <2>1, <2>2, <2>4 DEF Threshold
  <2> QED BY <2>3, <2>4
<1>2. LineType
  BY <1>1, StopAssumption DEF Bullish, StopInit, LineType
<1> QED BY <1>2 DEF StopInit, IInv

LEMMA NextLine == ASSUME IInv, [StopNext]_stopVars PROVE IInv'
<1>1. CASE UNCHANGED stopVars
  BY <1>1 DEF IInv, LineType, Follows, Bracketed, Gap, stopVars
<1>2. CASE Ask
  <2>1. /\ low = 0 /\ high = Price /\ 0 < Price /\ 0 \in 0..Price /\ Price \in 0..Price
    BY <1>2, StopAssumption DEF IInv, Ask
  <2>2. LineType'
    BY <1>2 DEF IInv, LineType, Follows, Ask
  <2>3. Gap(0) \in Int /\ Gap(Price) \in Int
    BY <2>1, GapRises DEF IInv
  <2>4. /\ Gap(0)' = Gap(0) /\ Gap(Price)' = Gap(Price)
        /\ Gap(low)' = Gap(0) /\ Gap(high)' = Gap(Price)
    BY <1>2, <2>1 DEF Ask, Gap
  <2>5. low' = 0 /\ high' = Price
    BY <1>2, <2>1 DEF Ask
  <2>6. CASE Gap(Price) <= 0
    BY <1>2, <2>2, <2>4, <2>5, <2>6 DEF IInv, Ask
  <2>7. CASE Gap(Price) > 0 /\ Gap(0) > 0
    <3>1. at' = "none"
      BY <1>2, <2>3, <2>7 DEF Ask
    <3> QED BY <2>2, <2>4, <2>7, <3>1 DEF IInv
  <2>8. CASE Gap(Price) > 0 /\ Gap(0) <= 0
    <3>1. at' = "searching"
      BY <1>2, <2>3, <2>8 DEF Ask
    <3>2. Bracketed'
      BY <2>1, <2>4, <2>5, <2>8 DEF Bracketed
    <3> QED BY <2>2, <3>1, <3>2 DEF IInv
  <2> QED BY <2>3, <2>6, <2>7, <2>8
<1>3. CASE Search
  <2>1. at = "searching" /\ Bracketed /\ low \in Nat /\ high \in Nat /\ high <= Price
    BY <1>3, StopAssumption DEF IInv, LineType, Search
  <2>2. CASE high - low > 1
    <3>1. /\ Middle \in 0..Price /\ low < Middle /\ Middle < high
      BY <2>1, <2>2, StopAssumption DEF Middle
    <3>2. Gap(Middle) \in Int
      BY <3>1, GapRises DEF IInv
    <3>3. at' = "searching" /\ Halve
      BY <1>3, <2>1, <2>2 DEF Search
    <3>4. UNCHANGED <<held, other, move, equity, threshold>>
      BY <1>3 DEF Search
    <3>5. CASE Gap(Middle) <= 0
      <4>1. low' = Middle /\ high' = high
        BY <3>3, <3>5 DEF Halve
      <4>2. Gap(low)' = Gap(Middle) /\ Gap(high)' = Gap(high)
        BY <3>4, <4>1 DEF Gap
      <4>3. LineType'
        BY <3>1, <3>3, <3>4, <4>1 DEF IInv, LineType, Follows
      <4>4. Bracketed'
        BY <2>1, <3>1, <3>5, <4>1, <4>2 DEF Bracketed
      <4> QED BY <3>3, <4>3, <4>4 DEF IInv
    <3>6. CASE Gap(Middle) > 0
      <4>1. high' = Middle /\ low' = low
        BY <3>2, <3>3, <3>6 DEF Halve
      <4>2. Gap(high)' = Gap(Middle) /\ Gap(low)' = Gap(low)
        BY <3>4, <4>1 DEF Gap
      <4>3. LineType'
        BY <3>1, <3>3, <3>4, <4>1 DEF IInv, LineType, Follows
      <4>4. Bracketed'
        BY <2>1, <3>1, <3>6, <4>1, <4>2 DEF Bracketed
      <4> QED BY <3>3, <4>3, <4>4 DEF IInv
    <3> QED BY <3>2, <3>5, <3>6
  <2>3. CASE high - low <= 1
    <3>1. low = high - 1
      BY <2>1, <2>3 DEF Bracketed
    <3>2. at' = "found" /\ UNCHANGED <<low, high, held, other, move, equity, threshold>>
      BY <1>3, <2>1, <2>3 DEF Search
    <3>3. LineType' /\ Bracketed'
      BY <2>1, <3>2 DEF IInv, LineType, Follows, Bracketed, Gap
    <3> QED BY <3>1, <3>2, <3>3 DEF IInv
  <2> QED BY <2>1, <2>2, <2>3
<1> QED BY <1>1, <1>2, <1>3 DEF StopNext

LEMMA BracketIsLine == ASSUME IInv PROVE LineIsFirstTrigger
<1>1. Price \in Nat /\ Price \in 0..Price /\ 0 \in 0..Price
  BY StopAssumption
<1>2. ASSUME at = "none", NEW p \in 0..Price PROVE Holds(p)
  <2>1. Gap(0) > 0 /\ Gap(0) \in Int /\ Gap(p) \in Int /\ Gap(0) <= Gap(p)
    BY <1>1, <1>2, GapRises DEF IInv
  <2> QED BY <2>1 DEF Holds
<1>3. ASSUME at = "found", ~Holds(Price) PROVE high = Price
  <2>1. Gap(Price) \in Int /\ Gap(high) \in Int /\ Gap(high) <= Gap(Price)
    BY <1>1, GapRises DEF IInv, LineType
  <2> QED BY <1>3, <2>1 DEF IInv, Bracketed, Holds
<1>4. ASSUME at = "found", Holds(Price)
      PROVE  ~Holds(high - 1) /\ \A p \in high..Price : Holds(p)
  <2>1. Bracketed /\ low = high - 1 /\ high \in 0..Price /\ low \in 0..Price
    <3>1. Gap(Price) \in Int
      BY <1>1, GapRises DEF IInv
    <3> QED BY <1>4, <3>1 DEF IInv, LineType, Holds
  <2>2. ~Holds(high - 1)
    <3>1. Gap(low) \in Int
      BY <2>1, GapRises DEF IInv
    <3> QED BY <2>1, <3>1 DEF Bracketed, Holds
  <2>3. ASSUME NEW p \in high..Price PROVE Holds(p)
    <3>1. p \in 0..Price /\ high <= p
      BY <1>1, <2>1
    <3>2. Gap(high) \in Int /\ Gap(p) \in Int /\ Gap(high) <= Gap(p)
      BY <2>1, <3>1, GapRises DEF IInv
    <3> QED BY <2>1, <3>2 DEF Bracketed, Holds
  <2> QED BY <2>2, <2>3
<1> QED BY <1>2, <1>3, <1>4 DEF LineIsFirstTrigger

(* For every price, every beta that is not negative and everything bought,    *)
(* whatever the broker reports: the line that get_line returns is the first   *)
(* price on the way down at which the account is at its stop-out level.       *)
THEOREM LineIsTheFirst == Bullish /\ StopSpec => []LineIsFirstTrigger
<1>1. Bullish /\ StopInit => IInv
  BY InitLine
<1>2. IInv /\ [StopNext]_stopVars => IInv'
  BY NextLine
<1>3. IInv => LineIsFirstTrigger
  BY BracketIsLine
<1> QED BY <1>1, <1>2, <1>3, PTL DEF StopSpec

----------------------------------------------------------------------------
(* Finite sets of numbers. *)

\* Induction over the subsets of a finite set, with a set for the property.
LEMMA SubsetInduction ==
    ASSUME NEW S, IsFiniteSet(S), NEW P,
           \A T \in SUBSET S : (\A U \in SUBSET T : U # T => U \in P) => T \in P
    PROVE  \A T \in SUBSET S : T \in P
<1>. SUFFICES ASSUME (SUBSET S) \ P # {} PROVE FALSE
  OBVIOUS
<1>1. IsWellFoundedOn(StrictSubsetOrdering(S), FiniteSubsetsOf(S))
  BY FS_StrictSubsetOrderingWellFounded
<1>2. (SUBSET S) \ P \subseteq FiniteSubsetsOf(S)
  BY FS_Subset DEF FiniteSubsetsOf
<1>3. PICK T \in (SUBSET S) \ P : \A U \in (SUBSET S) \ P : ~ (<<U, T>> \in StrictSubsetOrdering(S))
  <2>. DEFINE R == StrictSubsetOrdering(S)
              F == FiniteSubsetsOf(S)
              Bad == (SUBSET S) \ P
  <2>1. IsWellFoundedOn(R, F) /\ Bad \subseteq F /\ Bad # {}
    BY <1>1, <1>2
  <2>2. \E T \in Bad : \A U \in Bad : ~ (<<U, T>> \in R)
    <3>. HIDE DEF R, F, Bad
    <3>. QED BY <2>1, WFMin
  <2>. QED BY <2>2
<1>4. \A U \in SUBSET T : U # T => U \in P
  BY <1>3 DEF StrictSubsetOrdering
<1>. QED BY <1>3, <1>4

\* A finite set of numbers has a greatest one ...
LEMMA GreatestExists ==
    ASSUME NEW S \in SUBSET Int, IsFiniteSet(S), S # {}
    PROVE  \E x \in S : \A y \in S : x >= y
<1>. DEFINE P == {T \in SUBSET S : T # {} => \E x \in T : \A y \in T : x >= y}
<1>1. ASSUME NEW T \in SUBSET S, \A U \in SUBSET T : U # T => U \in P
      PROVE  T \in P
  <2>. SUFFICES ASSUME T # {} PROVE \E x \in T : \A y \in T : x >= y
    OBVIOUS
  <2>1. PICK a \in T : TRUE
    OBVIOUS
  <2>2. CASE T \ {a} = {}
    <3>1. \A y \in T : y = a /\ a >= y
      BY <2>2
    <3>. QED BY <3>1, <2>1
  <2>3. CASE T \ {a} # {}
    <3>1. T \ {a} \in P
      BY <1>1, <2>1
    <3>2. PICK m \in T \ {a} : \A y \in T \ {a} : m >= y
      BY <3>1, <2>3
    <3>3. a \in Int /\ m \in Int /\ T \subseteq Int
      BY <2>1, <3>2
    <3>4. (\A y \in T : m >= y) \/ (\A y \in T : a >= y)
      BY <3>2, <3>3
    <3>. QED BY <3>4, <3>2, <2>1
  <2>. QED BY <2>2, <2>3
<1>2. \A T \in SUBSET S : T \in P
  <2>. HIDE DEF P
  <2>. QED BY <1>1, SubsetInduction
<1>. QED BY <1>2

\* ... and a least one.
LEMMA LeastExists ==
    ASSUME NEW S \in SUBSET Int, IsFiniteSet(S), S # {}
    PROVE  \E x \in S : \A y \in S : x <= y
<1>. DEFINE P == {T \in SUBSET S : T # {} => \E x \in T : \A y \in T : x <= y}
<1>1. ASSUME NEW T \in SUBSET S, \A U \in SUBSET T : U # T => U \in P
      PROVE  T \in P
  <2>. SUFFICES ASSUME T # {} PROVE \E x \in T : \A y \in T : x <= y
    OBVIOUS
  <2>1. PICK a \in T : TRUE
    OBVIOUS
  <2>2. CASE T \ {a} = {}
    <3>1. \A y \in T : y = a /\ a <= y
      BY <2>2
    <3>. QED BY <3>1, <2>1
  <2>3. CASE T \ {a} # {}
    <3>1. T \ {a} \in P
      BY <1>1, <2>1
    <3>2. PICK m \in T \ {a} : \A y \in T \ {a} : m <= y
      BY <3>1, <2>3
    <3>3. a \in Int /\ m \in Int /\ T \subseteq Int
      BY <2>1, <3>2
    <3>4. (\A y \in T : m <= y) \/ (\A y \in T : a <= y)
      BY <3>2, <3>3
    <3>. QED BY <3>4, <3>2, <2>1
  <2>. QED BY <2>2, <2>3
<1>2. \A T \in SUBSET S : T \in P
  <2>. HIDE DEF P
  <2>. QED BY <1>1, SubsetInduction
<1>. QED BY <1>2

\* Which is what Max and Min choose.
LEMMA MaxIsGreatest ==
    ASSUME NEW S \in SUBSET Int, IsFiniteSet(S), S # {}
    PROVE  /\ Max(S) \in S /\ Max(S) \in Int
           /\ \A y \in S : y <= Max(S)
<1>1. Max(S) \in S /\ \A y \in S : Max(S) >= y
  BY GreatestExists DEF Max
<1>. QED BY <1>1

\* The least element, in the same way.
LEMMA MinIsLeast ==
    ASSUME NEW S \in SUBSET Int, IsFiniteSet(S), S # {}
    PROVE  /\ Min(S) \in S /\ Min(S) \in Int
           /\ \A y \in S : Min(S) <= y
<1>1. Min(S) \in S /\ \A y \in S : Min(S) <= y
  BY LeastExists DEF Min
<1>. QED BY <1>1

----------------------------------------------------------------------------
(* Folds.  The folds of the modules are recursive functions on the subsets of *)
(* a set, which take one element out at a time.  "what" says which one: a sum *)
(* of amounts or prices takes any element, the import of a post the latest    *)
(* deal, a return the last instant or month.  The function is shown to exist  *)
(* once for all of them.                                                      *)
Some(s) == CHOOSE x \in s : TRUE
Taken(what, s) == CASE what.fold = "sum" -> Some(s)
                    [] what.fold = "import" -> Latest(s)
                    [] OTHER -> Max(s)
Multiplied(acc, month) == <<acc[1] * month.over, acc[2] * month.under>>
Step(what, e, acc) ==
  CASE what.fold = "sum" -> what.of[e] + acc
    [] what.fold = "import" -> Import(acc, e)
    [] what.fold = "return" -> Weighted(what.profits, what.ledger, acc, e, what.start)
    [] OTHER -> Multiplied(acc, what.part[e])
Takes(what, S) == \A s \in SUBSET S : s # {} => Taken(what, s) \in s

Solves(what, S, g) ==
  g = [s \in SUBSET S |-> IF s = {} THEN what.base
                          ELSE Step(what, Taken(what, s), g[s \ {Taken(what, s)}])]
FoldOf(what, S) == (CHOOSE g : Solves(what, S, g))[S]

\* The recursion has one solution over a finite set ...
LEMMA SolutionUnique ==
    ASSUME NEW what, NEW S, IsFiniteSet(S), Takes(what, S), NEW g, NEW h, Solves(what, S, g), Solves(what, S, h)
    PROVE  g = h
<1>0. \A s \in SUBSET S : s # {} => Taken(what, s) \in s
  BY DEF Takes
<1>. DEFINE P == {s \in SUBSET S : g[s] = h[s]}
<1>1. ASSUME NEW T \in SUBSET S, \A U \in SUBSET T : U # T => U \in P
      PROVE  T \in P
  <2>1. CASE T = {}
    BY <2>1 DEF Solves
  <2>2. CASE T # {}
    <3>1. T \ {Taken(what, T)} \in P
      BY <1>0, <1>1, <2>2
    <3>2. /\ g[T] = Step(what, Taken(what, T), g[T \ {Taken(what, T)}])
          /\ h[T] = Step(what, Taken(what, T), h[T \ {Taken(what, T)}])
      BY <2>2 DEF Solves
    <3>. QED BY <3>1, <3>2
  <2>. QED BY <2>1, <2>2
<1>2. \A s \in SUBSET S : s \in P
  <2>. HIDE DEF P
  <2>. QED BY <1>1, SubsetInduction
<1>. QED BY <1>2 DEF Solves

\* ... whose restriction solves it over a subset ...
LEMMA SolutionRestrict ==
    ASSUME NEW what, NEW S, NEW T \in SUBSET S, NEW g, Solves(what, S, g),
           NEW h, h = [s \in SUBSET T |-> g[s]]
    PROVE  Solves(what, T, h)
<1>1. \A s \in SUBSET T : h[s] = g[s]
  OBVIOUS
<1>2. \A s \in SUBSET T : g[s] = IF s = {} THEN what.base ELSE Step(what, Taken(what, s), g[s \ {Taken(what, s)}])
  BY DEF Solves
<1>3. \A s \in SUBSET T : h[s] = IF s = {} THEN what.base ELSE Step(what, Taken(what, s), h[s \ {Taken(what, s)}])
  BY <1>1, <1>2
<1>. QED BY <1>3 DEF Solves

\* What the fold over S is when its recursion has a solution.
LEMMA FoldIsSolution ==
    ASSUME NEW what, NEW S, IsFiniteSet(S), Takes(what, S), NEW g, Solves(what, S, g)
    PROVE  \A T \in SUBSET S : FoldOf(what, T) = g[T]
<1>. TAKE T \in SUBSET S
<1>1. IsFiniteSet(T) /\ Takes(what, T)
  BY FS_Subset DEF Takes
<1>. DEFINE restricted == [s \in SUBSET T |-> g[s]]
<1>2. Solves(what, T, restricted)
  <2>1. restricted = [s \in SUBSET T |-> g[s]]
    OBVIOUS
  <2>. HIDE DEF restricted
  <2>. QED BY <2>1, SolutionRestrict
<1>3. Solves(what, T, CHOOSE h : Solves(what, T, h))
  BY <1>2
<1>4. (CHOOSE h : Solves(what, T, h)) = restricted
  <2>. HIDE DEF restricted
  <2>. QED BY <1>1, <1>2, <1>3, SolutionUnique
<1>. QED BY <1>4 DEF FoldOf

\* ... and it has one: the fold over every subset.
LEMMA FoldExists ==
    ASSUME NEW what, NEW S, IsFiniteSet(S), Takes(what, S)
    PROVE  Solves(what, S, [T \in SUBSET S |-> FoldOf(what, T)])
<1>0. \A s \in SUBSET S : s # {} => Taken(what, s) \in s
  BY DEF Takes
<1>. DEFINE Solved(T) == Solves(what, T, [U \in SUBSET T |-> FoldOf(what, U)])
            P == {T \in SUBSET S : Solved(T)}
<1>1. ASSUME NEW T \in SUBSET S, \A U \in SUBSET T : U # T => U \in P
      PROVE  T \in P
  <2>. DEFINE step(s) == IF s = {} THEN what.base ELSE Step(what, Taken(what, s), FoldOf(what, s \ {Taken(what, s)}))
              h == [U \in SUBSET T |-> IF U = T THEN step(T) ELSE FoldOf(what, U)]
  <2>1. \A U \in SUBSET T : U # T => FoldOf(what, U) = step(U)
    <3>. SUFFICES ASSUME NEW U \in SUBSET T, U # T
                  PROVE  FoldOf(what, U) = step(U)
      OBVIOUS
    <3>1. Solved(U)
      BY <1>1
    <3>2. U \ {Taken(what, U)} \in SUBSET U /\ U \in SUBSET U
      OBVIOUS
    <3>. QED BY <3>1, <3>2 DEF Solves
  <2>2. \A U \in SUBSET T : h[U] = IF U = {} THEN what.base ELSE Step(what, Taken(what, U), h[U \ {Taken(what, U)}])
    <3>. SUFFICES ASSUME NEW U \in SUBSET T
                  PROVE  h[U] = IF U = {} THEN what.base ELSE Step(what, Taken(what, U), h[U \ {Taken(what, U)}])
      OBVIOUS
    <3>1. U # {} => U \ {Taken(what, U)} \in SUBSET T /\ U \ {Taken(what, U)} # T
      BY <1>0
    <3>2. U # {} => h[U \ {Taken(what, U)}] = FoldOf(what, U \ {Taken(what, U)})
      BY <3>1
    <3>3. h[U] = step(U)
      BY <2>1
    <3>. QED BY <3>2, <3>3
  <2>3. Solves(what, T, h)
    <3>. HIDE DEF step
    <3>. QED BY <2>2 DEF Solves
  <2>4. IsFiniteSet(T) /\ Takes(what, T)
    BY FS_Subset DEF Takes
  <2>5. \A U \in SUBSET T : FoldOf(what, U) = h[U]
    <3>. HIDE DEF h, step
    <3>. QED BY <2>3, <2>4, FoldIsSolution
  <2>6. [U \in SUBSET T |-> FoldOf(what, U)] = h
    <3>. HIDE DEF step
    <3>. QED BY <2>5
  <2>. QED BY <2>3, <2>6
<1>2. \A T \in SUBSET S : T \in P
  <2>. HIDE DEF P
  <2>. QED BY <1>1, SubsetInduction
<1>. QED BY <1>2

\* The two equations of a fold: nothing taken is the base, ...
LEMMA FoldEmpty ==
    ASSUME NEW what
    PROVE  FoldOf(what, {}) = what.base
<1>0. Takes(what, {})
  BY DEF Takes
<1>1. Solves(what, {}, [T \in SUBSET {} |-> FoldOf(what, T)])
  BY <1>0, FoldExists, FS_EmptySet
<1>. QED BY <1>1 DEF Solves

\* ... and a fold is one step from the fold of what is left.
LEMMA FoldTakes ==
    ASSUME NEW what, NEW S, IsFiniteSet(S), Takes(what, S), S # {}
    PROVE  FoldOf(what, S) = Step(what, Taken(what, S), FoldOf(what, S \ {Taken(what, S)}))
<1>1. Solves(what, S, [T \in SUBSET S |-> FoldOf(what, T)])
  BY FoldExists
<1>2. S \in SUBSET S /\ S \ {Taken(what, S)} \in SUBSET S
  OBVIOUS
<1>. QED BY <1>1, <1>2 DEF Solves

----------------------------------------------------------------------------
(* Sums: MapThenSumSet and the Total of the prices. *)

Sums(f, S, g) == g = [s \in SUBSET S |-> IF s = {} THEN 0 ELSE f[Some(s)] + g[s \ {Some(s)}]]
SumF(f, S) == (CHOOSE g : Sums(f, S, g))[S]

\* CHOOSE takes an element of the set.
LEMMA SomeIsIn ==
    ASSUME NEW s, s # {}
    PROVE  Some(s) \in s
  BY DEF Some

SumFold(f) == [fold |-> "sum", base |-> 0, of |-> f]

\* A sum is such a fold.
LEMMA SumIsFold ==
    ASSUME NEW f, NEW S
    PROVE  SumF(f, S) = FoldOf(SumFold(f), S) /\ Takes(SumFold(f), S)
<1>1. \A s : Taken(SumFold(f), s) = Some(s)
  BY DEF Taken, SumFold
<1>2. \A e, acc : Step(SumFold(f), e, acc) = f[e] + acc
  BY DEF Step, SumFold
<1>3. SumFold(f).base = 0
  BY DEF SumFold
<1>4. \A g : Sums(f, S, g) <=> Solves(SumFold(f), S, g)
  BY <1>1, <1>2, <1>3 DEF Sums, Solves
<1>5. (CHOOSE g : Sums(f, S, g)) = (CHOOSE g : Solves(SumFold(f), S, g))
  BY <1>4
<1>6. Takes(SumFold(f), S)
  BY <1>1, SomeIsIn DEF Takes
<1>. QED BY <1>5, <1>6 DEF SumF, FoldOf

\* Nothing sums to nothing.
LEMMA SumEmpty ==
    ASSUME NEW f
    PROVE  SumF(f, {}) = 0
<1>1. SumFold(f).base = 0
  BY DEF SumFold
<1>2. SumF(f, {}) = FoldOf(SumFold(f), {}) /\ FoldOf(SumFold(f), {}) = SumFold(f).base
  BY SumIsFold, FoldEmpty
<1>. QED BY <1>1, <1>2

\* The sum takes the chosen element out.
LEMMA SumSome ==
    ASSUME NEW f, NEW S, IsFiniteSet(S), S # {}
    PROVE  SumF(f, S) = f[Some(S)] + SumF(f, S \ {Some(S)})
<1>1. Taken(SumFold(f), S) = Some(S) /\ \A e, acc : Step(SumFold(f), e, acc) = f[e] + acc
  BY DEF Taken, Step, SumFold
<1>. QED BY <1>1, SumIsFold, FoldTakes

\* A sum of integers is one.
LEMMA SumType ==
    ASSUME NEW f, NEW S, IsFiniteSet(S), \A x \in S : f[x] \in Int
    PROVE  SumF(f, S) \in Int
<1>. DEFINE P == {T \in SUBSET S : SumF(f, T) \in Int}
<1>1. ASSUME NEW T \in SUBSET S, \A U \in SUBSET T : U # T => U \in P
      PROVE  T \in P
  <2>1. CASE T = {}
    BY <2>1, SumEmpty
  <2>2. CASE T # {}
    <3>1. T \ {Some(T)} \in P /\ f[Some(T)] \in Int
      BY <1>1, <2>2, SomeIsIn
    <3>2. SumF(f, T) = f[Some(T)] + SumF(f, T \ {Some(T)})
      BY <2>2, SumSome, FS_Subset
    <3>. QED BY <3>1, <3>2
  <2>. QED BY <2>1, <2>2
<1>2. \A T \in SUBSET S : T \in P
  <2>. HIDE DEF P
  <2>. QED BY <1>1, SubsetInduction
<1>. QED BY <1>2

\* Any element can be taken out of a sum, not only the one the fold chooses.
LEMMA SumRemove ==
    ASSUME NEW f, NEW S, IsFiniteSet(S), \A x \in S : f[x] \in Int, NEW a \in S
    PROVE  SumF(f, S) = f[a] + SumF(f, S \ {a})
<1>. DEFINE P == {T \in SUBSET S : \A x \in T : SumF(f, T) = f[x] + SumF(f, T \ {x})}
<1>1. ASSUME NEW T \in SUBSET S, \A U \in SUBSET T : U # T => U \in P
      PROVE  T \in P
  <2>. SUFFICES ASSUME NEW x \in T
                PROVE  SumF(f, T) = f[x] + SumF(f, T \ {x})
    OBVIOUS
  <2>. DEFINE c == Some(T)
  <2>0. c \in T
    BY SomeIsIn
  <2>1. SumF(f, T) = f[c] + SumF(f, T \ {c})
    BY SumSome, FS_Subset
  <2>. HIDE DEF c
  <2>2. CASE x = c
    BY <2>1, <2>2
  <2>3. CASE x # c
    <3>1. T \ {c} \in P /\ T \ {x} \in P
      BY <1>1, <2>0
    <3>2. SumF(f, T \ {c}) = f[x] + SumF(f, (T \ {c}) \ {x})
      BY <2>3, <3>1
    <3>3. SumF(f, T \ {x}) = f[c] + SumF(f, (T \ {x}) \ {c})
      BY <2>0, <2>3, <3>1
    <3>4. (T \ {c}) \ {x} = (T \ {x}) \ {c}
      OBVIOUS
    <3>5. SumF(f, (T \ {x}) \ {c}) \in Int
      BY SumType, FS_Subset
    <3>6. f[x] \in Int /\ f[c] \in Int
      BY <2>0
    <3>7. PICK rest \in Int : rest = SumF(f, (T \ {x}) \ {c})
      BY <3>5
    <3>8. SumF(f, T) = f[c] + (f[x] + rest) /\ SumF(f, T \ {x}) = f[c] + rest
      BY <2>1, <3>2, <3>3, <3>4, <3>7
    <3>. QED BY <3>6, <3>8
  <2>. QED BY <2>2, <2>3
<1>2. \A T \in SUBSET S : T \in P
  <2>. HIDE DEF P
  <2>. QED BY <1>1, SubsetInduction
<1>. QED BY <1>2

\* An element can be added.
LEMMA SumAdd ==
    ASSUME NEW f, NEW S, IsFiniteSet(S), NEW a, a \notin S, f[a] \in Int,
           \A x \in S : f[x] \in Int
    PROVE  SumF(f, S \cup {a}) = f[a] + SumF(f, S)
<1>1. IsFiniteSet(S \cup {a}) /\ (S \cup {a}) \ {a} = S
  BY FS_AddElement
<1>2. SumF(f, S \cup {a}) = f[a] + SumF(f, (S \cup {a}) \ {a})
  BY <1>1, SumRemove
<1>. QED BY <1>1, <1>2

\* A sum only looks at the elements summed over.
LEMMA SumSame ==
    ASSUME NEW f, NEW g, NEW S, IsFiniteSet(S), \A x \in S : f[x] = g[x]
    PROVE  SumF(f, S) = SumF(g, S)
<1>. DEFINE P == {T \in SUBSET S : SumF(f, T) = SumF(g, T)}
<1>1. ASSUME NEW T \in SUBSET S, \A U \in SUBSET T : U # T => U \in P
      PROVE  T \in P
  <2>1. CASE T = {}
    BY <2>1, SumEmpty
  <2>2. CASE T # {}
    <3>1. T \ {Some(T)} \in P /\ f[Some(T)] = g[Some(T)]
      BY <1>1, <2>2, SomeIsIn
    <3>2. /\ SumF(f, T) = f[Some(T)] + SumF(f, T \ {Some(T)})
          /\ SumF(g, T) = g[Some(T)] + SumF(g, T \ {Some(T)})
      BY <2>2, SumSome, FS_Subset
    <3>. QED BY <3>1, <3>2
  <2>. QED BY <2>1, <2>2
<1>2. \A T \in SUBSET S : T \in P
  <2>. HIDE DEF P
  <2>. QED BY <1>1, SubsetInduction
<1>. QED BY <1>2

\* The sum over two sets that share nothing.
LEMMA SumDisjoint ==
    ASSUME NEW f, NEW S, NEW T, IsFiniteSet(S), IsFiniteSet(T), S \cap T = {},
           \A x \in S \cup T : f[x] \in Int
    PROVE  SumF(f, S \cup T) = SumF(f, S) + SumF(f, T)
<1>. DEFINE P == {U \in SUBSET T : SumF(f, S \cup U) = SumF(f, S) + SumF(f, U)}
<1>0. SumF(f, S) \in Int
  BY SumType
<1>1. ASSUME NEW U \in SUBSET T, \A V \in SUBSET U : V # U => V \in P
      PROVE  U \in P
  <2>1. CASE U = {}
    <3>1. S \cup U = S
      BY <2>1
    <3>. QED BY <1>0, <2>1, <3>1, SumEmpty
  <2>2. CASE U # {}
    <3>1. PICK u \in U : TRUE
      BY <2>2
    <3>. DEFINE V == U \ {u}
    <3>2. SumF(f, S \cup V) = SumF(f, S) + SumF(f, V)
      BY <1>1, <3>1
    <3>3. IsFiniteSet(U) /\ IsFiniteSet(V) /\ IsFiniteSet(S \cup V)
      BY FS_Subset, FS_Union
    <3>4. f[u] \in Int /\ (\A x \in V : f[x] \in Int) /\ (\A x \in S \cup V : f[x] \in Int)
      BY <3>1
    <3>5. u \notin V /\ u \notin S \cup V /\ V \cup {u} = U /\ (S \cup V) \cup {u} = S \cup U
      BY <3>1
    <3>6. SumF(f, V) \in Int
      BY <3>3, <3>4, SumType
    <3>. HIDE DEF V
    <3>7. SumF(f, U) = f[u] + SumF(f, V)
      BY <3>3, <3>4, <3>5, SumAdd
    <3>8. SumF(f, S \cup U) = f[u] + SumF(f, S \cup V)
      BY <3>3, <3>4, <3>5, SumAdd
    <3>9. SumF(f, S \cup U) = SumF(f, S) + SumF(f, U)
      BY <3>2, <3>4, <3>6, <3>7, <3>8, <1>0
    <3>. QED BY <3>9
  <2>. QED BY <2>1, <2>2
<1>2. \A U \in SUBSET T : U \in P
  <2>. HIDE DEF P
  <2>. QED BY <1>1, SubsetInduction
<1>. QED BY <1>2

ImageOf(h, U) == {h[x] : x \in U}
Carries(f, g, h, S) ==
  /\ \A x \in S : f[x] \in Int /\ g[h[x]] = f[x]
  /\ \A x, y \in S : h[x] = h[y] => x = y

\* The sum over the images of the elements, each of one element only.
LEMMA SumBijection ==
    ASSUME NEW f, NEW g, NEW S, IsFiniteSet(S), NEW h, Carries(f, g, h, S)
    PROVE  IsFiniteSet(ImageOf(h, S)) /\ SumF(g, ImageOf(h, S)) = SumF(f, S)
<1>0. /\ \A x \in S : f[x] \in Int /\ g[h[x]] = f[x]
      /\ \A x, y \in S : h[x] = h[y] => x = y
  BY DEF Carries
<1>. DEFINE image(U) == ImageOf(h, U)
            P == {U \in SUBSET S : IsFiniteSet(image(U)) /\ SumF(g, image(U)) = SumF(f, U)}
<1>1. ASSUME NEW U \in SUBSET S, \A V \in SUBSET U : V # U => V \in P
      PROVE  U \in P
  <2>1. CASE U = {}
    <3>1. image(U) = {}
      BY <2>1 DEF ImageOf
    <3>2. IsFiniteSet(image(U)) /\ SumF(g, image(U)) = SumF(f, U)
      BY <2>1, <3>1, SumEmpty, FS_EmptySet
    <3>. QED BY <3>2
  <2>2. CASE U # {}
    <3>1. PICK u \in U : TRUE
      BY <2>2
    <3>2. PICK V : V = U \ {u}
      OBVIOUS
    <3>3. V \in P /\ V \in SUBSET S
      BY <1>1, <3>1, <3>2
    <3>4. IsFiniteSet(image(V)) /\ SumF(g, image(V)) = SumF(f, V)
      BY <3>3
    <3>5. IsFiniteSet(V) /\ u \notin V /\ V \cup {u} = U
      BY <3>1, <3>2, <3>3, FS_Subset
    <3>6. image(V) \cup {h[u]} = image(U) /\ h[u] \notin image(V)
      <4>1. image(V) \cup {h[u]} = image(U)
        BY <3>5 DEF ImageOf
      <4>2. ASSUME NEW v \in V, h[v] = h[u] PROVE FALSE
        BY <1>0, <4>2, <3>1, <3>3, <3>5
      <4>. QED BY <4>1, <4>2 DEF ImageOf
    <3>7. g[h[u]] = f[u] /\ f[u] \in Int /\ (\A x \in V : f[x] \in Int)
      BY <1>0, <3>1, <3>3
    <3>8. \A y \in image(V) : g[y] \in Int
      BY <1>0, <3>3 DEF ImageOf
    <3>9. SumF(f, U) = f[u] + SumF(f, V)
      BY <3>5, <3>7, SumAdd
    <3>10. SumF(g, image(U)) = g[h[u]] + SumF(g, image(V)) /\ IsFiniteSet(image(U))
      <4>. HIDE DEF image
      <4>1. g[h[u]] \in Int
        BY <3>7
      <4>2. SumF(g, image(V) \cup {h[u]}) = g[h[u]] + SumF(g, image(V))
        BY <4>1, <3>4, <3>6, <3>8, SumAdd
      <4>3. IsFiniteSet(image(V) \cup {h[u]})
        BY <3>4, FS_AddElement
      <4>. QED BY <4>2, <4>3, <3>6
    <3>. QED BY <3>4, <3>7, <3>9, <3>10
  <2>. QED BY <2>1, <2>2
<1>2. \A U \in SUBSET S : U \in P
  <2>. HIDE DEF P
  <2>. QED BY <1>1, SubsetInduction
<1>. QED BY <1>2

----------------------------------------------------------------------------
(* The rows of the dollar filter. *)

Threads == {"scheduler", "request"}

Loads == /\ loading = [l \in Threads |-> loading[l]]
         /\ \A l \in Threads : loading[l] = [step |-> loading[l].step, row |-> loading[l].row]

Dated(r) == r # NoRow => r.read \in Int /\ r.until = r.read + DayHours

Fresh(r) == Dated(r) /\ (r # NoRow => r.read >= hour - DayHours - 1)

\* The load whose row is not stored yet.
Computing(l) == loading[l].step \in {"loaded", "upserted"}

\* Once the scheduler has checked, the newest row lives for the rest of the hour, or
\* the scheduler is about to store one.  This is what makes freshness inductive: rows
\* only age when the hour passes, and it passes when the check is over.
FreshInv ==
  /\ hour \in Int /\ Loads
  /\ \A l \in Threads : loading[l].step # "idle" =>
       loading[l].row.read = hour /\ loading[l].row.until = hour + DayHours
  /\ Fresh(latest)
  /\ \A r \in reading : Fresh(r)
  /\ Dated(cached)
  /\ checked => Computing("scheduler") \/ (latest # NoRow => latest.until >= hour)

LEMMA FreshIsServed == FreshInv => FilterIsFresh
<1> SUFFICES ASSUME FreshInv, NEW r \in Served, r # NoRow PROVE r.read >= hour - DayHours - 1
  BY DEF FilterIsFresh
<1>1. CASE r \in reading
  BY <1>1 DEF FreshInv, Fresh
<1>2. CASE r = latest
  BY <1>2 DEF FreshInv, Fresh
<1>3. CASE CacheServes /\ r = cached
  BY <1>3, DollarAssumption DEF FreshInv, Dated, CacheServes
<1> QED BY <1>1, <1>2, <1>3 DEF Served

LEMMA FreshAtStart == UsdInit => FreshInv
<1> SUFFICES ASSUME UsdInit PROVE FreshInv
  OBVIOUS
<1>1. hour \in Int
  BY DollarAssumption DEF UsdInit
<1>2. Loads /\ \A l \in Threads : loading[l].step = "idle"
  BY DEF UsdInit, Loads, Threads, NoLoad
<1> QED BY <1>1, <1>2 DEF UsdInit, FreshInv, Fresh, Dated

\* A thread reads the candles of this hour; nothing else changes.
LEMMA LoadIsFresh ==
  ASSUME FreshInv, NEW l \in Threads, NEW source, Load(l, source)
  PROVE  /\ Loads'
         /\ \A k \in Threads : loading'[k].step # "idle" =>
              loading'[k].row.read = hour /\ loading'[k].row.until = hour + DayHours
         /\ loading'[l].step = "loaded" /\ (\A k \in Threads : k # l => loading'[k] = loading[k])
<1>1. loading' = [k \in Threads |-> IF k = l THEN [step |-> "loaded", row |-> Row(source)] ELSE loading[k]]
  BY DEF FreshInv, Loads, Load
<1>2. Row(source).read = hour /\ Row(source).until = hour + DayHours
  BY DEF Row
<1> QED BY <1>1, <1>2 DEF FreshInv, Loads

\* A thread takes its next step and keeps its row, or is done.
LEMMA ThreadGoes ==
  ASSUME FreshInv, NEW l \in Threads, NEW from, NEW to, Goes(l, from, to), from # "idle"
  PROVE  /\ Loads'
         /\ loading[l].step = from /\ loading'[l].step = to
         /\ to # "idle" => loading'[l].row = loading[l].row
         /\ \A k \in Threads : k # l => loading'[k] = loading[k]
<1>1. loading' = [k \in Threads |->
                    IF k = l THEN IF to = "idle" THEN NoLoad ELSE [step |-> to, row |-> loading[l].row]
                    ELSE loading[k]]
  <2>1. loading[l] = [step |-> loading[l].step, row |-> loading[l].row]
    BY DEF FreshInv, Loads
  <2>2. [loading[l] EXCEPT !.step = to] = [step |-> to, row |-> loading[l].row]
    BY <2>1
  <2> QED BY <2>2 DEF FreshInv, Loads, Goes
<1> QED BY <1>1 DEF FreshInv, Loads, Goes, NoLoad

LEMMA NextFresh == FreshInv /\ [UsdNext]_usdVars => FreshInv'
<1> SUFFICES ASSUME FreshInv, [UsdNext]_usdVars PROVE FreshInv'
  OBVIOUS
<1> DEFINE RowsOfThisHour == \A l \in Threads : loading[l].step # "idle" =>
                       loading[l].row.read = hour /\ loading[l].row.until = hour + DayHours
<1> hour \in Int /\ DayHours \in Nat /\ DayHours > 0
  BY DollarAssumption DEF FreshInv
<1> DOMAIN loading = Threads
  BY DEF FreshInv, Loads
<1>1. CASE Schedule
  <2>1. PICK source : Load("scheduler", source)
    BY <1>1 DEF Schedule
  <2>2. Loads' /\ RowsOfThisHour' /\ loading'["scheduler"].step = "loaded"
    BY <2>1, LoadIsFresh DEF Threads, Load
  <2> QED BY <2>1, <2>2 DEF FreshInv, Load, Fresh, Dated, Computing
<1>2. CASE ScheduleNothing
  BY <1>2 DEF ScheduleNothing, FreshInv, Loads, Fresh, Dated, Computing
<1>3. CASE Recompute
  <2>1. PICK source : Load("request", source)
    BY <1>3 DEF Recompute
  <2>2. Loads' /\ RowsOfThisHour' /\ loading'["scheduler"] = loading["scheduler"]
    BY <2>1, LoadIsFresh DEF Threads, Load
  <2> QED BY <1>3, <2>1, <2>2 DEF FreshInv, Load, Recompute, Fresh, Dated, Computing
<1>4. ASSUME NEW l \in Threads, UpsertCandles(l) PROVE FreshInv'
  <2>1. /\ Loads' /\ loading[l].step = "loaded" /\ loading'[l].step = "upserted"
        /\ loading'[l].row = loading[l].row
        /\ \A k \in Threads : k # l => loading'[k] = loading[k]
    BY <1>4, ThreadGoes DEF UpsertCandles
  <2>2. RowsOfThisHour'
    BY <1>4, <2>1 DEF FreshInv, UpsertCandles
  <2>3. Computing("scheduler") => Computing("scheduler")'
    BY <2>1 DEF Computing, Threads
  <2> QED BY <1>4, <2>1, <2>2, <2>3 DEF FreshInv, UpsertCandles, Fresh, Dated
<1>5. ASSUME NEW l \in Threads, StoreSnapshot(l) PROVE FreshInv'
  <2>1. /\ Loads' /\ loading[l].step = "upserted" /\ loading'[l].step = "stored"
        /\ loading'[l].row = loading[l].row
        /\ \A k \in Threads : k # l => loading'[k] = loading[k]
    BY <1>5, ThreadGoes DEF StoreSnapshot
  <2>2. RowsOfThisHour'
    BY <1>5, <2>1 DEF FreshInv, StoreSnapshot
  <2>3. latest'.read = hour /\ latest'.until = hour + DayHours
    BY <1>5, <2>1 DEF FreshInv, StoreSnapshot
  <2> QED BY <1>5, <2>1, <2>2, <2>3 DEF FreshInv, StoreSnapshot, Fresh, Dated
<1>6. ASSUME NEW l \in Threads, CacheOwn(l) PROVE FreshInv'
  <2>1. /\ Loads' /\ loading[l].step = "stored" /\ loading'[l].step = "idle"
        /\ \A k \in Threads : k # l => loading'[k] = loading[k]
    BY <1>6, ThreadGoes DEF CacheOwn
  <2>2. RowsOfThisHour'
    BY <1>6, <2>1 DEF FreshInv, CacheOwn
  <2>3. Computing("scheduler") => Computing("scheduler")'
    BY <2>1 DEF Computing, Threads
  <2>4. cached'.read = hour /\ cached'.until = hour + DayHours
    BY <1>6, <2>1 DEF FreshInv, CacheOwn
  <2> QED BY <1>6, <2>1, <2>2, <2>3, <2>4 DEF FreshInv, CacheOwn, Fresh, Dated
<1>7. CASE ReadLatest
  BY <1>7 DEF ReadLatest, FreshInv, Loads, Fresh, Dated, Computing
<1>8. ASSUME NEW r \in reading, CacheRead(r) PROVE FreshInv'
  BY <1>8 DEF CacheRead, FreshInv, Loads, Fresh, Dated, Computing
<1>9. CASE RestartServer
  <2>1. Loads' /\ \A l \in Threads : loading'[l].step = "idle"
    BY <1>9 DEF RestartServer, FreshInv, Loads, Threads, NoLoad
  <2> QED BY <1>9, <2>1 DEF RestartServer, FreshInv, Fresh, Dated
<1>10. CASE HourPasses
  <2>1. \A l \in Threads : loading[l].step = "idle"
    BY <1>10 DEF HourPasses, NoLoad
  <2>2. latest # NoRow => latest.until >= hour
    BY <1>10, <2>1 DEF HourPasses, FreshInv, Computing, Threads
  <2>3. hour' = hour + 1 /\ reading' = {} /\ ~checked' /\ UNCHANGED <<latest, loading, cached>>
    BY <1>10 DEF HourPasses
  <2> QED BY <2>1, <2>2, <2>3 DEF FreshInv, Loads, Fresh, Dated
<1>11. CASE UNCHANGED usdVars
  BY <1>11 DEF usdVars, FreshInv, Loads, Fresh, Dated, Computing
<1> QED BY <1>1, <1>2, <1>3, <1>4, <1>5, <1>6, <1>7, <1>8, <1>9, <1>10, <1>11 DEF UsdNext

(* For every length of the day, every history and however often the API fails  *)
(* to reach the bridge, restarts or recomputes in two threads at once: a row   *)
(* that filters a signal was computed at most a day and an hour before.        *)
THEOREM FilterStaysFresh == UsdSpec => []FilterIsFresh
<1>1. UsdInit => FreshInv
  BY FreshAtStart
<1>2. FreshInv /\ [UsdNext]_usdVars => FreshInv'
  BY NextFresh
<1>3. FreshInv => FilterIsFresh
  BY FreshIsServed
<1> QED BY <1>1, <1>2, <1>3, PTL DEF UsdSpec

----------------------------------------------------------------------------
(* The newest days of a set of dates. *)

\* A finite set of dates: every subset has a greatest and a least one.
LEMMA NewestAreUp ==
    ASSUME NEW A \in SUBSET Int, NEW n, NEW a \in A, NEW b \in A,
           b \in LastDays(A, n), a > b, IsFiniteSet(A), n \in Nat
    PROVE  a \in LastDays(A, n)
<1>. DEFINE up(d) == {e \in A : e > d}
<1>1. up(a) \in SUBSET up(b)
  <2>. SUFFICES ASSUME NEW e \in A, e > a PROVE e > b
    OBVIOUS
  <2>. e \in Int /\ a \in Int /\ b \in Int
    OBVIOUS
  <2>. QED OBVIOUS
<1>2. IsFiniteSet(up(b)) /\ Cardinality(up(b)) < n
  BY FS_Subset DEF LastDays
<1>3. Cardinality(up(a)) <= Cardinality(up(b)) /\ Cardinality(up(a)) \in Nat
  BY <1>1, <1>2, FS_Subset, FS_CardinalityType
<1>4. Cardinality(up(b)) \in Nat
  BY <1>2, FS_CardinalityType
<1>. QED BY <1>2, <1>3, <1>4 DEF LastDays

\* There are n of them, when the set has n.
LEMMA NewestCount ==
    ASSUME NEW A \in SUBSET Int, IsFiniteSet(A), NEW n \in Nat, Cardinality(A) >= n
    PROVE  Cardinality(LastDays(A, n)) >= n
<1>. DEFINE B == LastDays(A, n)
            up(d) == {e \in A : e > d}
<1>0. B \in SUBSET A /\ IsFiniteSet(B) /\ Cardinality(B) \in Nat
  BY FS_Subset, FS_CardinalityType DEF LastDays
<1>1. CASE A = B
  BY <1>1
<1>2. CASE A # B
  <2>1. A \ B # {} /\ A \ B \in SUBSET Int /\ IsFiniteSet(A \ B)
    BY <1>0, <1>2, FS_Difference
  <2>2. PICK m \in A \ B : \A y \in A \ B : m >= y
    <3>. HIDE DEF B
    <3>. QED BY <2>1, GreatestExists
  <2>3. up(m) \in SUBSET B
    <3>. SUFFICES ASSUME NEW e \in A, e > m PROVE e \in B
      OBVIOUS
    <3>. HIDE DEF B
    <3>1. e \in Int /\ m \in Int
      BY <2>2
    <3>. QED BY <2>2, <3>1
  <2>4. Cardinality(up(m)) <= Cardinality(B) /\ Cardinality(up(m)) \in Nat
    <3>. HIDE DEF B
    <3>1. IsFiniteSet(up(m)) /\ Cardinality(up(m)) <= Cardinality(B)
      BY <1>0, <2>3, FS_Subset
    <3>. QED BY <3>1, FS_CardinalityType
  <2>5. ~(Cardinality(up(m)) < n)
    BY <2>2 DEF LastDays
  <2>. QED BY <1>0, <2>4, <2>5
<1>. QED BY <1>1, <1>2

\* A part of the dates that holds the n newest has the same n newest.
LEMMA NewestSame ==
    ASSUME NEW A \in SUBSET Int, IsFiniteSet(A), NEW n \in Nat, NEW S \in SUBSET A,
           Cardinality(A) >= n => LastDays(A, n) \subseteq S
    PROVE  /\ Cardinality(S) >= n <=> Cardinality(A) >= n
           /\ Cardinality(A) >= n => LastDays(S, n) = LastDays(A, n)
<1>. DEFINE B == LastDays(A, n)
            inA(d) == {e \in A : e > d}
            inS(d) == {e \in S : e > d}
<1>0. /\ IsFiniteSet(S) /\ Cardinality(S) \in Nat /\ Cardinality(A) \in Nat
      /\ Cardinality(S) <= Cardinality(A)
  BY FS_Subset, FS_CardinalityType
<1>1. ASSUME Cardinality(A) >= n PROVE Cardinality(S) >= n
  <2>1. B \in SUBSET S /\ Cardinality(B) >= n
    BY <1>1, NewestCount
  <2>2. IsFiniteSet(B) /\ Cardinality(B) <= Cardinality(S) /\ Cardinality(B) \in Nat
    BY <2>1, <1>0, FS_Subset, FS_CardinalityType
  <2>. QED BY <2>1, <2>2, <1>0
<1>2. ASSUME Cardinality(A) >= n PROVE LastDays(S, n) = B
  <2>0. B \subseteq S /\ Cardinality(B) >= n /\ B \subseteq A
    BY <1>2, NewestCount DEF LastDays
  <2>1. ASSUME NEW d \in B PROVE d \in LastDays(S, n)
    <3>1. inS(d) \in SUBSET inA(d) /\ IsFiniteSet(inA(d)) /\ Cardinality(inA(d)) < n
      BY <2>1, FS_Subset DEF LastDays
    <3>2. Cardinality(inS(d)) <= Cardinality(inA(d)) /\ Cardinality(inS(d)) \in Nat /\ Cardinality(inA(d)) \in Nat
      BY <3>1, FS_Subset, FS_CardinalityType
    <3>. QED BY <2>0, <2>1, <3>1, <3>2 DEF LastDays
  <2>2. ASSUME NEW d \in LastDays(S, n), d \notin B PROVE FALSE
    <3>1. d \in S /\ d \in A /\ Cardinality(inS(d)) < n /\ IsFiniteSet(inS(d))
      BY <2>2, <1>0, FS_Subset DEF LastDays
    <3>2. B \in SUBSET inS(d)
      <4>. SUFFICES ASSUME NEW b \in B PROVE b \in S /\ b > d
        <5>. HIDE DEF B
        <5>. QED OBVIOUS
      <4>1. b \in A /\ b \in S /\ b # d
        BY <2>0, <2>2
      <4>2. ~(d > b)
        <5>. HIDE DEF B
        <5>1. B = LastDays(A, n)
          BY DEF B
        <5>. QED BY <4>1, <3>1, <2>2, <5>1, NewestAreUp
      <4>3. b \in Int /\ d \in Int
        BY <4>1, <3>1
      <4>. QED BY <4>1, <4>2, <4>3
    <3>3. Cardinality(B) <= Cardinality(inS(d)) /\ Cardinality(B) \in Nat /\ Cardinality(inS(d)) \in Nat
      <4>. HIDE DEF B
      <4>1. IsFiniteSet(B) /\ Cardinality(B) <= Cardinality(inS(d))
        BY <3>1, <3>2, FS_Subset
      <4>. QED BY <4>1, <3>1, FS_CardinalityType
    <3>. QED BY <3>1, <3>3, <2>0
  <2>3. LastDays(S, n) \subseteq B
    <3>. HIDE DEF B
    <3>. QED BY <2>2
  <2>4. B \subseteq LastDays(S, n)
    BY <2>1
  <2>. QED BY <2>3, <2>4
<1>. QED BY <1>0, <1>1, <1>2

\* The total of the prices is their sum ...
LEMMA TotalIsSum ==
    ASSUME NEW p, NEW S
    PROVE  Total(p, S) = SumF(p, S)
  BY DEF Total, FoldSet, MapThenFoldSet, SumF, Sums, Some

\* ... and only looks at the dates that are summed.
LEMMA TotalSame ==
    ASSUME NEW p, NEW q, NEW S, IsFiniteSet(S), \A d \in S : p[d] = q[d]
    PROVE  Total(p, S) = Total(q, S)
  BY TotalIsSum, SumSame

\* The date n before the newest one is there, and only the n + 1 newest tell which.
LEMMA DaysBackSame ==
    ASSUME NEW A \in SUBSET Int, IsFiniteSet(A), NEW n \in Nat, Cardinality(A) > n,
           NEW S \in SUBSET A, LastDays(A, n + 1) \subseteq S
    PROVE  DaysBack(A, n) \in LastDays(A, n + 1) /\ DaysBack(S, n) = DaysBack(A, n)
<1>. DEFINE B == LastDays(A, n + 1)
            back(T, d) == d \in T /\ Cardinality({e \in T : e > d}) = n
<1>0. Cardinality(A) \in Nat /\ n + 1 \in Nat /\ Cardinality(A) >= n + 1
  BY FS_CardinalityType
<1>1. LastDays(S, n + 1) = B
  BY <1>0, NewestSame
<1>2. ASSUME NEW T \in SUBSET A, NEW d, back(T, d), LastDays(T, n + 1) = B
      PROVE  d \in B /\ {e \in T : e > d} = {e \in B : e > d}
  <2>1. d \in B
    <3>1. d \in LastDays(T, n + 1)
      BY <1>2 DEF LastDays
    <3>. QED BY <3>1, <1>2
  <2>2. ASSUME NEW e \in T, e > d PROVE e \in B
    <3>1. IsFiniteSet(T) /\ T \in SUBSET Int /\ d \in T /\ d \in LastDays(T, n + 1)
      BY <1>2, <2>1, FS_Subset DEF LastDays
    <3>2. e \in LastDays(T, n + 1)
      BY <3>1, <2>2, <1>0, NewestAreUp
    <3>. QED BY <3>2, <1>2
  <2>3. B \subseteq T
    BY <1>2 DEF LastDays
  <2>. HIDE DEF B
  <2>. QED BY <2>1, <2>2, <2>3
<1>3. \A T \in SUBSET A : \A d : LastDays(T, n + 1) = B =>
         (back(T, d) <=> back(B, d))
  <2>. SUFFICES ASSUME NEW T \in SUBSET A, NEW d, LastDays(T, n + 1) = B
                PROVE  back(T, d) <=> back(B, d)
    OBVIOUS
  <2>1. B \subseteq T
    BY DEF LastDays
  <2>2. ASSUME back(B, d) PROVE back(T, d)
    <3>1. d \in T /\ d \in LastDays(T, n + 1) /\ IsFiniteSet(T) /\ T \in SUBSET Int
      BY <2>1, <2>2, FS_Subset
    <3>2. ASSUME NEW e \in T, e > d PROVE e \in B
      <4>. HIDE DEF B
      <4>. QED BY <3>1, <3>2, <1>0, NewestAreUp
    <3>3. {e \in T : e > d} = {e \in B : e > d}
      <4>. HIDE DEF B
      <4>. QED BY <3>2, <2>1
    <3>. QED BY <2>2, <3>1, <3>3
  <2>3. ASSUME back(T, d) PROVE back(B, d)
    <3>1. d \in B /\ {e \in T : e > d} = {e \in B : e > d}
      BY <2>3, <1>2
    <3>. QED BY <3>1, <2>3
  <2>. QED BY <2>2, <2>3
<1>4. \A d : back(A, d) <=> back(S, d)
  <2>. HIDE DEF back, B
  <2>1. LastDays(A, n + 1) = B
    BY DEF B
  <2>. QED BY <1>1, <1>3, <2>1
<1>5. DaysBack(S, n) = DaysBack(A, n)
  <2>1. DaysBack(S, n) = (CHOOSE d : back(S, d)) /\ DaysBack(A, n) = (CHOOSE d : back(A, d))
    BY DEF DaysBack
  <2>. HIDE DEF back
  <2>. QED BY <2>1, <1>4
<1>6. \E d : back(A, d)
  <2>1. B \in SUBSET Int /\ IsFiniteSet(B) /\ Cardinality(B) >= n + 1 /\ Cardinality(B) \in Nat /\ B \in SUBSET A
    BY <1>0, NewestCount, FS_Subset, FS_CardinalityType DEF LastDays
  <2>2. B # {}
    BY <2>1, FS_EmptySet
  <2>3. PICK m \in B : \A y \in B : m <= y
    <3>. HIDE DEF B
    <3>. QED BY <2>1, <2>2, LeastExists
  <2>4. {e \in B : e > m} = B \ {m}
    <3>. HIDE DEF B
    <3>1. \A e \in B : e \in Int /\ m \in Int /\ m <= e
      BY <2>1, <2>3
    <3>2. \A e \in B : e > m <=> e # m
      BY <3>1
    <3>. QED BY <3>2
  <2>5. Cardinality({e \in B : e > m}) = Cardinality(B) - 1
    <3>. HIDE DEF B
    <3>. QED BY <2>1, <2>3, <2>4, FS_RemoveElement
  <2>6. {e \in A : e > m} = {e \in B : e > m}
    <3>1. m \in A /\ m \in LastDays(A, n + 1)
      BY <2>3 DEF LastDays
    <3>2. ASSUME NEW e \in A, e > m PROVE e \in B
      BY <3>1, <3>2, <1>0, NewestAreUp
    <3>. HIDE DEF B
    <3>. QED BY <3>2, <2>1
  <2>7. Cardinality({e \in A : e > m}) < n + 1
    BY <2>3 DEF LastDays
  <2>8. Cardinality({e \in A : e > m}) = n
    <3>. HIDE DEF B
    <3>. QED BY <2>1, <2>5, <2>6, <2>7
  <2>. QED BY <2>3, <2>8 DEF LastDays
<1>7. back(A, DaysBack(A, n))
  <2>1. DaysBack(A, n) = (CHOOSE d : back(A, d))
    BY DEF DaysBack
  <2>. HIDE DEF back
  <2>. QED BY <2>1, <1>6
<1>8. DaysBack(A, n) \in B
  <2>. DEFINE d == DaysBack(A, n)
  <2>1. d \in A /\ Cardinality({e \in A : e > d}) = n
    BY <1>7
  <2>. HIDE DEF d
  <2>2. n < n + 1
    OBVIOUS
  <2>3. d \in B
    BY <2>1, <2>2 DEF LastDays
  <2>. QED BY <2>3 DEF d
<1>. QED BY <1>5, <1>8

\* What a history of prices says about the dates of a set: classify_dollar_strength
\* and _historical_dxy_decision have this in common.
Verdict(price, S) ==
  LET last       == price[Max(S)]
      difference == Period * last - Total(price, LastDays(S, Period))
      past       == price[DaysBack(S, Lookback)]
      falling    == /\ Cardinality(S) > Lookback
                    /\ (last - past) * 10000 <= -Drop * past
                    /\ FallsOnItsDay(price, S)
  IN IF Cardinality(S) < Period THEN "UNKNOWN"
     ELSE IF difference < -Band * Period THEN "WEAK"
     ELSE IF difference <= Band * Period THEN "NEUTRAL"
     ELSE IF falling THEN "WEAK" ELSE "STRONG"

\* The dates the two averages and the fall look at.
Needed(A, n) == IF Cardinality(A) >= n THEN LastDays(A, n) ELSE {}
NeededDates(A) == Needed(A, Period) \cup Needed(A, Lookback + 1)

\* The verdict on a part of the dates is that on all of them, when the part holds the
\* dates that are needed, with the same prices.
LEMMA VerdictSame ==
    ASSUME NEW A \in SUBSET Int, IsFiniteSet(A), NEW S \in SUBSET A, NEW p, NEW q,
           NeededDates(A) \subseteq S, \A d \in NeededDates(A) : p[d] = q[d]
    PROVE  Verdict(p, S) = Verdict(q, A)
<1>0. /\ Period \in Nat /\ Period > 0 /\ Lookback \in Nat /\ Lookback > 0
      /\ Cardinality(A) \in Nat /\ Cardinality(S) \in Nat /\ IsFiniteSet(S)
  <2>1. IsFiniteSet(S) /\ Cardinality(A) \in Nat
    BY FS_Subset, FS_CardinalityType
  <2>. QED BY <2>1, DollarAssumption, FS_CardinalityType
<1>1. Cardinality(S) >= Period <=> Cardinality(A) >= Period
  BY <1>0, NewestSame DEF NeededDates, Needed
<1>2. Cardinality(S) > Lookback <=> Cardinality(A) > Lookback
  <2>1. Cardinality(S) >= Lookback + 1 <=> Cardinality(A) >= Lookback + 1
    BY <1>0, NewestSame DEF NeededDates, Needed
  <2>. QED BY <2>1, <1>0
<1>3. CASE ~ (Cardinality(A) >= Period)
  <2>1. Cardinality(S) < Period /\ Cardinality(A) < Period
    BY <1>0, <1>1, <1>3
  <2>. QED BY <2>1 DEF Verdict
<1>4. CASE Cardinality(A) >= Period
  <2>1. LastDays(S, Period) = LastDays(A, Period) /\ LastDays(A, Period) \subseteq NeededDates(A)
    BY <1>0, <1>4, NewestSame DEF NeededDates, Needed
  <2>2. Total(p, LastDays(S, Period)) = Total(q, LastDays(A, Period))
    <3>1. IsFiniteSet(LastDays(A, Period)) /\ LastDays(A, Period) \subseteq A
      BY FS_Subset DEF LastDays
    <3>. QED BY <2>1, <3>1, TotalSame
  <2>3. A # {} /\ Max(A) \in A /\ (\A y \in A : y <= Max(A)) /\ Max(A) \in Int
    <3>1. A # {}
      BY <1>0, <1>4, FS_EmptySet
    <3>. QED BY <3>1, MaxIsGreatest
  <2>4. Max(A) \in LastDays(A, Period)
    <3>0. \A e \in A : ~ (e > Max(A))
      BY <2>3
    <3>1. {e \in A : e > Max(A)} = {}
      BY <3>0
    <3>2. Cardinality({e \in A : e > Max(A)}) = 0
      BY <3>1, FS_EmptySet
    <3>. QED BY <3>2, <2>3, <1>0 DEF LastDays
  <2>5. Max(A) \in S
    BY <2>4, <2>1
  <2>6. Max(S) = Max(A)
    <3>1. Max(S) \in S /\ (\A y \in S : y <= Max(S)) /\ Max(S) \in Int
      BY <2>5, <1>0, MaxIsGreatest
    <3>2. Max(S) \in A /\ Max(S) <= Max(A) /\ Max(A) <= Max(S)
      BY <3>1, <2>3, <2>5
    <3>. QED BY <3>1, <3>2, <2>3
  <2>7. p[Max(S)] = q[Max(A)]
    BY <2>1, <2>4, <2>6
  <2>8. ASSUME Cardinality(A) > Lookback
        PROVE  /\ p[DaysBack(S, Lookback)] = q[DaysBack(A, Lookback)]
               /\ FallsOnItsDay(p, S) <=> FallsOnItsDay(q, A)
    <3>1. LastDays(A, Lookback + 1) \subseteq NeededDates(A)
      BY <2>8, <1>0 DEF NeededDates, Needed
    <3>2. DaysBack(A, Lookback) \in LastDays(A, Lookback + 1) /\ DaysBack(S, Lookback) = DaysBack(A, Lookback)
      BY <3>1, <2>8, <1>0, DaysBackSame
    <3>3. LastDays(A, 2) \subseteq LastDays(A, Lookback + 1)
      <4>. SUFFICES ASSUME NEW d \in A, Cardinality({e \in A : e > d}) < 2
                    PROVE  Cardinality({e \in A : e > d}) < Lookback + 1
        BY DEF LastDays
      <4>1. Cardinality({e \in A : e > d}) \in Nat
        BY FS_Subset, FS_CardinalityType
      <4>. QED BY <4>1, <1>0
    <3>4. /\ DaysBack(A, 1) \in LastDays(A, 1 + 1) /\ DaysBack(S, 1) = DaysBack(A, 1)
      <4>1. Cardinality(A) > 1 /\ LastDays(A, 1 + 1) \subseteq S
        BY <3>1, <3>3, <2>8, <1>0
      <4>. QED BY <4>1, DaysBackSame
    <3>5. p[DaysBack(S, 1)] = q[DaysBack(A, 1)]
      BY <3>1, <3>3, <3>4
    <3>6. S # {Max(S)} <=> A # {Max(A)}
      <4>1. Cardinality(S) > 1 /\ Cardinality(A) > 1
        BY <2>8, <1>0, <1>2
      <4>2. S # {Max(S)} /\ A # {Max(A)}
        <5>1. \A x : Cardinality({x}) = 1
          BY FS_Singleton
        <5>2. Cardinality({Max(S)}) = 1 /\ Cardinality({Max(A)}) = 1
          BY <5>1
        <5>. QED BY <4>1, <5>2
      <4>. QED BY <4>2
    <3>. QED BY <3>1, <3>2, <3>5, <3>6, <2>7 DEF FallsOnItsDay
  <2>9. Cardinality(S) >= Period
    BY <1>1, <1>4
  <2>. QED
    <3>1. ~ (Cardinality(S) < Period) /\ ~ (Cardinality(A) < Period)
      BY <2>9, <1>4, <1>0
    <3>. QED BY <3>1, <2>2, <2>7, <2>8, <1>2 DEF Verdict
<1>. QED BY <1>3, <1>4

\* The classification of a recompute is the verdict on its dates.
LEMMA StrengthIsVerdict ==
    ASSUME NEW S \in SUBSET Int, IsFiniteSet(S), \A d \in S : closes[d] \in Int
    PROVE  Strength(S) = Verdict(closes, S)
<1>0. /\ Period \in Nat /\ Period > 0 /\ Lookback \in Nat /\ Band \in Nat /\ Cardinality(S) \in Nat
  BY DollarAssumption, FS_CardinalityType
<1>1. CASE Cardinality(S) < Period
  BY <1>1 DEF Strength, Verdict
<1>2. CASE ~ (Cardinality(S) < Period)
  <2>. DEFINE last == closes[Max(S)]
              past == closes[DaysBack(S, Lookback)]
              difference == Period * last - Total(closes, LastDays(S, Period))
              falling == /\ Cardinality(S) > Lookback
                         /\ (last - past) * 10000 <= -Drop * past
                         /\ FallsOnItsDay(closes, S)
  <2>1. S # {}
    BY <1>0, <1>2, FS_EmptySet
  <2>2. last \in Int
    BY <2>1, MaxIsGreatest
  <2>3. Total(closes, LastDays(S, Period)) \in Int
    <3>1. IsFiniteSet(LastDays(S, Period)) /\ LastDays(S, Period) \subseteq S
      BY FS_Subset DEF LastDays
    <3>2. SumF(closes, LastDays(S, Period)) \in Int
      BY <3>1, SumType
    <3>. QED BY <3>2, TotalIsSum
  <2>4. difference \in Int /\ Band * Period \in Int
    <3>. HIDE DEF last
    <3>. QED BY <1>0, <2>2, <2>3
  <2>5. Verdict(closes, S) = IF difference < -Band * Period THEN "WEAK"
                             ELSE IF difference <= Band * Period THEN "NEUTRAL"
                             ELSE IF falling THEN "WEAK" ELSE "STRONG"
    BY <1>2 DEF Verdict
  <2>6. Strength(S) = CASE difference < -Band * Period -> "WEAK"
            [] difference \in (-Band * Period)..(Band * Period) -> "NEUTRAL"
            [] difference > Band * Period /\ falling -> "WEAK"
            [] OTHER -> "STRONG"
    BY <1>2 DEF Strength
  <2>7. -Band * Period = -(Band * Period)
    BY <1>0
  <2>. HIDE DEF difference, falling
  <2>8. PICK b \in Int : b = Band * Period
    BY <2>4
  <2>9. Band * Period >= 0
    BY <1>0
  <2>10. CASE difference < -b
    BY <2>5, <2>6, <2>7, <2>8, <2>10, <2>4, <2>9
  <2>11. CASE ~(difference < -b) /\ difference <= b
    BY <2>5, <2>6, <2>7, <2>8, <2>11, <2>4, <2>9
  <2>12. CASE ~(difference <= b)
    BY <2>5, <2>6, <2>7, <2>8, <2>12, <2>4, <2>9
  <2>. QED BY <2>10, <2>11, <2>12
<1>. QED BY <1>1, <1>2

\* The decision of a backtest is the verdict on the stored candles that are closed.
LEMMA HistoryIsVerdict ==
    ASSUME NEW t
    PROVE  HistoricalStrength(t) = Verdict(dxy, ClosedBy(LoadedAt(t), t))
  BY DEF HistoricalStrength, Verdict

\* The dates with a candle before that of the day.
Before(t) == {d \in TradingDates : d < Date(t)}

\* The days a backtest loads before its first candle hold enough candles for the average
\* and for the fall, when there have been enough.  With the defaults of the code these are
\* 43 days for 30 candles: enough while no holiday falls on one of the six weeks.
SlackCovers ==
  \A t \in 0..((LastDate + 1) * DayHours), n \in {Period, Lookback + 1} :
    Cardinality(Before(t)) >= n =>
      Cardinality({d \in Before(t) : d * DayHours >= t - (Period + Lookback + Slack) * DayHours}) >= n

\* A day is closed at a time when it is before the date of that time.
LEMMA DateOf ==
    ASSUME NEW t \in Nat
    PROVE  /\ Date(t) \in Nat
           /\ \A d \in Int : (d + 1) * DayHours <= t <=> d < Date(t)
<1>0. DayHours \in Nat /\ DayHours > 0
  BY DollarAssumption
<1>1. PICK q \in Int : q = Date(t)
  BY <1>0 DEF Date
<1>2. q >= 0 /\ DayHours * q <= t /\ t < DayHours * q + DayHours
  <2>1. PICK r \in 0..(DayHours - 1) : t = DayHours * q + r
    <3>1. t % DayHours \in 0..(DayHours - 1) /\ t = DayHours * (t \div DayHours) + (t % DayHours)
      BY <1>0
    <3>. QED BY <3>1, <1>1 DEF Date
  <2>2. DayHours * q <= t /\ t < DayHours * q + DayHours
    BY <2>1, <1>0
  <2>3. ASSUME q <= -1 PROVE FALSE
    <3>1. PICK k \in Nat : q = -1 - k
      <4>1. -1 - q \in Nat /\ q = -1 - (-1 - q)
        BY <2>3
      <4>. QED BY <4>1
    <3>2. DayHours * k \in Nat
      BY <1>0
    <3>3. DayHours * q = -DayHours - DayHours * k
      BY <3>1, <1>0
    <3>. QED BY <2>2, <3>2, <3>3, <1>0
  <2>. QED BY <2>2, <2>3
<1>3. ASSUME NEW d \in Int, d < q PROVE (d + 1) * DayHours <= t
  <2>1. PICK k \in Nat : q = d + 1 + k
    <3>1. q - d - 1 \in Nat /\ q = d + 1 + (q - d - 1)
      BY <1>3
    <3>. QED BY <3>1
  <2>2. DayHours * k \in Nat
    BY <1>0
  <2>3. DayHours * q = (d + 1) * DayHours + DayHours * k
    BY <2>1, <1>0
  <2>4. DayHours * q \in Int /\ (d + 1) * DayHours \in Int
    BY <1>0
  <2>. QED BY <2>2, <2>3, <2>4, <1>2
<1>4. ASSUME NEW d \in Int, ~(d < q) PROVE ~((d + 1) * DayHours <= t)
  <2>1. PICK k \in Nat : d = q + k
    <3>1. d - q \in Nat /\ d = q + (d - q)
      BY <1>4
    <3>. QED BY <3>1
  <2>2. DayHours * k \in Nat
    BY <1>0
  <2>3. (d + 1) * DayHours = DayHours * q + DayHours + DayHours * k
    BY <2>1, <1>0
  <2>4. DayHours * q \in Int /\ (d + 1) * DayHours \in Int
    BY <1>0
  <2>. QED BY <2>2, <2>3, <2>4, <1>2, <1>0
<1>. QED BY <1>1, <1>2, <1>3, <1>4

\* Later is no earlier date.
LEMMA DateRises ==
    ASSUME NEW s \in Nat, NEW t \in Nat, s <= t
    PROVE  Date(s) <= Date(t)
<1>1. Date(s) \in Nat /\ Date(t) \in Nat
  BY DateOf
<1>2. ((Date(s) - 1) + 1) * DayHours <= s
  <2>1. Date(s) - 1 \in Int /\ Date(s) - 1 < Date(s)
    BY <1>1
  <2>. QED BY <2>1, DateOf
<1>3. ((Date(s) - 1) + 1) * DayHours \in Int
  BY <1>1, DollarAssumption
<1>4. ((Date(s) - 1) + 1) * DayHours <= t
  BY <1>2, <1>3
<1>5. Date(s) - 1 < Date(t)
  BY <1>1, <1>4, DateOf
<1>. QED BY <1>1, <1>5

\* There are finitely many dates.
LEMMA BeforeIsFinite ==
    ASSUME NEW t
    PROVE  /\ Before(t) \in SUBSET Int /\ IsFiniteSet(Before(t))
           /\ Before(t) \subseteq TradingDates /\ TradingDates \subseteq 0..LastDate /\ LastDate \in Nat
           /\ IsFiniteSet(TradingDates)
<1>1. TradingDates \subseteq 0..LastDate /\ LastDate \in Nat
  BY DollarAssumption
<1>2. IsFiniteSet(0..LastDate)
  BY <1>1, FS_Interval
<1>3. IsFiniteSet(TradingDates)
  BY <1>1, <1>2, FS_Subset
<1>4. Before(t) \subseteq TradingDates
  BY DEF Before
<1>5. IsFiniteSet(Before(t))
  BY <1>3, <1>4, FS_Subset
<1>6. \A d \in TradingDates : d \in Int
  BY <1>1
<1>7. Before(t) \in SUBSET Int
  BY <1>4, <1>6
<1>. QED BY <1>1, <1>3, <1>4, <1>5, <1>7

\* The dates a verdict needs are among the newest the bridge is asked for.
LEMMA NeededAreAsked ==
    ASSUME NEW A \in SUBSET Int, IsFiniteSet(A)
    PROVE  NeededDates(A) \subseteq LastDays(A, PairCount)
<1>1. Period \in Nat /\ Lookback \in Nat /\ PairCount \in Nat /\ Period <= PairCount /\ Lookback < PairCount
  BY DollarAssumption
<1>2. ASSUME NEW n \in Nat, n <= PairCount PROVE LastDays(A, n) \subseteq LastDays(A, PairCount)
  <2>1. ASSUME NEW d \in A, Cardinality({e \in A : e > d}) < n
        PROVE  Cardinality({e \in A : e > d}) < PairCount
    <3>1. Cardinality({e \in A : e > d}) \in Nat
      BY FS_Subset, FS_CardinalityType
    <3>. QED BY <3>1, <2>1, <1>1, <1>2
  <2>. QED BY <2>1 DEF LastDays
<1>3. Lookback + 1 \in Nat /\ Lookback + 1 <= PairCount
  BY <1>1
<1>4. LastDays(A, Period) \subseteq LastDays(A, PairCount) /\ LastDays(A, Lookback + 1) \subseteq LastDays(A, PairCount)
  BY <1>1, <1>2, <1>3
<1>. QED BY <1>4 DEF NeededDates, Needed

\* On a day of trading the bridge has the days before it.
LEMMA BridgeHasDays ==
    ASSUME hour \in Nat, Date(hour) \in TradingDates
    PROVE  Rates("bridge") = LastDays(Before(hour), PairCount)
<1>. DEFINE bars == {d \in TradingDates : d <= Date(hour)}
<1>1. Date(hour) \in bars /\ bars \in SUBSET Int /\ IsFiniteSet(bars) /\ Date(hour) \in Int
  <2>1. Date(hour) \in Int
    BY DateOf
  <2>2. IsFiniteSet(TradingDates)
    BY BeforeIsFinite
  <2>3. IsFiniteSet(bars)
    BY <2>2, FS_Subset
  <2>4. \A d \in TradingDates : d \in Int
    BY BeforeIsFinite
  <2>5. Date(hour) \in bars
    BY <2>1
  <2>6. bars \in SUBSET Int
    BY <2>4
  <2>. QED BY <2>1, <2>3, <2>5, <2>6
<1>2. Max(bars) = Date(hour)
  <2>1. Max(bars) \in bars /\ Max(bars) \in Int /\ \A y \in bars : y <= Max(bars)
    <3>. HIDE DEF bars
    <3>. QED BY <1>1, MaxIsGreatest
  <2>. QED BY <1>1, <2>1
<1>3. bars \ {Max(bars)} = Before(hour)
  <2>1. \A d \in TradingDates : d \in Int
    BY BeforeIsFinite
  <2>2. \A d \in TradingDates : (d <= Date(hour) /\ d # Date(hour)) <=> d < Date(hour)
    BY <1>1, <2>1
  <2>3. \A d : d \in bars \ {Date(hour)} <=> d \in Before(hour)
    BY <2>2 DEF Before
  <2>. QED BY <1>2, <2>3
<1>4. Rates("bridge") = LastDays(bars \ {Max(bars)}, PairCount)
  BY DEF Rates
<1>. QED BY <1>3, <1>4

\* The candles of the days before t are stored as they closed: then a backtest decides
\* what their closes say.
LEMMA HistoryAgrees ==
    ASSUME SlackCovers, NEW t \in 0..((LastDate + 1) * DayHours), DOMAIN dxy = 0..LastDate,
           \A d \in 0..LastDate : dxy[d] # 0 => d \in TradingDates,
           \A d \in LastDays(Before(t), PairCount) : dxy[d] = closes[d] /\ closes[d] # 0
    PROVE  HistoricalStrength(t) = Verdict(closes, Before(t))
<1>. DEFINE A == Before(t)
            S == ClosedBy(LoadedAt(t), t)
            first == t - (Period + Lookback + Slack) * DayHours
            loaded == {d \in A : d * DayHours >= first}
<1>0. /\ A \in SUBSET Int /\ IsFiniteSet(A) /\ A \subseteq 0..LastDate /\ A \subseteq TradingDates
      /\ t \in Nat /\ LastDate \in Nat /\ DayHours \in Nat
  <2>1. LastDate \in Nat /\ DayHours \in Nat
    BY DollarAssumption
  <2>2. (LastDate + 1) * DayHours \in Nat
    BY <2>1
  <2>. QED BY BeforeIsFinite, <2>1, <2>2
<1>1. S = {d \in loaded : dxy[d] # 0}
  <2>1. \A d \in 0..LastDate : (d + 1) * DayHours <= t <=> d < Date(t)
    BY <1>0, DateOf
  <2>2. \A d : d \in S <=> d \in 0..LastDate /\ dxy[d] # 0 /\ d * DayHours >= first /\ d < Date(t)
    BY <2>1 DEF ClosedBy, LoadedAt
  <2>3. \A d : d \in loaded /\ dxy[d] # 0 <=> d \in TradingDates /\ d < Date(t) /\ d * DayHours >= first /\ dxy[d] # 0
    BY DEF Before
  <2>4. \A d \in TradingDates : d \in 0..LastDate
    BY BeforeIsFinite
  <2>5. \A d : d \in S <=> d \in loaded /\ dxy[d] # 0
    <3>. HIDE DEF S, loaded, first
    <3>. QED BY <2>2, <2>3, <2>4
  <2>. HIDE DEF S, loaded
  <2>. QED BY <2>5
<1>2. ASSUME NEW n \in Nat, n \in {Period, Lookback + 1}, Cardinality(A) >= n PROVE LastDays(A, n) \subseteq loaded
  <2>. SUFFICES ASSUME NEW d \in A, Cardinality({e \in A : e > d}) < n, ~(d * DayHours >= first)
                PROVE  FALSE
    BY DEF LastDays
  <2>1. Cardinality(loaded) >= n
    BY <1>2 DEF SlackCovers
  <2>2. loaded \in SUBSET {e \in A : e > d}
    <3>. SUFFICES ASSUME NEW e \in A, e * DayHours >= first PROVE e > d
      OBVIOUS
    <3>1. e \in Int /\ d \in Int /\ first \in Int
      BY <1>0, DollarAssumption
    <3>. HIDE DEF first
    <3>2. SUFFICES ASSUME e <= d PROVE FALSE
      BY <3>1
    <3>3. PICK k \in Nat : d = e + k
      <4>1. d - e \in Nat /\ d = e + (d - e)
        BY <3>1, <3>2
      <4>. QED BY <4>1
    <3>4. DayHours * k \in Nat
      BY <1>0
    <3>5. d * DayHours = e * DayHours + DayHours * k /\ e * DayHours \in Int
      BY <1>0, <3>1, <3>3
    <3>. QED BY <3>1, <3>4, <3>5
  <2>3. IsFiniteSet({e \in A : e > d})
    BY <1>0, FS_Subset
  <2>4. Cardinality(loaded) <= Cardinality({e \in A : e > d}) /\ Cardinality(loaded) \in Nat
        /\ Cardinality({e \in A : e > d}) \in Nat
    <3>. HIDE DEF loaded, A
    <3>1. IsFiniteSet(loaded) /\ Cardinality(loaded) <= Cardinality({e \in A : e > d})
      BY <2>2, <2>3, FS_Subset
    <3>. QED BY <2>3, <3>1, FS_CardinalityType
  <2>. QED BY <2>1, <2>4
<1>3. NeededDates(A) \subseteq LastDays(A, PairCount)
  BY <1>0, NeededAreAsked
<1>4. NeededDates(A) \subseteq loaded
  <2>1. Period \in Nat /\ Lookback + 1 \in Nat
    BY DollarAssumption
  <2>2. /\ Cardinality(A) >= Period => LastDays(A, Period) \subseteq loaded
        /\ Cardinality(A) >= Lookback + 1 => LastDays(A, Lookback + 1) \subseteq loaded
    <3>. HIDE DEF A, loaded
    <3>. QED BY <1>2, <2>1
  <2>. HIDE DEF A, loaded
  <2>. QED BY <2>2 DEF NeededDates, Needed
<1>5. S \in SUBSET A /\ NeededDates(A) \subseteq S /\ \A d \in NeededDates(A) : dxy[d] = closes[d]
  <2>1. \A d \in NeededDates(A) : dxy[d] = closes[d] /\ closes[d] # 0
    BY <1>3
  <2>2. loaded \subseteq A
    OBVIOUS
  <2>. HIDE DEF A, S, loaded
  <2>. QED BY <1>1, <1>4, <2>1, <2>2
<1>6. Verdict(dxy, S) = Verdict(closes, A)
  <2>. HIDE DEF A, S
  <2>. QED BY <1>0, <1>5, VerdictSame
<1>. QED BY <1>6, HistoryIsVerdict

\* A row whose candles came from the bridge on a day of trading, ...
ClosedRow(r) == r # NoRow /\ r.source = "bridge" /\ Date(r.read) \in TradingDates
\* ... whose state is what the closes of the days before it say, ...
Confirmed(r) == r.state = Verdict(closes, Before(r.read))
\* ... which are stored as they closed.
Kept(r) == \A d \in LastDays(Before(r.read), PairCount) : dxy[d] = closes[d]
Accurate(r) == ClosedRow(r) => r.read \in Nat /\ r.read <= hour /\ Confirmed(r) /\ Kept(r)

\* Candles have a day of trading and a price; those of the days that have begun.
CandleType ==
  /\ hour \in Nat /\ Date(hour) <= LastDate
  /\ closes = [d \in 0..LastDate |-> closes[d]] /\ dxy = [d \in 0..LastDate |-> dxy[d]]
  /\ \A d \in TradingDates : d <= Date(hour) => closes[d] \in Values
  /\ \A d \in 0..LastDate : dxy[d] # 0 => d \in TradingDates

\* Whatever is cached, read, stored or about to be stored is right.  That the candles are
\* stored before the row, and never with another close afterwards, makes it inductive.
AgreeInv ==
  /\ CandleType
  /\ \A l \in Threads : loading[l].step \in {"idle", "loaded", "upserted", "stored"}
  /\ \A l \in Threads : loading[l].step # "idle" /\ ClosedRow(loading[l].row) => Confirmed(loading[l].row)
  /\ \A l \in Threads : loading[l].step \in {"upserted", "stored"} => Accurate(loading[l].row)
  /\ Accurate(latest) /\ Accurate(cached)
  /\ \A r \in reading : Accurate(r)

\* On a trading day a row of the bridge says what the closes of the days before say.
LEMMA RowIsConfirmed ==
    ASSUME CandleType, NEW source, ClosedRow(Row(source))
    PROVE  /\ Row(source).source = source /\ source = "bridge" /\ Row(source).read = hour
           /\ Confirmed(Row(source))
<1>. DEFINE A == Before(hour)
            S == LastDays(A, PairCount)
<1>1. /\ Row(source).source = source /\ Row(source).read = hour
      /\ Row(source).state = Strength(Rates(source))
  BY DEF Row
<1>2. source = "bridge" /\ Date(hour) \in TradingDates
  BY <1>1 DEF ClosedRow
<1>3. Rates(source) = S
  BY <1>2, BridgeHasDays DEF CandleType
<1>4. A \in SUBSET Int /\ IsFiniteSet(A) /\ S \in SUBSET A /\ NeededDates(A) \subseteq S
  <2>1. A \in SUBSET Int /\ IsFiniteSet(A)
    BY BeforeIsFinite
  <2>2. NeededDates(A) \subseteq S
    BY <2>1, NeededAreAsked
  <2>. QED BY <2>1, <2>2 DEF LastDays
<1>5. \A d \in A : closes[d] \in Int
  <2>. SUFFICES ASSUME NEW d \in A PROVE closes[d] \in Int
    OBVIOUS
  <2>1. d \in TradingDates /\ d < Date(hour) /\ d \in Int /\ Date(hour) \in Int
    BY <1>4, DateOf DEF Before, CandleType
  <2>2. d <= Date(hour)
    BY <2>1
  <2>3. closes[d] \in Values
    BY <2>1, <2>2 DEF CandleType
  <2>4. \A v \in Values : v \in Int
    BY DollarAssumption
  <2>. QED BY <2>3, <2>4
<1>6. Strength(S) = Verdict(closes, S)
  <2>1. S \in SUBSET Int /\ IsFiniteSet(S) /\ \A d \in S : closes[d] \in Int
    <3>. HIDE DEF A, S
    <3>. QED BY <1>4, <1>5, FS_Subset
  <2>. HIDE DEF S
  <2>. QED BY <2>1, StrengthIsVerdict
<1>7. Verdict(closes, S) = Verdict(closes, A)
  <2>. HIDE DEF A, S
  <2>. QED BY <1>4, VerdictSame
<1>. QED BY <1>1, <1>2, <1>3, <1>6, <1>7 DEF Confirmed

\* Right rows that filter agree with the backtest.
LEMMA AgreeIsServed ==
    ASSUME SlackCovers, FreshInv, AgreeInv
    PROVE  FilterAgreesWithBacktest
<1>1. FilterIsFresh
  BY FreshIsServed
<1>2. ASSUME NEW r \in Served, ClosedRow(r) PROVE r.state = HistoricalStrength(r.read)
  <2>1. Accurate(r)
    <3>1. r \in reading \/ r = cached \/ r = latest
      BY DEF Served
    <3>. QED BY <3>1 DEF AgreeInv
  <2>2. r.read \in Nat /\ r.read <= hour /\ Confirmed(r) /\ Kept(r)
    BY <2>1, <1>2 DEF Accurate
  <2>3. r.read \in 0..((LastDate + 1) * DayHours)
    <3>1. hour \in Nat /\ Date(hour) <= LastDate /\ LastDate \in Nat /\ DayHours \in Nat /\ Date(hour) \in Nat
      BY DateOf, DollarAssumption DEF AgreeInv, CandleType
    <3>2. ~ (LastDate < Date(hour))
      BY <3>1
    <3>3. ~ ((LastDate + 1) * DayHours <= hour)
      BY <3>1, <3>2, DateOf
    <3>4. (LastDate + 1) * DayHours \in Nat
      BY <3>1
    <3>. QED BY <3>1, <3>3, <3>4, <2>2
  <2>4. DOMAIN dxy = 0..LastDate /\ \A d \in 0..LastDate : dxy[d] # 0 => d \in TradingDates
    <3>1. dxy = [d \in 0..LastDate |-> dxy[d]]
      BY DEF AgreeInv, CandleType
    <3>2. DOMAIN [d \in 0..LastDate |-> dxy[d]] = 0..LastDate
      OBVIOUS
    <3>3. DOMAIN dxy = 0..LastDate
      BY <3>1, <3>2
    <3>. QED BY <3>3 DEF AgreeInv, CandleType
  <2>5. ASSUME NEW d \in LastDays(Before(r.read), PairCount) PROVE dxy[d] = closes[d] /\ closes[d] # 0
    <3>1. d \in TradingDates /\ d < Date(r.read)
      BY DEF LastDays, Before
    <3>2. Date(r.read) <= Date(hour) /\ Date(r.read) \in Nat /\ Date(hour) \in Nat /\ d \in Int
      <4>1. hour \in Nat
        BY DEF AgreeInv, CandleType
      <4>2. \A e \in TradingDates : e \in Int
        BY BeforeIsFinite
      <4>. QED BY <4>1, <4>2, <2>2, <3>1, DateRises, DateOf
    <3>3. d <= Date(hour)
      BY <3>1, <3>2
    <3>4. closes[d] \in Values
      BY <3>1, <3>3 DEF AgreeInv, CandleType
    <3>5. closes[d] # 0
      BY <3>4, DollarAssumption
    <3>. QED BY <2>2, <3>5 DEF Kept
  <2>6. HistoricalStrength(r.read) = Verdict(closes, Before(r.read))
    BY <2>3, <2>4, <2>5, HistoryAgrees
  <2>. QED BY <2>2, <2>6 DEF Confirmed
<1>. QED BY <1>1, <1>2 DEF FilterAgreesWithBacktest, ClosedRow

\* At the start nothing is stored and no row is there.
LEMMA AgreeAtStart == UsdInit => AgreeInv
<1>. SUFFICES ASSUME UsdInit PROVE AgreeInv
  OBVIOUS
<1>1. /\ FirstDate \in Nat /\ DayHours \in Nat /\ DayHours > 0 /\ FirstDate <= LastDate /\ LastDate \in Nat
  BY DollarAssumption
<1>2. hour = FirstDate * DayHours /\ hour \in Nat
  BY <1>1 DEF UsdInit
<1>3. Date(hour) = FirstDate
  <2>1. Date(hour) \in Nat
    BY <1>2, DateOf
  <2>2. FirstDate - 1 < Date(hour)
    <3>1. ((FirstDate - 1) + 1) * DayHours <= hour /\ FirstDate - 1 \in Int
      BY <1>1, <1>2
    <3>. QED BY <3>1, <1>2, DateOf
  <2>3. ~ (FirstDate < Date(hour))
    <3>1. ~ ((FirstDate + 1) * DayHours <= hour)
      BY <1>1, <1>2
    <3>. QED BY <3>1, <1>1, <1>2, DateOf
  <2>. QED BY <2>1, <2>2, <2>3, <1>1
<1>4. PICK h \in [{d \in TradingDates : d <= FirstDate} -> Values] :
         closes = [d \in 0..LastDate |-> IF d \in DOMAIN h THEN h[d] ELSE 0]
  BY DEF UsdInit
<1>5. \A d \in TradingDates : d <= Date(hour) => closes[d] \in Values
  <2>. SUFFICES ASSUME NEW d \in TradingDates, d <= FirstDate PROVE closes[d] \in Values
    BY <1>3
  <2>1. d \in DOMAIN h /\ d \in 0..LastDate
    BY DollarAssumption
  <2>. QED BY <2>1, <1>4
<1>6. closes = [d \in 0..LastDate |-> closes[d]]
  BY <1>4
<1>7. dxy = [d \in 0..LastDate |-> 0]
  BY DEF UsdInit
<1>8. dxy = [d \in 0..LastDate |-> dxy[d]] /\ \A d \in 0..LastDate : dxy[d] = 0
  BY <1>7
<1>9. CandleType
  BY <1>1, <1>2, <1>3, <1>5, <1>6, <1>8 DEF CandleType
<1>10. \A l \in Threads : loading[l].step = "idle"
  BY DEF UsdInit, Threads, NoLoad
<1>11. Accurate(latest) /\ Accurate(cached) /\ reading = {}
  BY DEF UsdInit, Accurate, ClosedRow
<1>. QED BY <1>9, <1>10, <1>11 DEF AgreeInv

\* A row stays right when the hour, the closes and the stored candles do.
LEMMA RightStays ==
    ASSUME NEW r, Accurate(r), UNCHANGED <<hour, closes, dxy>>
    PROVE  Accurate(r)'
  BY DEF Accurate, Confirmed, Kept

\* A thread takes the candles of this hour.
LEMMA LoadAgrees ==
    ASSUME FreshInv, AgreeInv, NEW l \in Threads, NEW source, Load(l, source)
    PROVE  AgreeInv'
<1>1. UNCHANGED <<hour, closes, dxy, latest, cached, reading>>
  BY DEF Load
<1>2. CandleType'
  BY <1>1 DEF AgreeInv, CandleType
<1>3. loading' = [k \in Threads |-> IF k = l THEN [step |-> "loaded", row |-> Row(source)] ELSE loading[k]]
  BY DEF FreshInv, Loads, Load
<1>4. loading'[l].step = "loaded" /\ loading'[l].row = Row(source) /\ \A k \in Threads : k # l => loading'[k] = loading[k]
  BY <1>3
<1>5. ClosedRow(Row(source)) => Confirmed(Row(source))
  BY RowIsConfirmed DEF AgreeInv
<1>6. \A k \in Threads : loading'[k].step \in {"idle", "loaded", "upserted", "stored"}
  BY <1>4 DEF AgreeInv
<1>7. \A r : Confirmed(r) => Confirmed(r)'
  BY <1>1 DEF Confirmed
<1>8. \A r : Accurate(r) => Accurate(r)'
  BY <1>1, RightStays
<1>9. ASSUME NEW k \in Threads, loading'[k].step # "idle", ClosedRow(loading'[k].row)
      PROVE  Confirmed(loading[k].row)'
  <2>1. CASE k = l
    <3>1. Confirmed(Row(source))
      BY <1>4, <1>5, <1>9, <2>1
    <3>. QED BY <3>1, <1>1, <1>4, <2>1 DEF Confirmed
  <2>2. CASE k # l
    BY <2>2, <1>4, <1>9, <1>1 DEF AgreeInv, Confirmed
  <2>. QED BY <2>1, <2>2
<1>10. ASSUME NEW k \in Threads, loading'[k].step \in {"upserted", "stored"} PROVE Accurate(loading[k].row)'
  <2>1. k # l /\ loading'[k] = loading[k]
    BY <1>4, <1>10
  <2>2. Accurate(loading[k].row)
    BY <2>1, <1>10 DEF AgreeInv
  <2>3. PICK r : r = loading[k].row
    OBVIOUS
  <2>4. Accurate(r)'
    BY <2>2, <2>3, <1>1, RightStays
  <2>. QED BY <2>1, <2>3, <2>4, <1>1 DEF Accurate, ClosedRow, Confirmed, Kept
<1>11. Accurate(latest)' /\ Accurate(cached)' /\ \A r \in reading' : Accurate(r)'
  BY <1>1 DEF AgreeInv, Accurate, ClosedRow, Confirmed, Kept
<1>. QED BY <1>2, <1>6, <1>9, <1>10, <1>11 DEF AgreeInv, ClosedRow

\* What the closes say about the days before a time that is over does not change.
LEMMA VerdictStays ==
    ASSUME NEW A \in SUBSET Int, IsFiniteSet(A), NEW p, NEW q, \A d \in A : p[d] = q[d]
    PROVE  Verdict(p, A) = Verdict(q, A)
<1>1. NeededDates(A) \subseteq A
  BY DEF NeededDates, Needed, LastDays
<1>2. A \in SUBSET A /\ \A d \in NeededDates(A) : p[d] = q[d]
  BY <1>1
<1>. QED BY <1>1, <1>2, VerdictSame

\* The candles of the hour are stored before the row they belong to.
LEMMA UpsertAgrees ==
    ASSUME FreshInv, AgreeInv, NEW l \in Threads, UpsertCandles(l)
    PROVE  AgreeInv'
<1>0. UNCHANGED <<hour, closes, latest, cached, reading>>
  BY DEF UpsertCandles
<1>1. /\ loading[l].step = "loaded" /\ loading'[l].step = "upserted"
      /\ loading'[l].row = loading[l].row
      /\ \A k \in Threads : k # l => loading'[k] = loading[k]
  BY ThreadGoes DEF UpsertCandles
<1>. DEFINE rates == Rates(loading[l].row.source)
<1>2. dxy' = [d \in 0..LastDate |-> IF d \in rates THEN closes[d] ELSE dxy[d]]
  <2>1. DOMAIN dxy = 0..LastDate
    <3>1. DOMAIN [d \in 0..LastDate |-> dxy[d]] = 0..LastDate
      OBVIOUS
    <3>. QED BY <3>1 DEF AgreeInv, CandleType
  <2>. QED BY <2>1 DEF UpsertCandles
<1>3. \A d \in 0..LastDate : dxy'[d] = IF d \in rates THEN closes[d] ELSE dxy[d]
  <2>. HIDE DEF rates
  <2>. QED BY <1>2
<1>4. rates \subseteq TradingDates
  <2>1. \A S, n : LastDays(S, n) \subseteq S
    BY DEF LastDays
  <2>. DEFINE bars == {d \in TradingDates : d <= Date(hour)}
  <2>2. rates = LastDays(bars \ {Max(bars)}, PairCount) \/ rates = LastDays(bars, PairCount) \/ rates = {}
    BY DEF Rates
  <2>3. bars \subseteq TradingDates /\ bars \ {Max(bars)} \subseteq TradingDates
    OBVIOUS
  <2>. HIDE DEF bars, rates
  <2>. QED BY <2>1, <2>2, <2>3
<1>5. CandleType'
  <2>1. \A d \in 0..LastDate : dxy'[d] # 0 => d \in TradingDates
    <3>. HIDE DEF rates
    <3>. QED BY <1>3, <1>4 DEF AgreeInv, CandleType
  <2>2. dxy' = [d \in 0..LastDate |-> dxy'[d]]
    <3>. HIDE DEF rates
    <3>. QED BY <1>2
  <2>. QED BY <1>0, <2>1, <2>2 DEF AgreeInv, CandleType
<1>6. ASSUME NEW r, Accurate(r) PROVE Accurate(r)'
  <2>. SUFFICES ASSUME ClosedRow(r) PROVE r.read \in Nat /\ r.read <= hour /\ Confirmed(r) /\ Kept(r)'
    BY <1>0 DEF Accurate, ClosedRow, Confirmed
  <2>1. r.read \in Nat /\ r.read <= hour /\ Confirmed(r) /\ Kept(r)
    BY <1>6 DEF Accurate
  <2>2. ASSUME NEW d \in LastDays(Before(r.read), PairCount) PROVE dxy'[d] = closes[d]
    <3>1. d \in 0..LastDate
      BY BeforeIsFinite DEF LastDays
    <3>2. dxy[d] = closes[d]
      BY <2>1 DEF Kept
    <3>. HIDE DEF rates
    <3>. QED BY <3>1, <3>2, <1>3
  <2>. QED BY <2>1, <2>2, <1>0 DEF Kept
<1>7. Accurate(loading[l].row)'
  <2>. DEFINE r == loading[l].row
  <2>1. PICK q : q = r
    OBVIOUS
  <2>2. ASSUME ClosedRow(q) PROVE q.read \in Nat /\ q.read <= hour /\ Confirmed(q) /\ Kept(q)'
    <3>1. q.read = hour /\ hour \in Nat
      BY <1>1, <2>1 DEF FreshInv, AgreeInv, CandleType
    <3>2. Confirmed(q)
      BY <1>1, <2>1, <2>2 DEF AgreeInv
    <3>3. rates = LastDays(Before(q.read), PairCount)
      <4>1. q.source = "bridge" /\ Date(hour) \in TradingDates
        BY <2>2, <3>1 DEF ClosedRow
      <4>. QED BY <4>1, <3>1, <2>1, BridgeHasDays
    <3>4. ASSUME NEW d \in LastDays(Before(q.read), PairCount) PROVE dxy'[d] = closes[d]
      <4>1. d \in 0..LastDate
        BY BeforeIsFinite DEF LastDays
      <4>. HIDE DEF rates
      <4>. QED BY <4>1, <3>3, <1>3
    <3>. QED BY <3>1, <3>2, <3>4, <1>0 DEF Kept
  <2>3. Accurate(q)'
    BY <2>2, <1>0 DEF Accurate, ClosedRow, Confirmed
  <2>4. loading[l].row' = q
    BY <1>1, <2>1
  <2>. QED BY <2>3, <2>4 DEF Accurate, ClosedRow, Confirmed, Kept
<1>8. ASSUME NEW k \in Threads, loading'[k].step \in {"upserted", "stored"} PROVE Accurate(loading[k].row)'
  <2>1. CASE k = l
    BY <2>1, <1>7
  <2>2. CASE k # l
    <3>1. PICK q : q = loading[k].row
      OBVIOUS
    <3>2. Accurate(q)
      BY <3>1, <2>2, <1>8, <1>1 DEF AgreeInv
    <3>3. Accurate(q)' /\ loading[k].row' = q
      BY <3>1, <3>2, <1>6, <2>2, <1>1
    <3>. QED BY <3>3 DEF Accurate, ClosedRow, Confirmed, Kept
  <2>. QED BY <2>1, <2>2
<1>9. \A k \in Threads : loading'[k].step \in {"idle", "loaded", "upserted", "stored"}
  BY <1>1 DEF AgreeInv
<1>10. \A k \in Threads : loading'[k].step # "idle" /\ ClosedRow(loading'[k].row) => Confirmed(loading[k].row)'
  <2>. SUFFICES ASSUME NEW k \in Threads, loading'[k].step # "idle", ClosedRow(loading'[k].row)
                PROVE  Confirmed(loading[k].row)'
    OBVIOUS
  <2>1. loading'[k].row = loading[k].row /\ loading[k].step # "idle"
    BY <1>1
  <2>2. Confirmed(loading[k].row)
    BY <2>1 DEF AgreeInv
  <2>. QED BY <2>1, <2>2, <1>0 DEF Confirmed
<1>11. Accurate(latest)' /\ Accurate(cached)' /\ \A r \in reading' : Accurate(r)'
  <2>1. \A r : Accurate(r) => Accurate(r)'
    BY <1>6
  <2>2. PICK a, b : a = latest /\ b = cached
    OBVIOUS
  <2>3. Accurate(a)' /\ Accurate(b)' /\ \A r \in reading : Accurate(r)'
    BY <2>1, <2>2 DEF AgreeInv
  <2>. QED BY <2>2, <2>3, <1>0 DEF Accurate, ClosedRow, Confirmed, Kept
<1>. QED BY <1>5, <1>8, <1>9, <1>10, <1>11 DEF AgreeInv, ClosedRow

\* Rows are stored, cached, read and forgotten as they are.
LEMMA StoreAgrees ==
    ASSUME FreshInv, AgreeInv, NEW l \in Threads, StoreSnapshot(l) \/ CacheOwn(l)
    PROVE  AgreeInv'
<1>0. UNCHANGED <<hour, closes, dxy, reading>>
  BY DEF StoreSnapshot, CacheOwn
<1>1. /\ loading[l].step \in {"upserted", "stored"}
      /\ loading'[l].step \in {"stored", "idle"}
      /\ loading'[l].step # "idle" => loading'[l].row = loading[l].row
      /\ \A k \in Threads : k # l => loading'[k] = loading[k]
      /\ latest' \in {latest, loading[l].row} /\ cached' \in {cached, loading[l].row}
  <2>1. CASE StoreSnapshot(l)
    BY <2>1, ThreadGoes DEF StoreSnapshot
  <2>2. CASE CacheOwn(l)
    BY <2>2, ThreadGoes DEF CacheOwn
  <2>. QED BY <2>1, <2>2
<1>2. Accurate(loading[l].row)
  BY <1>1 DEF AgreeInv
<1>3. \A r : Accurate(r) => Accurate(r)'
  BY <1>0, RightStays
<1>4. ASSUME NEW k \in Threads, loading'[k].step \in {"upserted", "stored"} PROVE Accurate(loading[k].row)'
  <2>1. loading'[k].row = loading[k].row /\ Accurate(loading[k].row)
    BY <1>1, <1>2, <1>4 DEF AgreeInv
  <2>. QED BY <2>1, <1>0 DEF Accurate, ClosedRow, Confirmed, Kept
<1>5. ASSUME NEW k \in Threads, loading'[k].step # "idle", ClosedRow(loading'[k].row)
      PROVE  Confirmed(loading[k].row)'
  <2>1. loading'[k].row = loading[k].row /\ loading[k].step # "idle"
    BY <1>1, <1>5
  <2>2. Confirmed(loading[k].row)
    BY <2>1, <1>5 DEF AgreeInv
  <2>. QED BY <2>1, <2>2, <1>0 DEF Confirmed
<1>6. \A k \in Threads : loading'[k].step \in {"idle", "loaded", "upserted", "stored"}
  BY <1>1 DEF AgreeInv
<1>7. Accurate(latest') /\ Accurate(cached')
  BY <1>1, <1>2 DEF AgreeInv
<1>8. Accurate(latest)' /\ Accurate(cached)' /\ \A r \in reading' : Accurate(r)'
  BY <1>7, <1>0 DEF AgreeInv, Accurate, ClosedRow, Confirmed, Kept
<1>9. CandleType'
  BY <1>0 DEF AgreeInv, CandleType
<1>. QED BY <1>4, <1>5, <1>6, <1>8, <1>9 DEF AgreeInv, ClosedRow

\* The hour passes when no thread is computing; only the close of its own day changes.
LEMMA HourAgrees ==
    ASSUME FreshInv, AgreeInv, HourPasses
    PROVE  AgreeInv'
<1>0. hour' = hour + 1 /\ Date(hour') <= LastDate /\ UNCHANGED <<dxy, latest, loading, cached, reading>>
  BY DEF HourPasses
<1>1. hour \in Nat /\ hour' \in Nat /\ Date(hour) \in Nat /\ Date(hour') \in Nat /\ Date(hour) <= Date(hour')
  <2>1. hour \in Nat /\ hour' \in Nat /\ hour <= hour'
    BY <1>0 DEF AgreeInv, CandleType
  <2>. QED BY <2>1, DateOf, DateRises
<1>2. /\ closes' = [d \in 0..LastDate |-> closes'[d]]
      /\ \A d \in 0..LastDate : d # Date(hour') => closes'[d] = closes[d]
      /\ Date(hour') \in TradingDates => closes'[Date(hour')] \in Values
  <2>0. closes = [d \in 0..LastDate |-> closes[d]] /\ DOMAIN closes = 0..LastDate
    <3>1. DOMAIN [d \in 0..LastDate |-> closes[d]] = 0..LastDate
      OBVIOUS
    <3>. QED BY <3>1 DEF AgreeInv, CandleType
  <2>1. CASE Date(hour') \in TradingDates
    <3>1. PICK p \in Values : closes' = [closes EXCEPT ![Date(hour')] = p]
      BY <2>1 DEF HourPasses
    <3>2. closes' = [d \in 0..LastDate |-> IF d = Date(hour') THEN p ELSE closes[d]]
      BY <3>1, <2>0
    <3>3. Date(hour') \in 0..LastDate
      BY <2>1, BeforeIsFinite
    <3>4. closes'[Date(hour')] = p /\ \A d \in 0..LastDate : d # Date(hour') => closes'[d] = closes[d]
      BY <3>2, <3>3
    <3>5. closes' = [d \in 0..LastDate |-> closes'[d]]
      BY <3>2
    <3>. QED BY <3>4, <3>5
  <2>2. CASE Date(hour') \notin TradingDates
    <3>1. closes' = closes
      BY <2>2 DEF HourPasses
    <3>. QED BY <3>1, <2>0, <2>2
  <2>. QED BY <2>1, <2>2
<1>3. CandleType'
  <2>1. ASSUME NEW d \in TradingDates, d <= Date(hour') PROVE closes'[d] \in Values
    <3>1. d \in 0..LastDate /\ d \in Int
      BY BeforeIsFinite
    <3>2. CASE d = Date(hour')
      BY <3>2, <1>2
    <3>3. CASE d # Date(hour')
      <4>1. closes'[d] = closes[d]
        BY <3>1, <3>3, <1>2
      <4>2. d <= Date(hour)
        <5>1. ~ (Date(hour) < d)
          <6>. SUFFICES ASSUME Date(hour) < d PROVE FALSE
            OBVIOUS
          <6>1. d < Date(hour') /\ d - 1 \in Int /\ ~ (d < Date(hour))
            BY <3>1, <3>3, <2>1, <1>1
          <6>2. (d + 1) * DayHours <= hour' /\ ~ ((d + 1) * DayHours <= hour)
            BY <6>1, <3>1, <1>1, DateOf
          <6>3. ~ ((d - 1) + 1 < Date(hour))
            BY <3>1, <1>1
          <6>4. ~ (((d - 1) + 1) * DayHours <= hour) \/ d - 1 < Date(hour)
            BY <3>1, <1>1, DateOf
          <6>5. DayHours \in Nat /\ DayHours >= 1
            BY DollarAssumption
          <6>6. d - 1 >= Date(hour)
            BY <6>1, <3>1, <1>1
          <6>7. ~ (d - 1 < Date(hour))
            BY <6>6, <3>1, <1>1
          <6>8. ~ (d * DayHours <= hour)
            BY <6>4, <6>7, <3>1
          <6>9. (d + 1) * DayHours = d * DayHours + DayHours /\ d * DayHours \in Int
            BY <6>5, <3>1
          <6>. QED BY <6>2, <6>5, <6>8, <6>9, <1>0, <1>1
        <5>. QED BY <5>1, <3>1, <1>1
      <4>. QED BY <4>1, <4>2 DEF AgreeInv, CandleType
    <3>. QED BY <3>2, <3>3
  <2>2. hour' \in Nat /\ Date(hour') <= LastDate /\ closes' = [d \in 0..LastDate |-> closes'[d]] /\ dxy' = dxy
    BY <1>0, <1>1, <1>2
  <2>. QED BY <2>1, <2>2 DEF AgreeInv, CandleType
<1>4. ASSUME NEW r, Accurate(r) PROVE Accurate(r)'
  <2>. SUFFICES ASSUME ClosedRow(r) PROVE r.read \in Nat /\ r.read <= hour' /\ Confirmed(r)' /\ Kept(r)'
    BY DEF Accurate, ClosedRow
  <2>1. r.read \in Nat /\ r.read <= hour /\ Confirmed(r) /\ Kept(r)
    BY <1>4 DEF Accurate
  <2>2. ASSUME NEW d \in Before(r.read) PROVE closes'[d] = closes[d]
    <3>1. d \in TradingDates /\ d < Date(r.read) /\ d \in 0..LastDate
      BY BeforeIsFinite DEF Before
    <3>2. Date(r.read) <= Date(hour) /\ Date(r.read) \in Nat
      BY <2>1, <1>1, DateRises, DateOf
    <3>3. d # Date(hour')
      BY <3>1, <3>2, <1>1
    <3>. QED BY <3>1, <3>3, <1>2
  <2>3. Verdict(closes', Before(r.read)) = Verdict(closes, Before(r.read))
    BY <2>2, VerdictStays, BeforeIsFinite
  <2>4. Kept(r)'
    <3>1. LastDays(Before(r.read), PairCount) \subseteq Before(r.read)
      BY DEF LastDays
    <3>. QED BY <3>1, <2>1, <2>2, <1>0 DEF Kept
  <2>. QED BY <2>1, <2>3, <2>4, <1>0, <1>1 DEF Confirmed
<1>5. \A l \in Threads : loading'[l].step = "idle"
  BY <1>0 DEF HourPasses, FreshInv, Loads, NoLoad
<1>6. Accurate(latest)' /\ Accurate(cached)' /\ \A r \in reading' : Accurate(r)'
  <2>1. \A r : Accurate(r) => Accurate(r)'
    BY <1>4
  <2>2. PICK a, b : a = latest /\ b = cached
    OBVIOUS
  <2>3. Accurate(a)' /\ Accurate(b)' /\ \A r \in reading : Accurate(r)'
    BY <2>1, <2>2 DEF AgreeInv
  <2>. QED BY <2>2, <2>3, <1>0 DEF Accurate, ClosedRow, Confirmed, Kept
<1>. QED BY <1>3, <1>5, <1>6 DEF AgreeInv

\* Every step keeps the invariant.
LEMMA NextAgrees == FreshInv /\ AgreeInv /\ [UsdNext]_usdVars => AgreeInv'
<1>. SUFFICES ASSUME FreshInv, AgreeInv, [UsdNext]_usdVars PROVE AgreeInv'
  OBVIOUS
<1>0. DOMAIN loading = Threads
  BY DEF FreshInv, Loads
<1>1. CASE Schedule
  <2>1. PICK source : Load("scheduler", source)
    BY <1>1 DEF Schedule
  <2>. QED BY <2>1, LoadAgrees DEF Threads
<1>2. CASE Recompute
  <2>1. PICK source : Load("request", source)
    BY <1>2 DEF Recompute
  <2>. QED BY <2>1, LoadAgrees DEF Threads
<1>3. ASSUME NEW l \in Threads, UpsertCandles(l) PROVE AgreeInv'
  BY <1>3, UpsertAgrees
<1>4. ASSUME NEW l \in Threads, StoreSnapshot(l) \/ CacheOwn(l) PROVE AgreeInv'
  BY <1>4, StoreAgrees
<1>5. CASE HourPasses
  BY <1>5, HourAgrees
<1>6. ASSUME UNCHANGED <<hour, closes, dxy>>,
             \/ UNCHANGED loading
             \/ \A l \in Threads : loading'[l].step = "idle",
             latest' \in {latest}, cached' \in {cached, NoRow} \cup reading,
             reading' \subseteq reading \cup {latest}
      PROVE  AgreeInv'
  <2>1. \A r : Accurate(r) => Accurate(r)'
    BY <1>6, RightStays
  <2>2. Accurate(NoRow)
    BY DEF Accurate, ClosedRow
  <2>3. Accurate(latest') /\ Accurate(cached') /\ \A r \in reading' : Accurate(r)
    BY <1>6, <2>2 DEF AgreeInv
  <2>4. Accurate(latest)' /\ Accurate(cached)' /\ \A r \in reading' : Accurate(r)'
    BY <2>3, <1>6 DEF Accurate, ClosedRow, Confirmed, Kept
  <2>5. CandleType'
    BY <1>6 DEF AgreeInv, CandleType
  <2>6. CASE UNCHANGED loading
    <3>1. \A l \in Threads : loading'[l].step \in {"idle", "loaded", "upserted", "stored"}
      BY <2>6 DEF AgreeInv
    <3>2. \A l \in Threads : loading'[l].step # "idle" /\ ClosedRow(loading'[l].row) => Confirmed(loading[l].row)'
      BY <2>6, <1>6 DEF AgreeInv, Confirmed
    <3>3. \A l \in Threads : loading'[l].step \in {"upserted", "stored"} => Accurate(loading[l].row)'
      BY <2>6, <1>6 DEF AgreeInv, Accurate, ClosedRow, Confirmed, Kept
    <3>. QED BY <2>4, <2>5, <3>1, <3>2, <3>3 DEF AgreeInv, ClosedRow
  <2>7. CASE \A l \in Threads : loading'[l].step = "idle"
    BY <2>4, <2>5, <2>7 DEF AgreeInv
  <2>. QED BY <2>6, <2>7, <1>6
<1>7. CASE ScheduleNothing
  BY <1>7, <1>6 DEF ScheduleNothing
<1>8. CASE ReadLatest
  BY <1>8, <1>6 DEF ReadLatest
<1>9. ASSUME NEW r \in reading, CacheRead(r) PROVE AgreeInv'
  BY <1>9, <1>6 DEF CacheRead
<1>10. CASE RestartServer
  <2>1. \A l \in Threads : loading'[l].step = "idle"
    BY <1>10, <1>0 DEF RestartServer, NoLoad
  <2>. QED BY <2>1, <1>10, <1>6 DEF RestartServer
<1>11. CASE UNCHANGED usdVars
  BY <1>11, <1>6 DEF usdVars
<1>. QED BY <1>0, <1>1, <1>2, <1>3, <1>4, <1>5, <1>7, <1>8, <1>9, <1>10, <1>11 DEF UsdNext

(* For every history of prices, every length of the average, of the fall and   *)
(* of the day, whatever fails and however recomputes, readers and restarts     *)
(* interleave: a row that filters a signal is fresh, and when its candles came *)
(* from the bridge on a day of trading, a backtest takes the same decision for *)
(* the hour in which they were read.                                           *)
THEOREM FilterIsBacktested == ASSUME SlackCovers PROVE UsdSpec => []FilterAgreesWithBacktest
<1>1. UsdInit => FreshInv /\ AgreeInv
  BY FreshAtStart, AgreeAtStart
<1>2. FreshInv /\ AgreeInv /\ [UsdNext]_usdVars => FreshInv' /\ AgreeInv'
  BY NextFresh, NextAgrees
<1>3. FreshInv /\ AgreeInv => FilterAgreesWithBacktest
  BY AgreeIsServed
<1>. QED BY <1>1, <1>2, <1>3, PTL DEF UsdSpec

----------------------------------------------------------------------------
(* The risk snapshot.  That a lone change is shown is not inductive: it says  *)
(* nothing while the change or a computation is under way.  The invariant     *)
(* says that a lone change has the floor to itself, that it flags what it has *)
(* passed, and that whoever computes or loads a snapshot since then has seen  *)
(* the account and the positions of now.                                      *)

RiskSpec == RiskInit /\ [][RiskNext]_riskVars

\* A batch of ticks that carries another account carries another balance: it
\* flags for the balance only.
BalanceTells == \A s, t \in Statuses : s[2] = t[2] => s = t

Connections == Statuses \cup {None}
IsSnapshot(s) == DOMAIN s = {"account", "ath", "positions", "valid", "dirty"} /\ s.dirty \in BOOLEAN
IsComputing(c) ==
  /\ DOMAIN c = {"at", "key", "account", "ath", "snapshot", "flagged"}
  /\ c.at # "idle" => c.account \in Connections
  /\ c.at \in {"stored", "loaded"} => IsSnapshot(c.snapshot)
  /\ c.at = "loaded" => c.key \in Keys
IsHandling(h) ==
  /\ DOMAIN handler[h] = {"at", "toggles", "key", "flagged", "job"}
  /\ handler[h].at \in {"free", "rows", "mark", "commit"}
  /\ handler[h].key \in Keys
RiskShape ==
  /\ account \in Connections /\ clean \in BOOLEAN
  /\ handler = [h \in Handlers |-> handler[h]] /\ \A h \in Handlers : IsHandling(h)
  /\ cache = [k \in Keys |-> cache[k]] /\ record = [k \in Keys |-> record[k]]
  /\ \A k \in Keys : (cache[k] # None => IsSnapshot(cache[k])) /\ (record[k] # None => IsSnapshot(record[k]))
  /\ IsComputing(worker) /\ IsComputing(request)

\* A lone change is the only one, and nothing is being computed.
Alone ==
  clean => /\ \A g, h \in Handlers : handler[g].at # "free" /\ handler[h].at # "free" => g = h
           /\ Busy => worker.at = "idle" /\ request.at = "idle"

\* What the handler of a lone change has flagged when it commits.
Flagged(h) ==
  /\ handler[h].key = Key
  /\ cache[Key] # None => cache[Key].dirty
  /\ handler[h].flagged = TRUE => record[Key] # None /\ record[Key].dirty
MarkFlags == clean => \A h \in Handlers : handler[h].at = "commit" => Flagged(h)

Told(s) == (s.account = account /\ s.positions = Counted(account)) \/ s.dirty
AllTold ==
  clean /\ ~Busy /\ account # None =>
    /\ cache[Key] # None => Told(cache[Key])
    /\ record[Key] # None => Told(record[Key])

\* A computation or a load that follows the change has seen it.
Seen(c) ==
  /\ c.at \in {"read", "stored"} => c.account = account
  /\ c.at = "stored" => c.snapshot.account = account /\ c.snapshot.positions = Counted(account)
  /\ c.at = "loaded" /\ account # None => c.key = Key /\ Told(c.snapshot)
AllSeen == clean /\ ~Busy => Seen(worker) /\ Seen(request)

RiskInv == RiskShape /\ Alone /\ MarkFlags /\ AllTold /\ AllSeen

LEMMA ToldIsShown == RiskInv => LoneChangeIsShown
BY DEF RiskInv, AllTold, Told, LoneChangeIsShown, RightOrFlagged, Right

\* The key of an account is one of the keys.
LEMMA KeysAreKeys == ASSUME NEW a \in Connections PROVE KeyOf(a) \in Keys
BY DEF Connections, Keys, KeyOf

LEMMA RiskStart == RiskInit => RiskInv
<1>. SUFFICES ASSUME RiskInit PROVE RiskInv
  OBVIOUS
<1>. USE DEF RiskInit
<1>1. None \in Keys
  BY DEF Keys
<1>2. IsComputing(Resting)
  BY DEF IsComputing, Resting
<1>3. \A h \in Handlers : handler[h] = Free
  OBVIOUS
<1>4. \A h \in Handlers : IsHandling(h) /\ handler[h].at = "free"
  BY <1>1, <1>3 DEF IsHandling, Free
<1>5. RiskShape
  BY <1>2, <1>4 DEF RiskShape, Connections
<1>6. Alone /\ MarkFlags
  BY <1>4 DEF Alone, MarkFlags, Busy
<1>7. AllTold
  BY DEF AllTold
<1>8. worker.at = "idle" /\ request.at = "idle"
  BY DEF Resting
<1>9. AllSeen
  BY <1>8 DEF AllSeen, Seen
<1>. QED BY <1>5, <1>6, <1>7, <1>9 DEF RiskInv

\* A change that begins hides nothing yet: its handler is at work.
LEMMA BeginsKeeps ==
  ASSUME RiskInv, NEW h \in Handlers, NEW stage \in {"rows", "mark"}, NEW toggles, Begins(h, stage, toggles),
         account' \in Connections,
         UNCHANGED <<cache, record, worker, request>>
  PROVE  RiskInv'
<1>. USE DEF RiskInv
<1>1. /\ handler[h].at = "free" /\ handler' = [handler EXCEPT ![h] = [Free EXCEPT !.at = stage, !.toggles = toggles]]
      /\ clean' = (~Busy /\ worker.at = "idle" /\ request.at = "idle")
  BY DEF Begins
<1>2. handler'[h].at = stage /\ \A g \in Handlers : g # h => handler'[g] = handler[g]
  BY <1>1 DEF RiskShape, Free
<1>3. Busy'
  BY <1>2 DEF Busy
<1>4. IsHandling(h)'
  <2>1. handler'[h] = [Free EXCEPT !.at = stage, !.toggles = toggles]
    BY <1>1 DEF RiskShape
  <2>2. None \in Keys
    BY DEF Keys
  <2>. QED BY <2>1, <2>2 DEF IsHandling, Free
<1>5. \A g \in Handlers : IsHandling(g)'
  BY <1>2, <1>4 DEF RiskShape, IsHandling
<1>6. handler' = [g \in Handlers |-> handler'[g]]
  BY <1>1 DEF RiskShape
<1>7. IsComputing(worker)' /\ IsComputing(request)'
  BY DEF RiskShape, IsComputing
<1>8. clean' \in BOOLEAN
  BY <1>1
<1>9. RiskShape'
  BY <1>5, <1>6, <1>7, <1>8 DEF RiskShape
<1>10. clean' => \A g \in Handlers : g # h => handler'[g].at = "free"
  BY <1>1, <1>2 DEF Busy
<1>11. clean' => worker'.at = "idle" /\ request'.at = "idle"
  BY <1>1
<1>12. Alone' /\ MarkFlags'
  BY <1>2, <1>10, <1>11 DEF Alone, MarkFlags
<1>13. AllTold' /\ AllSeen'
  BY <1>3 DEF AllTold, AllSeen
<1>. QED BY <1>9, <1>12, <1>13

\* Nothing that is computed while nobody is at work is out of date.
LEMMA CalmKeeps ==
  ASSUME RiskInv, UNCHANGED <<handler, account, open>>, RiskShape', clean' => clean /\ ~Busy,
         clean /\ ~Busy =>
           /\ account # None /\ cache'[Key] # None => Told(cache[Key])'
           /\ account # None /\ record'[Key] # None => Told(record[Key])'
           /\ Seen(worker)' /\ Seen(request)'
  PROVE  RiskInv'
<1>1. Key' = Key /\ Busy' = Busy
  BY DEF Key, Busy
<1>2. Alone' /\ MarkFlags'
  BY <1>1 DEF RiskInv, Alone, MarkFlags, Busy
<1>3. AllTold'
  BY <1>1 DEF AllTold
<1>4. AllSeen'
  BY <1>1 DEF AllSeen
<1>. QED BY <1>2, <1>3, <1>4 DEF RiskInv

\* Who is at work on a snapshot is so after every change.
LEMMA WorkIsCalm ==
  ASSUME RiskInv, worker.at # "idle" \/ request.at # "idle", clean' = clean PROVE clean' => clean /\ ~Busy
BY DEF RiskInv, Alone

\* What Told and Seen read does not change.
LEMMA ToldStays ==
  ASSUME UNCHANGED <<account, open>>
  PROVE  /\ Counted(account)' = Counted(account) /\ Key' = Key
         /\ \A s : (s.account = account' /\ s.positions = Counted(account)') \/ s.dirty <=> Told(s)
BY DEF Counted, Key, Told

\* The handlers.
LEMMA ChangesKeep ==
  ASSUME BalanceTells, RiskInv, NEW h \in Handlers,
         \/ \E s \in Statuses \cup {None} : PostStatus(h, s)
         \/ \E s \in Statuses : TickStatus(h, s)
         \/ \E p \in Positions : ChangePosition(h, p)
  PROVE  RiskInv'
<1>1. ASSUME NEW s \in Statuses \cup {None}, PostStatus(h, s) PROVE RiskInv'
  BY <1>1, BeginsKeeps DEF PostStatus, Connections
<1>2. ASSUME NEW s \in Statuses, TickStatus(h, s) PROVE RiskInv'
  <2>1. account = None \/ s[2] # account[2]
    BY <1>2 DEF TickStatus, BalanceTells, RiskInv, RiskShape, Connections
  <2>. QED BY <1>2, <2>1, BeginsKeeps DEF TickStatus, Connections
<1>3. ASSUME NEW p \in Positions, ChangePosition(h, p) PROVE RiskInv'
  <2>1. account' \in Connections
    BY <1>3 DEF ChangePosition, RiskInv, RiskShape
  <2>. QED BY <1>3, <2>1, BeginsKeeps DEF ChangePosition
<1>. QED BY <1>1, <1>2, <1>3

LEMMA MarkKeeps == ASSUME RiskInv, NEW h \in Handlers, Mark(h) PROVE RiskInv'
<1>. USE DEF RiskInv
<1>1. /\ handler[h].at = "mark" /\ cache' = [cache EXCEPT ![Key] = Flag(@)]
      /\ handler' = [handler EXCEPT ![h].at = "commit", ![h].key = Key, ![h].job = job[Key].status,
                                    ![h].flagged = record[Key] # None /\ record[Key].dirty]
      /\ UNCHANGED <<account, open, record, worker, request, clean>>
  BY DEF Mark
<1>2. Key \in Keys /\ Key' = Key
  BY <1>1 DEF RiskShape, Connections, Key, Keys
<1>3. /\ \A g \in Handlers : g # h => handler'[g] = handler[g]
      /\ handler'[h] = [handler[h] EXCEPT !.at = "commit", !.key = Key, !.job = job[Key].status,
                                          !.flagged = record[Key] # None /\ record[Key].dirty]
  BY <1>1 DEF RiskShape
<1>4. /\ DOMAIN handler'[h] = {"at", "toggles", "key", "flagged", "job"}
      /\ handler'[h].at = "commit" /\ handler'[h].key = Key
      /\ handler'[h].flagged = (record[Key] # None /\ record[Key].dirty)
  BY <1>3 DEF RiskShape, IsHandling
<1>5. \A g \in Handlers : IsHandling(g)'
  <2>1. IsHandling(h)'
    BY <1>2, <1>4 DEF IsHandling
  <2>. QED BY <1>3, <2>1 DEF RiskShape, IsHandling
<1>6. /\ \A k \in Keys : k # Key => cache'[k] = cache[k]
      /\ cache[Key] = None => cache'[Key] = None
      /\ cache[Key] # None => IsSnapshot(cache'[Key]) /\ cache'[Key].dirty
  <2>1. cache'[Key] = Flag(cache[Key]) /\ \A k \in Keys : k # Key => cache'[k] = cache[k]
    BY <1>1, <1>2 DEF RiskShape
  <2>2. cache[Key] = None => cache'[Key] = None
    BY <2>1 DEF Flag
  <2>3. ASSUME cache[Key] # None PROVE IsSnapshot(cache'[Key]) /\ cache'[Key].dirty
    <3>1. cache'[Key] = [cache[Key] EXCEPT !.dirty = TRUE]
      BY <2>1, <2>3 DEF Flag
    <3>2. IsSnapshot(cache[Key])
      BY <1>2, <2>3 DEF RiskShape
    <3>. QED BY <3>1, <3>2 DEF IsSnapshot
  <2>. QED BY <2>1, <2>2, <2>3
<1>7. RiskShape'
  <2>1. cache' = [k \in Keys |-> cache'[k]] /\ handler' = [g \in Handlers |-> handler'[g]]
    BY <1>1 DEF RiskShape
  <2>2. \A k \in Keys : cache'[k] # None => IsSnapshot(cache'[k])
    BY <1>6 DEF RiskShape
  <2>3. IsComputing(worker)' /\ IsComputing(request)'
    BY <1>1 DEF RiskShape, IsComputing
  <2>. QED BY <1>1, <1>5, <2>1, <2>2, <2>3 DEF RiskShape
<1>8. Busy /\ Busy'
  BY <1>1, <1>4 DEF Busy
<1>9. \A g \in Handlers : handler'[g].at # "free" => handler[g].at # "free"
  BY <1>1, <1>3
<1>10. Alone'
  BY <1>1, <1>8, <1>9 DEF Alone
<1>11. Flagged(h)'
  <2>1. cache'[Key] # None => cache'[Key].dirty
    BY <1>6
  <2>2. handler'[h].flagged = TRUE => record[Key] # None /\ record[Key].dirty
    BY <1>4
  <2>. QED BY <1>1, <1>2, <1>4, <2>1, <2>2 DEF Flagged
<1>12. MarkFlags'
  <2>1. clean' => \A g \in Handlers : handler'[g].at = "commit" => g = h
    BY <1>1, <1>3 DEF Alone
  <2>. QED BY <1>11, <2>1 DEF MarkFlags
<1>13. AllTold' /\ AllSeen'
  BY <1>8 DEF AllTold, AllSeen
<1>. QED BY <1>7, <1>10, <1>12, <1>13

\* The row of an order or a close: its handler is at work until it has flagged.
LEMMA CommitRowsKeeps == ASSUME RiskInv, NEW h \in Handlers, CommitRows(h) PROVE RiskInv'
<1>. USE DEF RiskInv
<1>1. /\ handler[h].at = "rows"
      /\ handler' = [handler EXCEPT ![h].at = "mark", ![h].toggles = {}]
      /\ UNCHANGED <<account, cache, record, worker, request, clean>>
  BY DEF CommitRows
<1>2. /\ \A g \in Handlers : g # h => handler'[g] = handler[g]
      /\ handler'[h] = [handler[h] EXCEPT !.at = "mark", !.toggles = {}]
  BY <1>1 DEF RiskShape
<1>3. /\ DOMAIN handler'[h] = {"at", "toggles", "key", "flagged", "job"}
      /\ handler'[h].at = "mark" /\ handler'[h].key = handler[h].key
  BY <1>2 DEF RiskShape, IsHandling
<1>4. \A g \in Handlers : IsHandling(g)'
  BY <1>2, <1>3 DEF RiskShape, IsHandling
<1>5. handler' = [g \in Handlers |-> handler'[g]]
  BY <1>1 DEF RiskShape
<1>6. RiskShape'
  BY <1>1, <1>4, <1>5 DEF RiskShape, IsComputing
<1>7. Busy /\ Busy'
  BY <1>1, <1>3 DEF Busy
<1>8. \A g \in Handlers : handler'[g].at # "free" => handler[g].at # "free"
  BY <1>1, <1>2
<1>9. Alone'
  BY <1>1, <1>7, <1>8 DEF Alone
<1>10. MarkFlags'
  <2>1. \A g \in Handlers : handler'[g].at = "commit" => g # h /\ handler'[g] = handler[g]
    BY <1>2, <1>3
  <2>. QED BY <1>1, <2>1 DEF MarkFlags, Flagged, Key
<1>11. AllTold' /\ AllSeen'
  BY <1>7 DEF AllTold, AllSeen
<1>. QED BY <1>6, <1>9, <1>10, <1>11

\* A change whose flag was not written is not spoken of.
LEMMA MarkFailsKeeps == ASSUME RiskInv, NEW h \in Handlers, MarkFails(h) PROVE RiskInv'
<1>. USE DEF RiskInv
<1>1. /\ handler' = [handler EXCEPT ![h] = Free] /\ clean' = FALSE
      /\ cache' = cache \/ cache' = [cache EXCEPT ![Key] = Flag(@)]
      /\ UNCHANGED <<account, open, record, worker, request>>
  BY DEF MarkFails
<1>2. \A g \in Handlers : IsHandling(g)'
  <2>1. handler'[h] = Free /\ \A g \in Handlers : g # h => handler'[g] = handler[g]
    BY <1>1 DEF RiskShape
  <2>2. IsHandling(h)'
    BY <2>1 DEF IsHandling, Free, Keys
  <2>. QED BY <2>1, <2>2 DEF RiskShape, IsHandling
<1>3. Key \in Keys
  BY DEF RiskShape, Connections, Key, Keys
<1>4. \A k \in Keys : cache'[k] # None => IsSnapshot(cache'[k])
  <2>1. CASE cache' = cache
    BY <2>1 DEF RiskShape
  <2>2. CASE cache' = [cache EXCEPT ![Key] = Flag(@)]
    <3>1. \A k \in Keys : cache'[k] = IF k = Key THEN Flag(cache[k]) ELSE cache[k]
      BY <1>3, <2>2 DEF RiskShape
    <3>2. \A k \in Keys : cache[k] # None => IsSnapshot(Flag(cache[k]))
      BY DEF RiskShape, Flag, IsSnapshot
    <3>3. \A k \in Keys : cache[k] = None => Flag(cache[k]) = None
      BY DEF Flag
    <3>. QED BY <3>1, <3>2, <3>3 DEF RiskShape
  <2>. QED BY <1>1, <2>1, <2>2
<1>5. cache' = [k \in Keys |-> cache'[k]] /\ handler' = [g \in Handlers |-> handler'[g]]
  BY <1>1 DEF RiskShape
<1>6. IsComputing(worker)' /\ IsComputing(request)'
  BY <1>1 DEF RiskShape, IsComputing
<1>7. RiskShape'
  BY <1>1, <1>2, <1>4, <1>5, <1>6 DEF RiskShape
<1>. QED BY <1>1, <1>7 DEF Alone, MarkFlags, AllTold, AllSeen

\* The commit of a lone change leaves flagged what does not know it.
LEMMA CommitKeeps == ASSUME RiskInv, NEW h \in Handlers, Commit(h) PROVE RiskInv'
<1>. USE DEF RiskInv
<1>1. /\ handler[h].at = "commit" /\ handler' = [handler EXCEPT ![h] = Free]
      /\ record' = IF handler[h].flagged THEN record ELSE [record EXCEPT ![handler[h].key] = Flag(@)]
      /\ UNCHANGED <<account, cache, worker, request, clean>>
  BY DEF Commit
<1>2. handler[h].key \in Keys
  BY DEF RiskShape, IsHandling
<1>3. handler'[h] = Free /\ \A g \in Handlers : g # h => handler'[g] = handler[g]
  BY <1>1 DEF RiskShape
<1>4. \A g \in Handlers : IsHandling(g)'
  <2>1. IsHandling(h)'
    BY <1>3 DEF IsHandling, Free, Keys
  <2>. QED BY <1>3, <2>1 DEF RiskShape, IsHandling
<1>5. \A k \in Keys : record'[k] # None => record[k] # None /\ IsSnapshot(record'[k])
  <2>1. CASE handler[h].flagged
    BY <1>1, <2>1 DEF RiskShape
  <2>2. CASE ~handler[h].flagged
    <3>1. \A k \in Keys : record'[k] = IF k = handler[h].key THEN Flag(record[k]) ELSE record[k]
      BY <1>1, <1>2, <2>2 DEF RiskShape
    <3>2. \A k \in Keys : record[k] # None => IsSnapshot(Flag(record[k]))
      BY DEF RiskShape, Flag, IsSnapshot
    <3>3. \A k \in Keys : record[k] = None => Flag(record[k]) = None
      BY DEF Flag
    <3>. QED BY <3>1, <3>2, <3>3 DEF RiskShape
  <2>. QED BY <2>1, <2>2
<1>6. RiskShape'
  <2>1. record' = [k \in Keys |-> record'[k]] /\ handler' = [g \in Handlers |-> handler'[g]]
    BY <1>1 DEF RiskShape
  <2>2. IsComputing(worker)' /\ IsComputing(request)'
    BY <1>1 DEF RiskShape, IsComputing
  <2>. QED BY <1>1, <1>4, <1>5, <2>1, <2>2 DEF RiskShape
<1>7. Busy
  BY <1>1 DEF Busy
<1>8. \A g \in Handlers : handler'[g].at # "free" => handler[g].at # "free" /\ g # h
  BY <1>3 DEF Free
<1>9. Alone'
  BY <1>1, <1>7, <1>8 DEF Alone, Busy
<1>10. clean => \A g \in Handlers : handler'[g].at = "free"
  BY <1>1, <1>3, <1>8 DEF Alone
<1>11. MarkFlags'
  BY <1>1, <1>10 DEF MarkFlags
<1>12. Key' = Key /\ Key \in Keys
  BY <1>1 DEF RiskShape, Connections, Key, Keys
<1>13. clean => /\ cache'[Key] # None => cache'[Key].dirty
                /\ record'[Key] # None => record'[Key].dirty
  <2>1. SUFFICES ASSUME clean
                 PROVE  /\ cache'[Key] # None => cache'[Key].dirty
                        /\ record'[Key] # None => record'[Key].dirty
    OBVIOUS
  <2>2. Flagged(h)
    BY <1>1, <2>1 DEF MarkFlags
  <2>3. cache'[Key] # None => cache'[Key].dirty
    BY <1>1, <2>2 DEF Flagged
  <2>4. CASE handler[h].flagged = TRUE
    BY <1>1, <2>2, <2>3, <2>4 DEF Flagged
  <2>5. CASE handler[h].flagged # TRUE
    <3>0. ~handler[h].flagged
      BY <2>5
    <3>1. record'[Key] = Flag(record[Key])
      BY <1>1, <1>12, <2>2, <3>0 DEF Flagged, RiskShape
    <3>2. CASE record[Key] = None
      BY <2>3, <3>1, <3>2 DEF Flag
    <3>3. CASE record[Key] # None
      <4>1. record'[Key] = [record[Key] EXCEPT !.dirty = TRUE]
        BY <3>1, <3>3 DEF Flag
      <4>2. IsSnapshot(record[Key])
        BY <1>12, <3>3 DEF RiskShape
      <4>3. record'[Key].dirty
        BY <4>1, <4>2 DEF IsSnapshot
      <4>. QED BY <2>3, <4>3
    <3>. QED BY <3>2, <3>3
  <2>. QED BY <2>4, <2>5
<1>14. AllTold'
  BY <1>1, <1>12, <1>13 DEF AllTold, Told
<1>15. clean' => worker'.at = "idle" /\ request'.at = "idle"
  BY <1>1, <1>7 DEF Alone
<1>16. AllSeen'
  BY <1>15 DEF AllSeen, Seen
<1>. QED BY <1>6, <1>9, <1>11, <1>14, <1>16

\* A snapshot that is computed while nobody is at work is that of now.
LEMMA SnapshotIsRight ==
  ASSUME NEW c, c.account = account
  PROVE  /\ IsSnapshot(Snapshot(c)) /\ Snapshot(c).account = account /\ Snapshot(c).positions = Counted(account)
BY DEF Snapshot, IsSnapshot
LEMMA SnapshotIsSnapshot == ASSUME NEW c PROVE IsSnapshot(Snapshot(c))
<1>1. (c.ath > 0 /\ c.account # None) \in BOOLEAN
  OBVIOUS
<1>. QED BY <1>1 DEF Snapshot, IsSnapshot

\* The worker.
LEMMA WorkerKeeps ==
  ASSUME RiskInv, (\E k \in Keys : Claim(k)) \/ WorkerReads \/ WorkerStores \/ WorkerCommits \/ WorkerFails
  PROVE  RiskInv'
<1>. USE DEF RiskInv
<1>0. UNCHANGED <<handler, account, open, request>> /\ Key' = Key
  BY DEF Claim, WorkerReads, WorkerStores, WorkerCommits, WorkerFails, Key
<1>1. IsComputing(request)' /\ (clean /\ ~Busy => Seen(request)')
  BY <1>0 DEF RiskShape, IsComputing, AllSeen, Seen, Told, Key, Counted
<1>2. clean /\ ~Busy /\ account # None =>
        (cache[Key] # None => Told(cache[Key])) /\ (record[Key] # None => Told(record[Key]))
  BY DEF AllTold
<1>3. UNCHANGED cache => (clean /\ ~Busy /\ account # None /\ cache'[Key] # None => Told(cache[Key])')
  BY <1>0, <1>2 DEF Told, Key, Counted
<1>4. UNCHANGED record => (clean /\ ~Busy /\ account # None /\ record'[Key] # None => Told(record[Key])')
  BY <1>0, <1>2 DEF Told, Key, Counted
<1>5. Key \in Keys /\ \A a \in Connections : KeyOf(a) \in Keys
  BY KeysAreKeys DEF RiskShape, Key, KeyOf
<1>6. ASSUME NEW k \in Keys, Claim(k) PROVE RiskInv'
  <2>1. worker' = [Resting EXCEPT !.at = "claimed", !.key = k] /\ clean' = (clean /\ ~Busy) /\ UNCHANGED <<cache, record>>
    BY <1>6 DEF Claim
  <2>2. worker'.at = "claimed" /\ worker'.account = None
        /\ DOMAIN worker' = {"at", "key", "account", "ath", "snapshot", "flagged"}
    BY <2>1 DEF Resting
  <2>3. IsComputing(worker)' /\ Seen(worker)'
    BY <2>2 DEF IsComputing, Seen, Connections
  <2>4. RiskShape'
    BY <1>0, <1>1, <2>1, <2>3 DEF RiskShape, IsHandling
  <2>. QED BY <1>0, <1>1, <1>3, <1>4, <2>1, <2>3, <2>4, CalmKeeps
<1>7. CASE WorkerReads
  <2>1. worker' = Reads(worker) /\ worker.at = "claimed" /\ UNCHANGED <<cache, record, clean>>
    BY <1>7 DEF WorkerReads
  <2>2. worker'.at = "read" /\ worker'.account = account
        /\ DOMAIN worker' = {"at", "key", "account", "ath", "snapshot", "flagged"}
    BY <2>1 DEF Reads, RiskShape, IsComputing
  <2>3. IsComputing(worker)' /\ Seen(worker)'
    BY <1>0, <2>2 DEF IsComputing, Seen, RiskShape
  <2>4. RiskShape'
    BY <1>0, <1>1, <2>1, <2>3 DEF RiskShape, IsHandling
  <2>5. clean' => clean /\ ~Busy
    BY <2>1, WorkIsCalm
  <2>. QED BY <1>0, <1>1, <1>3, <1>4, <2>1, <2>3, <2>4, <2>5, CalmKeeps
<1>8. CASE WorkerStores
  <2>. DEFINE k == KeyOf(worker.account)
  <2>1. /\ worker.at = "read" /\ cache' = [cache EXCEPT ![k] = Snapshot(worker)] /\ UNCHANGED <<record, clean>>
        /\ worker' = [worker EXCEPT !.at = "stored", !.snapshot = Snapshot(worker),
                                    !.flagged = record[k] # None /\ record[k].dirty]
    BY <1>8 DEF WorkerStores
  <2>2. k \in Keys /\ worker.account \in Connections
    BY <1>5, <2>1 DEF RiskShape, IsComputing
  <2>3. /\ worker'.at = "stored" /\ worker'.account = worker.account /\ worker'.snapshot = Snapshot(worker)
        /\ DOMAIN worker' = {"at", "key", "account", "ath", "snapshot", "flagged"}
    BY <2>1 DEF RiskShape, IsComputing
  <2>4. clean' => clean /\ ~Busy
    BY <2>1, WorkIsCalm
  <2>5. clean /\ ~Busy => worker.account = account /\ k = Key
    BY <2>1 DEF AllSeen, Seen, Key, KeyOf
  <2>6. IsComputing(worker)'
    BY <2>2, <2>3, SnapshotIsSnapshot DEF IsComputing
  <2>7. clean /\ ~Busy => Seen(worker)'
    BY <1>0, <2>3, <2>5, SnapshotIsRight DEF Seen, Counted
  <2>8. /\ cache' = [j \in Keys |-> cache'[j]]
        /\ \A j \in Keys : cache'[j] = IF j = k THEN Snapshot(worker) ELSE cache[j]
    BY <2>1, <2>2 DEF RiskShape
  <2>9. \A j \in Keys : cache'[j] # None => IsSnapshot(cache'[j])
    BY <2>8, SnapshotIsSnapshot DEF RiskShape
  <2>10. RiskShape'
    BY <1>0, <1>1, <2>1, <2>6, <2>8, <2>9 DEF RiskShape, IsHandling
  <2>11. clean /\ ~Busy => Told(cache[Key])'
    BY <1>0, <1>5, <2>5, <2>8, SnapshotIsRight DEF Told, Counted
  <2>. QED BY <1>0, <1>1, <1>4, <2>1, <2>4, <2>7, <2>10, <2>11, CalmKeeps
<1>9. CASE WorkerCommits
  <2>. DEFINE k == KeyOf(worker.account)
              dirty == record[k] # None /\ record[k].dirty /\ ~worker.flagged
              new == [worker.snapshot EXCEPT !.dirty = dirty]
  <2>1. worker.at = "stored" /\ worker' = Resting /\ UNCHANGED <<cache, clean>> /\ record' = [record EXCEPT ![k] = new]
    BY <1>9 DEF WorkerCommits
  <2>2. k \in Keys /\ IsSnapshot(worker.snapshot)
    BY <1>5, <2>1 DEF RiskShape, IsComputing
  <2>3. clean' => clean /\ ~Busy
    BY <2>1, WorkIsCalm
  <2>4. clean /\ ~Busy => /\ worker.account = account /\ k = Key
                          /\ worker.snapshot.account = account /\ worker.snapshot.positions = Counted(account)
    BY <2>1 DEF AllSeen, Seen, Key, KeyOf
  <2>5. dirty \in BOOLEAN
    OBVIOUS
  <2>6. /\ IsSnapshot(new) /\ new.account = worker.snapshot.account /\ new.positions = worker.snapshot.positions
    <3>. HIDE DEF dirty
    <3>. QED BY <2>2, <2>5 DEF IsSnapshot
  <2>7. IsComputing(worker)' /\ Seen(worker)'
    BY <2>1 DEF IsComputing, Seen, Resting
  <2>8. /\ record' = [j \in Keys |-> record'[j]]
        /\ \A j \in Keys : record'[j] = IF j = k THEN new ELSE record[j]
    <3>. HIDE DEF new, k
    <3>. QED BY <2>1, <2>2 DEF RiskShape
  <2>9. \A j \in Keys : record'[j] # None => IsSnapshot(record'[j])
    <3>. HIDE DEF new, k
    <3>. QED BY <2>6, <2>8 DEF RiskShape
  <2>10. RiskShape'
    BY <1>0, <1>1, <2>1, <2>7, <2>8, <2>9 DEF RiskShape, IsHandling
  <2>11. clean /\ ~Busy => Told(record[Key])'
    <3>. HIDE DEF new, k
    <3>. QED BY <1>0, <1>5, <2>4, <2>6, <2>8 DEF Told, Counted
  <2>. QED BY <1>0, <1>1, <1>3, <2>1, <2>3, <2>7, <2>10, <2>11, CalmKeeps
<1>10. CASE WorkerFails
  <2>1. worker.at # "idle" /\ worker' = Resting /\ UNCHANGED <<cache, record, clean>>
    BY <1>10 DEF WorkerFails
  <2>2. IsComputing(worker)' /\ Seen(worker)'
    BY <2>1 DEF IsComputing, Seen, Resting
  <2>3. RiskShape'
    BY <1>0, <1>1, <2>1, <2>2 DEF RiskShape, IsHandling
  <2>4. clean' => clean /\ ~Busy
    BY <2>1, WorkIsCalm
  <2>. QED BY <1>0, <1>1, <1>3, <1>4, <2>1, <2>2, <2>3, <2>4, CalmKeeps
<1>. QED BY <1>6, <1>7, <1>8, <1>9, <1>10

\* The requests.
LEMMA RequestKeepsSeen ==
  ASSUME RiskInv, Get \/ GetCaches \/ LeaveMissing \/ PostRecompute \/ RequestReads \/ RequestStores
  PROVE  RiskInv'
<1>. USE DEF RiskInv
<1>0. UNCHANGED <<handler, account, open, worker, record>> /\ Key' = Key
  BY DEF Get, GetCaches, LeaveMissing, PostRecompute, RequestReads, RequestStores, Key
<1>1. IsComputing(worker)' /\ (clean /\ ~Busy => Seen(worker)')
  BY <1>0 DEF RiskShape, IsComputing, AllSeen, Seen, Told, Key, Counted
<1>2. clean /\ ~Busy /\ account # None =>
        (cache[Key] # None => Told(cache[Key])) /\ (record[Key] # None => Told(record[Key]))
  BY DEF AllTold
<1>3. UNCHANGED cache => (clean /\ ~Busy /\ account # None /\ cache'[Key] # None => Told(cache[Key])')
  BY <1>0, <1>2 DEF Told, Key, Counted
<1>4. clean /\ ~Busy /\ account # None /\ record'[Key] # None => Told(record[Key])'
  BY <1>0, <1>2 DEF Told, Key, Counted
<1>5. Key \in Keys /\ \A a \in Connections : KeyOf(a) \in Keys
  BY KeysAreKeys DEF RiskShape, Key, KeyOf
<1>6. CASE Get
  <2>1. /\ clean' = (clean /\ ~Busy) /\ UNCHANGED cache
        /\ request' = IF record[Key] = None THEN [Resting EXCEPT !.at = "missing"]
                      ELSE [Resting EXCEPT !.at = "loaded", !.key = Key, !.snapshot = record[Key]]
    BY <1>6 DEF Get
  <2>2. CASE record[Key] = None
    <3>1. request'.at = "missing" /\ request'.account = None
          /\ DOMAIN request' = {"at", "key", "account", "ath", "snapshot", "flagged"}
      BY <2>1, <2>2 DEF Resting
    <3>2. IsComputing(request)' /\ Seen(request)'
      BY <3>1 DEF IsComputing, Seen, Connections
    <3>3. RiskShape'
      BY <1>0, <1>1, <2>1, <3>2 DEF RiskShape, IsHandling
    <3>. QED BY <1>0, <1>1, <1>3, <1>4, <2>1, <3>2, <3>3, CalmKeeps
  <2>3. CASE record[Key] # None
    <3>1. /\ request'.at = "loaded" /\ request'.account = None /\ request'.key = Key /\ request'.snapshot = record[Key]
          /\ DOMAIN request' = {"at", "key", "account", "ath", "snapshot", "flagged"}
      BY <2>1, <2>3 DEF Resting
    <3>2. IsSnapshot(record[Key])
      BY <1>5, <2>3 DEF RiskShape
    <3>3. IsComputing(request)'
      BY <1>5, <3>1, <3>2 DEF IsComputing, Connections
    <3>4. clean /\ ~Busy => Seen(request)'
      BY <1>0, <1>2, <2>3, <3>1 DEF Seen, Told, Key, Counted
    <3>5. RiskShape'
      BY <1>0, <1>1, <2>1, <3>3 DEF RiskShape, IsHandling
    <3>. QED BY <1>0, <1>1, <1>3, <1>4, <2>1, <3>4, <3>5, CalmKeeps
  <2>. QED BY <2>2, <2>3
<1>7. CASE GetCaches
  <2>1. /\ request.at = "loaded" /\ cache' = [cache EXCEPT ![request.key] = request.snapshot] /\ UNCHANGED clean
        /\ request' = IF request.snapshot.valid THEN Resting ELSE [Resting EXCEPT !.at = "missing"]
    BY <1>7 DEF GetCaches
  <2>2. request.key \in Keys /\ IsSnapshot(request.snapshot)
    BY <2>1 DEF RiskShape, IsComputing
  <2>3. request'.at \in {"idle", "missing"} /\ request'.account = None
        /\ DOMAIN request' = {"at", "key", "account", "ath", "snapshot", "flagged"}
    BY <2>1 DEF Resting
  <2>4. IsComputing(request)' /\ Seen(request)'
    BY <2>3 DEF IsComputing, Seen, Connections
  <2>5. /\ cache' = [j \in Keys |-> cache'[j]]
        /\ \A j \in Keys : cache'[j] = IF j = request.key THEN request.snapshot ELSE cache[j]
    BY <2>1, <2>2 DEF RiskShape
  <2>6. \A j \in Keys : cache'[j] # None => IsSnapshot(cache'[j])
    BY <2>2, <2>5 DEF RiskShape
  <2>7. RiskShape'
    BY <1>0, <1>1, <2>1, <2>4, <2>5, <2>6 DEF RiskShape, IsHandling
  <2>8. clean' => clean /\ ~Busy
    BY <2>1, WorkIsCalm
  <2>9. clean /\ ~Busy /\ account # None => cache'[Key] = request.snapshot /\ Told(request.snapshot)
    BY <1>5, <2>1, <2>5 DEF AllSeen, Seen
  <2>10. clean /\ ~Busy /\ account # None => Told(cache[Key])'
    BY <1>0, <2>9 DEF Told, Counted
  <2>. QED BY <1>0, <1>1, <1>4, <2>4, <2>7, <2>8, <2>10, CalmKeeps
<1>8. CASE LeaveMissing
  <2>1. request.at # "idle" /\ request' = Resting /\ UNCHANGED <<cache, clean>>
    BY <1>8 DEF LeaveMissing
  <2>2. IsComputing(request)' /\ Seen(request)'
    BY <2>1 DEF IsComputing, Seen, Resting
  <2>3. RiskShape'
    BY <1>0, <1>1, <2>1, <2>2 DEF RiskShape, IsHandling
  <2>4. clean' => clean /\ ~Busy
    BY <2>1, WorkIsCalm
  <2>. QED BY <1>0, <1>1, <1>3, <1>4, <2>1, <2>2, <2>3, <2>4, CalmKeeps
<1>9. CASE PostRecompute
  <2>1. request' = [Resting EXCEPT !.at = "missing"] /\ clean' = (clean /\ ~Busy) /\ UNCHANGED cache
    BY <1>9 DEF PostRecompute
  <2>2. request'.at = "missing" /\ request'.account = None
        /\ DOMAIN request' = {"at", "key", "account", "ath", "snapshot", "flagged"}
    BY <2>1 DEF Resting
  <2>3. IsComputing(request)' /\ Seen(request)'
    BY <2>2 DEF IsComputing, Seen, Connections
  <2>4. RiskShape'
    BY <1>0, <1>1, <2>1, <2>3 DEF RiskShape, IsHandling
  <2>. QED BY <1>0, <1>1, <1>3, <1>4, <2>1, <2>3, <2>4, CalmKeeps
<1>10. CASE RequestReads
  <2>1. request' = Reads(request) /\ request.at = "missing" /\ UNCHANGED <<cache, clean>>
    BY <1>10 DEF RequestReads
  <2>2. request'.at = "read" /\ request'.account = account
        /\ DOMAIN request' = {"at", "key", "account", "ath", "snapshot", "flagged"}
    BY <2>1 DEF Reads, RiskShape, IsComputing
  <2>3. IsComputing(request)' /\ Seen(request)'
    BY <1>0, <2>2 DEF IsComputing, Seen, RiskShape
  <2>4. RiskShape'
    BY <1>0, <1>1, <2>1, <2>3 DEF RiskShape, IsHandling
  <2>5. clean' => clean /\ ~Busy
    BY <2>1, WorkIsCalm
  <2>. QED BY <1>0, <1>1, <1>3, <1>4, <2>1, <2>3, <2>4, <2>5, CalmKeeps
<1>11. CASE RequestStores
  <2>. DEFINE k == KeyOf(request.account)
  <2>1. request.at = "read" /\ request' = Resting /\ cache' = [cache EXCEPT ![k] = Snapshot(request)] /\ UNCHANGED clean
    BY <1>11 DEF RequestStores
  <2>2. k \in Keys
    BY <1>5, <2>1 DEF RiskShape, IsComputing
  <2>3. IsComputing(request)' /\ Seen(request)'
    BY <2>1 DEF IsComputing, Seen, Resting
  <2>4. clean' => clean /\ ~Busy
    BY <2>1, WorkIsCalm
  <2>5. clean /\ ~Busy => request.account = account /\ k = Key
    BY <2>1 DEF AllSeen, Seen, Key, KeyOf
  <2>6. /\ cache' = [j \in Keys |-> cache'[j]]
        /\ \A j \in Keys : cache'[j] = IF j = k THEN Snapshot(request) ELSE cache[j]
    BY <2>1, <2>2 DEF RiskShape
  <2>7. \A j \in Keys : cache'[j] # None => IsSnapshot(cache'[j])
    BY <2>6, SnapshotIsSnapshot DEF RiskShape
  <2>8. RiskShape'
    BY <1>0, <1>1, <2>1, <2>3, <2>6, <2>7 DEF RiskShape, IsHandling
  <2>9. clean /\ ~Busy => Told(cache[Key])'
    BY <1>0, <1>5, <2>5, <2>6, SnapshotIsRight DEF Told, Counted
  <2>. QED BY <1>0, <1>1, <1>4, <2>3, <2>4, <2>8, <2>9, CalmKeeps
<1>. QED BY <1>6, <1>7, <1>8, <1>9, <1>10, <1>11

\* After a restart nothing is connected and nobody is at work.
LEMMA RestartKeepsShown == ASSUME RiskInv, RestartApi PROVE RiskInv'
<1>. USE DEF RiskInv
<1>1. /\ account' = None /\ cache' = [k \in Keys |-> None] /\ handler' = [h \in Handlers |-> Free]
      /\ worker' = Resting /\ request' = Resting /\ clean' = (clean /\ ~Busy) /\ UNCHANGED record
  BY DEF RestartApi
<1>2. \A h \in Handlers : IsHandling(h)' /\ handler'[h].at = "free"
  BY <1>1 DEF IsHandling, Free, Keys
<1>3. IsComputing(worker)' /\ IsComputing(request)' /\ worker'.at = "idle" /\ request'.at = "idle"
  BY <1>1 DEF IsComputing, Resting
<1>4. RiskShape'
  <2>1. clean' \in BOOLEAN
    BY <1>1
  <2>2. \A k \in Keys : (cache'[k] # None => IsSnapshot(cache'[k])) /\ (record'[k] # None => IsSnapshot(record'[k]))
    BY <1>1 DEF RiskShape, IsSnapshot
  <2>. QED BY <1>1, <1>2, <1>3, <2>1, <2>2 DEF RiskShape, Connections
<1>5. Alone' /\ MarkFlags'
  BY <1>2, <1>3 DEF Alone, MarkFlags
<1>6. AllTold' /\ AllSeen'
  BY <1>1, <1>3 DEF AllTold, AllSeen, Seen
<1>. QED BY <1>4, <1>5, <1>6

\* The candles and the all-time high are no part of what is shown.
LEMMA LevelsKeep ==
  ASSUME RiskInv, UNCHANGED <<account, open, handler, cache, record, worker, request, clean>> PROVE RiskInv'
<1>1. Key' = Key /\ Busy' = Busy /\ Counted(account)' = Counted(account)
  BY DEF Key, Busy, Counted
<1>2. RiskShape' /\ Alone' /\ MarkFlags'
  BY <1>1 DEF RiskInv, RiskShape, Alone, MarkFlags, Flagged, IsHandling, IsComputing, Key, Busy
<1>3. AllTold' /\ AllSeen'
  BY <1>1 DEF RiskInv, AllTold, AllSeen, Seen, Told, Key, Busy, Counted
<1>. QED BY <1>2, <1>3 DEF RiskInv

LEMMA RiskStep == ASSUME BalanceTells PROVE RiskInv /\ [RiskNext]_riskVars => RiskInv'
<1>. SUFFICES ASSUME RiskInv, [RiskNext]_riskVars PROVE RiskInv'
  OBVIOUS
<1>1. ASSUME NEW h \in Handlers,
             \/ \E s \in Statuses \cup {None} : PostStatus(h, s)
             \/ \E s \in Statuses : TickStatus(h, s)
             \/ \E p \in Positions : ChangePosition(h, p)
             \/ CommitRows(h) \/ Mark(h) \/ Commit(h) \/ MarkFails(h)
      PROVE  RiskInv'
  BY <1>1, ChangesKeep, CommitRowsKeeps, MarkKeeps, CommitKeeps, MarkFailsKeeps
<1>2. CASE (\E top \in Highs : Ingest(top) \/ SetLevel(top)) \/ (\E b \in ingest : RaiseLevel(b)) \/ UNCHANGED riskVars
  <2>1. UNCHANGED <<account, open, handler, cache, record, worker, request, clean>>
    BY <1>2 DEF Ingest, SetLevel, RaiseLevel, riskVars
  <2>. QED BY <2>1, LevelsKeep
<1>3. CASE (\E k \in Keys : Claim(k)) \/ WorkerReads \/ WorkerStores \/ WorkerCommits \/ WorkerFails
  BY <1>3, WorkerKeeps
<1>4. CASE Get \/ GetCaches \/ LeaveMissing \/ PostRecompute \/ RequestReads \/ RequestStores
  BY <1>4, RequestKeepsSeen
<1>5. CASE RestartApi
  BY <1>5, RestartKeepsShown
<1>. QED BY <1>1, <1>2, <1>3, <1>4, <1>5 DEF RiskNext

(* For any accounts, positions, handlers and number of changes: a change that *)
(* nobody else's work overlaps and whose flag was written is shown, or what   *)
(* hides it is flagged, while an account is connected (mark_dirty, recompute, *)
(* get_snapshot).                                                             *)
THEOREM LoneChangesAreShown == ASSUME BalanceTells PROVE RiskSpec => []LoneChangeIsShown
<1>1. RiskInit => RiskInv
  BY RiskStart
<1>2. RiskInv /\ [RiskNext]_riskVars => RiskInv'
  BY RiskStep
<1>3. RiskInv => LoneChangeIsShown
  BY ToldIsShown
<1>. QED BY <1>1, <1>2, <1>3, PTL DEF RiskSpec

----------------------------------------------------------------------------
(* Amounts. *)

HasAmounts(S) == IsFiniteSet(S) /\ \A e \in S : e.amount \in Int

\* The amount of a set is the sum of the function that gives each element its amount.
LEMMA AmountIsSum ==
    ASSUME NEW S, NEW f, \A e \in S : f[e] = e.amount
    PROVE  Amount(S) = SumF(f, S)
<1>. DEFINE solves(g) == g = [s \in SUBSET S |-> IF s = {} THEN 0 ELSE Some(s).amount + g[s \ {Some(s)}]]
<1>1. Amount(S) = (CHOOSE g : solves(g))[S]
  BY DEF Amount, MapThenSumSet, MapThenFoldSet, Some
<1>2. \A s \in SUBSET S : s # {} => f[Some(s)] = Some(s).amount
  <2>. SUFFICES ASSUME NEW s \in SUBSET S, s # {} PROVE f[Some(s)] = Some(s).amount
    OBVIOUS
  <2>1. Some(s) \in S
    BY SomeIsIn
  <2>. QED BY <2>1
<1>3. \A g : solves(g) <=> Sums(f, S, g)
  <2>. SUFFICES ASSUME NEW g
                PROVE  [s \in SUBSET S |-> IF s = {} THEN 0 ELSE Some(s).amount + g[s \ {Some(s)}]]
                         = [s \in SUBSET S |-> IF s = {} THEN 0 ELSE f[Some(s)] + g[s \ {Some(s)}]]
    BY DEF Sums
  <2>. QED BY <1>2
<1>4. (CHOOSE g : solves(g)) = (CHOOSE g : Sums(f, S, g))
  <2>. HIDE DEF solves
  <2>. QED BY <1>3
<1>. QED BY <1>1, <1>4 DEF SumF

\* An amount is a number, ...
LEMMA AmountType ==
    ASSUME NEW S, HasAmounts(S)
    PROVE  Amount(S) \in Int
<1>. DEFINE f == [e \in S |-> e.amount]
<1>1. \A e \in S : f[e] = e.amount
  OBVIOUS
<1>2. \A e \in S : f[e] \in Int
  BY DEF HasAmounts
<1>. HIDE DEF f
<1>3. Amount(S) = SumF(f, S)
  BY <1>1, AmountIsSum
<1>. QED BY <1>2, <1>3, SumType DEF HasAmounts
\* ... nothing amounts to nothing, ...
LEMMA AmountEmpty == Amount({}) = 0
<1>. DEFINE f == [e \in {} |-> 0]
<1>1. Amount({}) = SumF(f, {})
  <2>. HIDE DEF f
  <2>. QED BY AmountIsSum
<1>. QED BY <1>1, SumEmpty

\* ... two sets that share nothing amount to both, ...
LEMMA AmountDisjoint ==
    ASSUME NEW U, HasAmounts(U), NEW S, NEW T, S \cup T = U, S \cap T = {}
    PROVE  /\ Amount(U) = Amount(S) + Amount(T) /\ HasAmounts(S) /\ HasAmounts(T)
           /\ Amount(S) \in Int /\ Amount(T) \in Int /\ Amount(U) \in Int
<1>1. HasAmounts(S) /\ HasAmounts(T)
  <2>1. S \in SUBSET U /\ T \in SUBSET U
    OBVIOUS
  <2>2. IsFiniteSet(S) /\ IsFiniteSet(T)
    BY <2>1, FS_Subset DEF HasAmounts
  <2>. QED BY <2>1, <2>2 DEF HasAmounts
<1>. DEFINE f == [e \in U |-> e.amount]
<1>2. \A e \in U : f[e] = e.amount /\ f[e] \in Int
  BY DEF HasAmounts
<1>. HIDE DEF f
<1>3. Amount(U) = SumF(f, U) /\ Amount(S) = SumF(f, S) /\ Amount(T) = SumF(f, T)
  <2>1. (\A e \in S : f[e] = e.amount) /\ (\A e \in T : f[e] = e.amount)
    BY <1>2
  <2>. QED BY <1>2, <2>1, AmountIsSum
<1>4. SumF(f, S \cup T) = SumF(f, S) + SumF(f, T)
  BY <1>1, <1>2, SumDisjoint DEF HasAmounts
<1>. QED BY <1>1, <1>3, <1>4, AmountType

\* ... and so do the images of the elements, when each has an image of its own with
\* the same amount.
LEMMA AmountImage ==
    ASSUME NEW S, HasAmounts(S), NEW T, NEW h \in [S -> T],
           \A x \in S : h[x].amount = x.amount,
           \A x, y \in S : h[x] = h[y] => x = y,
           NEW U, \A u : u \in U <=> \E x \in S : u = h[x]
    PROVE  HasAmounts(U) /\ Amount(U) = Amount(S)
<1>. DEFINE f == [e \in S |-> e.amount]
            g == [e \in T |-> e.amount]
<1>1. /\ \A e \in S : f[e] = e.amount /\ f[e] \in Int
      /\ \A e \in T : g[e] = e.amount
  BY DEF HasAmounts
<1>2. \A x \in S : g[h[x]] = f[x]
  <2>. HIDE DEF f, g
  <2>. QED BY <1>1
<1>. HIDE DEF f, g
<1>3. IsFiniteSet(ImageOf(h, S)) /\ SumF(g, ImageOf(h, S)) = SumF(f, S)
  <2>1. Carries(f, g, h, S)
    BY <1>1, <1>2 DEF Carries
  <2>2. IsFiniteSet(S)
    BY DEF HasAmounts
  <2>. QED BY <2>1, <2>2, SumBijection
<1>4. U = ImageOf(h, S)
  BY DEF ImageOf
<1>5. Amount(U) = SumF(g, U) /\ Amount(S) = SumF(f, S)
  <2>1. \A e \in U : g[e] = e.amount
    BY <1>1
  <2>. QED BY <1>1, <2>1, AmountIsSum
<1>6. \A u \in U : u.amount \in Int
  BY DEF HasAmounts
<1>. QED BY <1>3, <1>4, <1>5, <1>6 DEF HasAmounts

----------------------------------------------------------------------------
(* The ledger.  Every movement that came from MT5 is one deal of the broker,  *)
(* and no deal has two movements.                                             *)

Kinds == EntryKinds \cup {"DEPOSIT", "WITHDRAWAL"}
BrokerInv ==
  /\ events \in Nat /\ now \in Int
  /\ IsFiniteSet(deals) /\ IsFiniteSet(trades)
  /\ \A d \in deals : /\ d.login \in Accounts /\ d.ticket \in 1..events
                      /\ d.wall \in Int /\ RealTime(d.wall) <= now /\ d.amount \in Int
  /\ \A c, d \in deals : c.ticket = d.ticket => c = d
  /\ trades \subseteq [login : Accounts, id : 1..events, opened : Int, closed : Int, amount : Int,
                       row : {"open", "pending", "exact"}]
  /\ \A t \in trades : RealTime(t.closed) <= now
  /\ \A t, u \in trades : t.id = u.id => t = u
  /\ status # Unknown => status.login \in Accounts /\ status.balance \in Int

\* A row of the ledger: a movement entered, or a deal imported.
IsRow(m) ==
  /\ m = [id |-> m.id, login |-> m.login, mine |-> m.mine, kind |-> m.kind, source |-> m.source,
          time |-> m.time, amount |-> m.amount, ticket |-> m.ticket]
  /\ m.id \in Int /\ m.time \in Int /\ m.amount \in Int
IsEntry(m) == IsRow(m) /\ m.source = "MANUAL" /\ m.id > 0
IsDealOf(m, d) == m.login = d.login /\ m.ticket = d.ticket /\ m.amount = d.amount /\ m.time = RealTime(d.wall)
IsImport(m, D) ==
  /\ IsRow(m) /\ m.source = "MT5" /\ m.kind \in {"DEPOSIT", "WITHDRAWAL"}
  /\ (m.id > 0 \/ m.id = -m.ticket) /\ \E d \in D : IsDealOf(m, d)

Rows(M, D) ==
  /\ IsFiniteSet(M)
  /\ \A m \in M : IsEntry(m) \/ IsImport(m, D)
  /\ \A m, n \in M : m.id = n.id => m = n
  /\ \A m, n \in M : m.source = "MT5" /\ n.source = "MT5" /\ m.ticket = n.ticket => m = n

PerfInv == BrokerInv /\ Rows(movements, deals) /\ (entry # Unknown => IsEntry(entry))

\* A post on its way: a deal that is in memory only was imported by this post.
Booked(done, book) ==
  /\ book = [saved |-> book.saved, memory |-> book.memory]
  /\ Rows(book.memory, deals) /\ Rows(book.saved, deals)
  /\ \A m \in book.memory, s \in book.saved : m.id = s.id => m.login = s.login
  /\ \A m \in book.memory : m.source = "MT5" =>
       \/ \E s \in book.saved : s.login = m.login /\ s.ticket = m.ticket
       \/ \E d \in done : d.ticket = m.ticket

\* A row that takes a deal of its account over is the movement of that deal.
LEMMA ImportedIsImport ==
    ASSUME BrokerInv, NEW m, IsRow(m), NEW d \in deals, m.login = d.login,
           m.id > 0 \/ m.id = -d.ticket
    PROVE  /\ IsImport(Imported(m, d), deals) /\ Imported(m, d).id = m.id /\ Imported(m, d).login = m.login
           /\ Imported(m, d).ticket = d.ticket /\ Imported(m, d).source = "MT5"
<1>. DEFINE kind == IF d.amount > 0 THEN "DEPOSIT" ELSE "WITHDRAWAL"
            row == [id |-> m.id, login |-> m.login, mine |-> m.mine, kind |-> kind, source |-> "MT5",
                    time |-> RealTime(d.wall), amount |-> d.amount, ticket |-> d.ticket]
<1>1. Imported(m, d) = row
  <2>1. PICK i, l, mine, k, s, t, a, x :
          m = [id |-> i, login |-> l, mine |-> mine, kind |-> k, source |-> s,
               time |-> t, amount |-> a, ticket |-> x]
    BY DEF IsRow
  <2>2. row = [id |-> i, login |-> l, mine |-> mine, kind |-> kind, source |-> "MT5",
               time |-> RealTime(d.wall), amount |-> d.amount, ticket |-> d.ticket]
    BY <2>1
  <2>. HIDE DEF row, kind
  <2>3. Imported(m, d) = [id |-> i, login |-> l, mine |-> mine, kind |-> kind, source |-> "MT5",
                          time |-> RealTime(d.wall), amount |-> d.amount, ticket |-> d.ticket]
    <3>1. Imported(m, d) = [[[[[m EXCEPT !.source = "MT5"] EXCEPT !.ticket = d.ticket] EXCEPT !.amount = d.amount]
                             EXCEPT !.time = RealTime(d.wall)] EXCEPT !.kind = kind]
      BY DEF Imported, kind
    <3>2. PICK m1 : m1 = [m EXCEPT !.source = "MT5"]
      OBVIOUS
    <3>3. PICK m2 : m2 = [m1 EXCEPT !.ticket = d.ticket]
      OBVIOUS
    <3>4. PICK m3 : m3 = [m2 EXCEPT !.amount = d.amount]
      OBVIOUS
    <3>5. PICK m4 : m4 = [m3 EXCEPT !.time = RealTime(d.wall)]
      OBVIOUS
    <3>6. m1 = [id |-> i, login |-> l, mine |-> mine, kind |-> k, source |-> "MT5",
                time |-> t, amount |-> a, ticket |-> x]
      BY <2>1, <3>2
    <3>7. m2 = [id |-> i, login |-> l, mine |-> mine, kind |-> k, source |-> "MT5",
                time |-> t, amount |-> a, ticket |-> d.ticket]
      BY <3>3, <3>6
    <3>8. m3 = [id |-> i, login |-> l, mine |-> mine, kind |-> k, source |-> "MT5",
                time |-> t, amount |-> d.amount, ticket |-> d.ticket]
      BY <3>4, <3>7
    <3>9. m4 = [id |-> i, login |-> l, mine |-> mine, kind |-> k, source |-> "MT5",
                time |-> RealTime(d.wall), amount |-> d.amount, ticket |-> d.ticket]
      BY <3>5, <3>8
    <3>10. [m4 EXCEPT !.kind = kind]
             = [id |-> i, login |-> l, mine |-> mine, kind |-> kind, source |-> "MT5",
                time |-> RealTime(d.wall), amount |-> d.amount, ticket |-> d.ticket]
      BY <3>9
    <3>. QED BY <3>1, <3>2, <3>3, <3>4, <3>5, <3>10
  <2>. QED BY <2>2, <2>3
<1>2. RealTime(d.wall) \in Int /\ d.amount \in Int /\ m.id \in Int
  BY LedgerAssumption DEF BrokerInv, RealTime, IsRow
<1>3. kind \in {"DEPOSIT", "WITHDRAWAL"}
  OBVIOUS
<1>4. IsRow(row) /\ IsDealOf(row, d)
  BY <1>2 DEF IsRow, IsDealOf
<1>5. IsImport(row, deals)
  BY <1>3, <1>4 DEF IsImport
<1>. QED BY <1>1, <1>5

\* A deal that no row has becomes a row of its own.
LEMMA NewImportIsImport ==
    ASSUME BrokerInv, NEW d \in deals
    PROVE  /\ IsImport(NewImport(d), deals) /\ NewImport(d).id = -d.ticket /\ NewImport(d).login = d.login
           /\ NewImport(d).ticket = d.ticket /\ NewImport(d).source = "MT5"
<1>. DEFINE m == [id |-> -d.ticket, login |-> d.login, mine |-> FALSE, kind |-> "DEPOSIT",
                  source |-> "MT5", time |-> 0, amount |-> 0, ticket |-> Unknown]
<1>1. d.ticket \in Int
  BY DEF BrokerInv
<1>2. IsRow(m) /\ m.login = d.login /\ m.id = -d.ticket
  BY <1>1 DEF IsRow
<1>3. NewImport(d) = Imported(m, d)
  BY DEF NewImport
<1>. HIDE DEF m
<1>. QED BY <1>2, <1>3, ImportedIsImport

\* An imported row has the ticket of one deal, which is a deal of its account.
LEMMA ImportHasDeal ==
    ASSUME BrokerInv, NEW m, IsImport(m, deals), NEW d \in deals, m.ticket = d.ticket
    PROVE  IsDealOf(m, d)
  BY DEF BrokerInv, IsImport, IsDealOf

\* Rows with one of them exchanged, or one added.
LEMMA RowChanged ==
    ASSUME BrokerInv, NEW M, Rows(M, deals), NEW R, IsFiniteSet(R), R \subseteq M,
           NEW n, IsImport(n, deals), \A m \in R : m.id # n.id,
           \A m \in R : m.source = "MT5" => m.ticket # n.ticket
    PROVE  Rows(R \cup {n}, deals)
<1>1. IsFiniteSet(R \cup {n})
  BY FS_AddElement
<1>2. n.source = "MT5"
  BY DEF IsImport
<1>. QED BY <1>1, <1>2 DEF Rows

\* While a post is imported the ledger keeps one row for one deal.
LEMMA ImportKeepsBook ==
    ASSUME BrokerInv, NEW done \in SUBSET deals, NEW d \in deals, d \notin done,
           NEW book, Booked(done, book)
    PROVE  Booked(done \cup {d}, Import(book, d))
<1>. DEFINE M == book.memory
            S == book.saved
            known == \E m \in S : m.login = d.login /\ m.ticket = d.ticket
            matches == Matches(book, d)
<1>0. /\ book = [saved |-> S, memory |-> M] /\ Rows(M, deals) /\ Rows(S, deals)
      /\ \A m \in M, s \in S : m.id = s.id => m.login = s.login
      /\ \A m \in M : m.source = "MT5" =>
           \/ \E s \in S : s.login = m.login /\ s.ticket = m.ticket
           \/ \E c \in done : c.ticket = m.ticket
  BY DEF Booked
<1>1. CASE known
  <2>1. Import(book, d) = book
    BY <1>1 DEF Import
  <2>. QED BY <2>1 DEF Booked
<1>2. CASE ~known
  <2>1. ASSUME NEW m \in M, m.source = "MT5" PROVE m.ticket # d.ticket
    <3>. SUFFICES ASSUME m.ticket = d.ticket PROVE FALSE
      OBVIOUS
    <3>1. IsImport(m, deals)
      BY <1>0, <2>1 DEF Rows, IsEntry
    <3>2. m.login = d.login
      BY <3>1, ImportHasDeal DEF IsDealOf
    <3>3. PICK c \in done : c.ticket = m.ticket
      BY <1>0, <1>2, <2>1, <3>2
    <3>. QED BY <3>3 DEF BrokerInv
  <2>2. CASE Cardinality(matches) = 1
    <3>1. IsFiniteSet(M) /\ matches \subseteq M /\ IsFiniteSet(matches)
      BY <1>0, FS_Subset DEF Rows, Matches
    <3>2. PICK m : matches = {m}
      BY <2>2, <3>1, FS_Singleton
    <3>3. m \in M /\ \E s \in S : s.source = "MANUAL" /\ s.login = d.login /\ s.id = m.id
      BY <3>2 DEF Matches
    <3>4. IsRow(m)
      BY <1>0, <3>3 DEF Rows, IsEntry, IsImport
    <3>5. m.login = d.login /\ m.id > 0
      <4>1. PICK s \in S : s.source = "MANUAL" /\ s.login = d.login /\ s.id = m.id
        BY <3>3
      <4>2. IsEntry(s)
        BY <1>0, <4>1 DEF Rows, IsImport
      <4>. QED BY <1>0, <3>3, <4>1, <4>2 DEF IsEntry
    <3>. DEFINE n == Imported(m, d)
                R == M \ matches
    <3>6. IsImport(n, deals) /\ n.id = m.id /\ n.login = m.login /\ n.ticket = d.ticket /\ n.source = "MT5"
      BY <3>4, <3>5, ImportedIsImport
    <3>7. Import(book, d) = [saved |-> S, memory |-> R \cup {n}]
      <4>1. {Imported(x, d) : x \in matches} = {n}
        BY <3>2
      <4>2. Import(book, d) = [book EXCEPT !.memory = R \cup {n}]
        <5>. HIDE DEF n
        <5>. QED BY <1>2, <2>2, <4>1 DEF Import
      <4>. HIDE DEF n, R, S, M
      <4>. QED BY <1>0, <4>2
    <3>. HIDE DEF n, matches
    <3>8. IsFiniteSet(R) /\ R \subseteq M /\ m \notin R
      BY <3>1, <3>2, FS_Subset
    <3>9. \A x \in R : x.id # n.id
      BY <1>0, <3>3, <3>6, <3>8 DEF Rows
    <3>. HIDE DEF R, M, S
    <3>10. \A x \in R : x.source = "MT5" => x.ticket # n.ticket
      BY <2>1, <3>6, <3>8
    <3>11. Rows(R \cup {n}, deals)
      BY <1>0, <3>6, <3>8, <3>9, <3>10, RowChanged
    <3>12. \A x \in R \cup {n}, s \in S : x.id = s.id => x.login = s.login
      BY <1>0, <3>3, <3>6, <3>8
    <3>13. \A x \in R \cup {n} : x.source = "MT5" =>
             \/ \E s \in S : s.login = x.login /\ s.ticket = x.ticket
             \/ \E c \in done \cup {d} : c.ticket = x.ticket
      BY <1>0, <3>6, <3>8
    <3>14. Import(book, d).saved = S /\ Import(book, d).memory = R \cup {n}
      BY <3>7
    <3>15. Rows(Import(book, d).saved, deals) /\ Rows(Import(book, d).memory, deals)
      BY <1>0, <3>11, <3>14
    <3>. QED BY <3>7, <3>12, <3>13, <3>14, <3>15 DEF Booked
  <2>3. CASE Cardinality(matches) # 1
    <3>. DEFINE n == NewImport(d)
                all == M \cup {n}
    <3>1. IsImport(n, deals) /\ n.id = -d.ticket /\ n.login = d.login /\ n.ticket = d.ticket /\ n.source = "MT5"
      BY NewImportIsImport
    <3>2. Import(book, d) = [saved |-> all, memory |-> all]
      BY <1>2, <2>3 DEF Import
    <3>. HIDE DEF n, matches
    <3>3. ASSUME NEW x \in M PROVE x.id # n.id
      <4>1. d.ticket \in Int /\ d.ticket > 0
        BY DEF BrokerInv
      <4>2. CASE IsEntry(x)
        BY <3>1, <4>1, <4>2 DEF IsEntry, IsRow
      <4>3. CASE IsImport(x, deals)
        <5>1. x.source = "MT5" /\ x.id \in Int /\ (x.id > 0 \/ x.id = -x.ticket)
          BY <4>3 DEF IsImport, IsRow
        <5>2. x.ticket \in Int
          BY <4>3 DEF IsImport, IsDealOf, BrokerInv
        <5>. QED BY <2>1, <3>1, <4>1, <5>1, <5>2
      <4>. QED BY <1>0, <4>2, <4>3 DEF Rows
    <3>4. \A x \in M : x.source = "MT5" => x.ticket # n.ticket
      BY <2>1, <3>1
    <3>5. IsFiniteSet(M)
      BY <1>0 DEF Rows
    <3>. HIDE DEF M, S
    <3>6. Rows(all, deals)
      BY <1>0, <3>1, <3>3, <3>4, <3>5, RowChanged
    <3>7. \A x \in all, s \in all : x.id = s.id => x.login = s.login
      BY <3>6 DEF Rows
    <3>. HIDE DEF all
    <3>. QED BY <3>2, <3>6, <3>7 DEF Booked
  <2>. QED BY <2>2, <2>3
<1>. QED BY <1>1, <1>2

----------------------------------------------------------------------------
(* A post, and the other steps of the ledger. *)

ImportFold == [fold |-> "import", base |-> [saved |-> movements, memory |-> movements]]

\* The latest of some deals is one of them.
LEMMA LatestIsIn ==
    ASSUME BrokerInv, NEW s \in SUBSET deals, s # {}
    PROVE  Latest(s) \in s
<1>. DEFINE tickets == {d.ticket : d \in s}
<1>1. tickets \in SUBSET Int /\ tickets # {}
  BY DEF BrokerInv
<1>2. IsFiniteSet(tickets)
  <2>1. tickets \in SUBSET (1..events)
    BY DEF BrokerInv
  <2>2. IsFiniteSet(1..events)
    <3>1. 1 \in Int /\ events \in Int
      BY DEF BrokerInv
    <3>. QED BY <3>1, FS_Interval
  <2>. HIDE DEF tickets
  <2>. QED BY <2>1, <2>2, FS_Subset
<1>3. \E x \in tickets : \A y \in tickets : x >= y
  <2>. HIDE DEF tickets
  <2>. QED BY <1>1, <1>2, GreatestExists
<1>4. PICK d \in s : \A y \in tickets : d.ticket >= y
  BY <1>3
<1>5. \A c \in s : c.ticket <= d.ticket
  <2>. SUFFICES ASSUME NEW c \in s PROVE c.ticket <= d.ticket
    OBVIOUS
  <2>1. c.ticket \in Int /\ d.ticket \in Int /\ c.ticket \in tickets
    BY DEF BrokerInv
  <2>. QED BY <1>4, <2>1
<1>. QED BY <1>5 DEF Latest

\* The import of a post is a fold over its deals.
LEMMA ImportIsFold ==
    ASSUME BrokerInv, NEW batch \in SUBSET deals
    PROVE  ImportAll(batch) = FoldOf(ImportFold, batch) /\ Takes(ImportFold, batch)
<1>. DEFINE base == [saved |-> movements, memory |-> movements]
            solves(g) == g = [s \in SUBSET batch |-> IF s = {} THEN base
                                ELSE Import(g[s \ {Latest(s)}], Latest(s))]
<1>1. \A s : Taken(ImportFold, s) = Latest(s)
  BY DEF Taken, ImportFold
<1>2. \A d, book : Step(ImportFold, d, book) = Import(book, d)
  BY DEF Step, ImportFold
<1>3. ImportFold.base = base
  BY DEF ImportFold
<1>4. ImportAll(batch) = (CHOOSE g : solves(g))[batch]
  BY DEF ImportAll, MapThenFoldSet
<1>5. \A g : solves(g) <=> Solves(ImportFold, batch, g)
  <2>. HIDE DEF base
  <2>. QED BY <1>1, <1>2, <1>3 DEF Solves
<1>6. (CHOOSE g : solves(g)) = (CHOOSE g : Solves(ImportFold, batch, g))
  <2>. HIDE DEF solves
  <2>. QED BY <1>5
<1>7. Takes(ImportFold, batch)
  BY <1>1, LatestIsIn DEF Takes
<1>. HIDE DEF solves
<1>. QED BY <1>4, <1>6, <1>7 DEF FoldOf

\* After any number of deals of the post there is one row for one deal.
LEMMA PostIsBooked ==
    ASSUME PerfInv, NEW batch \in SUBSET deals
    PROVE  Rows(ImportAll(batch).memory, deals)
<1>0. BrokerInv /\ IsFiniteSet(batch)
  BY FS_Subset DEF PerfInv, BrokerInv
<1>. DEFINE P == {T \in SUBSET batch : Booked(T, FoldOf(ImportFold, T))}
<1>1. ASSUME NEW T \in SUBSET batch, \A U \in SUBSET T : U # T => U \in P
      PROVE  T \in P
  <2>1. CASE T = {}
    <3>. DEFINE book == [saved |-> movements, memory |-> movements]
    <3>1. FoldOf(ImportFold, {}) = ImportFold.base
      BY FoldEmpty
    <3>2. ImportFold.base = book
      BY DEF ImportFold
    <3>3. book.saved = movements /\ book.memory = movements /\ book = [saved |-> book.saved, memory |-> book.memory]
      OBVIOUS
    <3>. HIDE DEF book
    <3>4. \A m, n \in movements : m.id = n.id => m.login = n.login
      BY DEF PerfInv, Rows
    <3>5. Booked({}, book)
      BY <3>3, <3>4 DEF Booked, PerfInv
    <3>. QED BY <2>1, <3>1, <3>2, <3>5
  <2>2. CASE T # {}
    <3>0. Takes(ImportFold, T) /\ IsFiniteSet(T)
      BY <1>0, ImportIsFold, FS_Subset
    <3>1. PICK d : d = Latest(T)
      OBVIOUS
    <3>2. Taken(ImportFold, T) = d /\ d \in T
      BY <1>0, <2>2, <3>1, LatestIsIn DEF Taken, ImportFold
    <3>3. PICK U : U = T \ {d}
      OBVIOUS
    <3>4. FoldOf(ImportFold, T) = Step(ImportFold, d, FoldOf(ImportFold, U))
      BY <2>2, <3>0, <3>2, <3>3, FoldTakes
    <3>5. Step(ImportFold, d, FoldOf(ImportFold, U)) = Import(FoldOf(ImportFold, U), d)
      BY DEF Step, ImportFold
    <3>6. Booked(U, FoldOf(ImportFold, U))
      BY <1>1, <3>2, <3>3
    <3>7. Booked(U \cup {d}, Import(FoldOf(ImportFold, U), d))
      BY <1>0, <3>2, <3>3, <3>6, ImportKeepsBook
    <3>8. U \cup {d} = T
      BY <3>2, <3>3
    <3>. QED BY <3>4, <3>5, <3>7, <3>8
  <2>. QED BY <2>1, <2>2
<1>2. \A T \in SUBSET batch : T \in P
  <2>. HIDE DEF P
  <2>. QED BY <1>0, <1>1, SubsetInduction
<1>3. Booked(batch, FoldOf(ImportFold, batch))
  BY <1>2
<1>. QED BY <1>0, <1>3, ImportIsFold DEF Booked

\* The report and the ledger leave the broker alone.
LEMMA BrokerStays ==
    ASSUME BrokerInv, UNCHANGED <<now, deals, trades, status, events>>
    PROVE  BrokerInv'
  BY DEF BrokerInv, RealTime

\* More deals, and fewer rows, are no harm.
LEMMA RowsStay ==
    ASSUME NEW M, NEW D, Rows(M, D), NEW N \in SUBSET M, NEW E, D \subseteq E
    PROVE  Rows(N, E)
<1>1. IsFiniteSet(N)
  BY FS_Subset DEF Rows
<1>2. \A m \in N : IsEntry(m) \/ IsImport(m, E)
  BY DEF Rows, IsImport
<1>. QED BY <1>1, <1>2 DEF Rows

\* A deal is new to the broker.
LEMMA DealKeeps ==
    ASSUME PerfInv, NEW a \in Accounts, NEW c \in CashAmounts, BalanceDeal(a, c)
    PROVE  PerfInv'
<1>. DEFINE n == events + 1
            deal == [login |-> a, ticket |-> n, wall |-> now + Zone, amount |-> c]
<1>1. /\ deals' = deals \cup {deal} /\ events' = n
      /\ UNCHANGED <<now, trades, movements, posted, status, entry>>
  BY DEF BalanceDeal
<1>2. BrokerInv'
  <2>1. n \in Nat /\ n > events /\ deal.ticket = n /\ n \in 1..n /\ \A e \in 1..events : e \in 1..n /\ e # n
    BY DEF PerfInv, BrokerInv
  <2>2. deal.login = a /\ deal.wall \in Int /\ RealTime(deal.wall) = now /\ deal.amount \in Int /\ now <= now
    BY LedgerAssumption DEF PerfInv, BrokerInv, RealTime
  <2>. HIDE DEF deal, n
  <2>3. IsFiniteSet(deals \cup {deal})
    BY FS_AddElement DEF PerfInv, BrokerInv
  <2>4. \A d \in deals : d.ticket # deal.ticket
    BY <2>1 DEF PerfInv, BrokerInv
  <2>5. \A d \in deals \cup {deal} : /\ d.login \in Accounts /\ d.ticket \in 1..n
                                    /\ d.wall \in Int /\ RealTime(d.wall) <= now /\ d.amount \in Int
    BY <2>1, <2>2 DEF PerfInv, BrokerInv
  <2>6. \A d, e \in deals \cup {deal} : d.ticket = e.ticket => d = e
    BY <2>4 DEF PerfInv, BrokerInv
  <2>7. \A t \in trades : t \in [login : Accounts, id : 1..n, opened : Int, closed : Int, amount : Int,
                                 row : {"open", "pending", "exact"}]
    BY <2>1 DEF PerfInv, BrokerInv
  <2>. QED BY <1>1, <2>1, <2>3, <2>5, <2>6, <2>7 DEF PerfInv, BrokerInv, RealTime
<1>. HIDE DEF deal, n
<1>3. Rows(movements, deals \cup {deal})
  BY RowsStay DEF PerfInv
<1>. QED BY <1>1, <1>2, <1>3 DEF PerfInv

\* A trade is closed.
LEMMA TradeKeeps ==
    ASSUME PerfInv, NEW a \in Accounts, NEW o \in 1..now, NEW p \in ProfitAmounts, TradeCloses(a, o, p)
    PROVE  PerfInv'
<1>. DEFINE n == events + 1
            trade == [login |-> a, id |-> n, opened |-> o + Zone, closed |-> now + Zone,
                      amount |-> p, row |-> "open"]
<1>1. /\ trades' = trades \cup {trade} /\ events' = n
      /\ UNCHANGED <<now, deals, movements, posted, status, entry>>
  BY DEF TradeCloses
<1>2. n \in Nat /\ trade.id = n /\ n \in 1..n /\ \A e \in 1..events : e \in 1..n /\ e # n
  BY DEF PerfInv, BrokerInv
<1>3. /\ trade \in [login : Accounts, id : 1..n, opened : Int, closed : Int, amount : Int,
                    row : {"open", "pending", "exact"}]
      /\ RealTime(trade.closed) <= now
  <2>1. o + Zone \in Int /\ now + Zone \in Int /\ (now + Zone) - Zone <= now /\ p \in Int
    BY LedgerAssumption DEF PerfInv, BrokerInv
  <2>. QED BY <1>2, <2>1 DEF RealTime
<1>. HIDE DEF trade, n
<1>4. IsFiniteSet(trades \cup {trade})
  BY FS_AddElement DEF PerfInv, BrokerInv
<1>5. \A t \in trades \cup {trade} :
        /\ t \in [login : Accounts, id : 1..n, opened : Int, closed : Int, amount : Int,
                  row : {"open", "pending", "exact"}]
        /\ RealTime(t.closed) <= now
  BY <1>2, <1>3 DEF PerfInv, BrokerInv
<1>6. \A t \in trades : t.id # trade.id
  BY <1>2 DEF PerfInv, BrokerInv
<1>7. \A t, u \in trades \cup {trade} : t.id = u.id => t = u
  BY <1>6 DEF PerfInv, BrokerInv
<1>8. \A d \in deals : d.ticket \in 1..n
  BY <1>2 DEF PerfInv, BrokerInv
<1>. QED BY <1>1, <1>2, <1>4, <1>5, <1>7, <1>8 DEF PerfInv, BrokerInv, RealTime

\* The row of a trade is closed.
LEMMA RowKeeps ==
    ASSUME PerfInv, NEW t \in trades, NEW row \in {"pending", "exact"}, RowCloses(t, row)
    PROVE  PerfInv'
<1>. DEFINE u == [t EXCEPT !.row = row]
<1>1. /\ trades' = (trades \ {t}) \cup {u}
      /\ UNCHANGED <<now, deals, movements, posted, status, entry, events>>
  BY DEF RowCloses
<1>2. /\ u \in [login : Accounts, id : 1..events, opened : Int, closed : Int, amount : Int,
                row : {"open", "pending", "exact"}]
      /\ u.closed = t.closed /\ u.id = t.id /\ RealTime(t.closed) <= now
  BY DEF PerfInv, BrokerInv
<1>. HIDE DEF u
<1>3. IsFiniteSet((trades \ {t}) \cup {u})
  <2>1. IsFiniteSet(trades \ {t})
    BY FS_Subset DEF PerfInv, BrokerInv
  <2>. QED BY <2>1, FS_AddElement
<1>4. RealTime(u.closed) <= now
  BY <1>2
<1>5. \A v, w \in (trades \ {t}) \cup {u} : v.id = w.id => v = w
  BY <1>2 DEF PerfInv, BrokerInv
<1>6. \A v \in (trades \ {t}) \cup {u} :
        /\ v \in [login : Accounts, id : 1..events, opened : Int, closed : Int, amount : Int,
                  row : {"open", "pending", "exact"}]
        /\ RealTime(v.closed) <= now
  BY <1>2, <1>4 DEF PerfInv, BrokerInv
<1>. QED BY <1>1, <1>3, <1>5, <1>6 DEF PerfInv, BrokerInv, RealTime

\* A movement is entered: it has a positive number, its own or that of the one it replaces.
LEMMA EnterKeeps ==
    ASSUME PerfInv, NEW kind \in EntryKinds, NEW c \in CashAmounts, NEW time \in 1..now, Enter(kind, c, time)
    PROVE  PerfInv'
<1>. DEFINE same == {m \in movements : /\ m.source = "MANUAL" /\ m.mine /\ m.kind = "INITIAL"
                                       /\ m.login \in {Scope, Unknown}}
            id == IF kind = "INITIAL" /\ same # {} THEN Min({m.id : m \in same}) ELSE events + 1
            row == [id |-> id, login |-> Scope, mine |-> TRUE, kind |-> kind, source |-> "MANUAL",
                    time |-> time, amount |-> c, ticket |-> Unknown]
<1>1. /\ entry' = row /\ events' = events + 1
      /\ UNCHANGED <<now, deals, trades, movements, posted, status>>
  BY DEF Enter
<1>2. BrokerInv'
  <2>1. events + 1 \in Nat /\ \A e \in 1..events : e \in 1..(events + 1)
    BY DEF PerfInv, BrokerInv
  <2>2. \A t \in trades : t \in [login : Accounts, id : 1..(events + 1), opened : Int, closed : Int,
                                 amount : Int, row : {"open", "pending", "exact"}]
    BY <2>1 DEF PerfInv, BrokerInv
  <2>. HIDE DEF row
  <2>. QED BY <1>1, <2>1, <2>2 DEF PerfInv, BrokerInv, RealTime
<1>3. id \in Int /\ id > 0
  <2>1. CASE kind = "INITIAL" /\ same # {}
    <3>. DEFINE ids == {m.id : m \in same}
    <3>1. \A m \in same : m.id \in Int /\ m.id > 0
      BY DEF PerfInv, Rows, IsEntry, IsImport, IsRow
    <3>. HIDE DEF same
    <3>2. ids \in SUBSET Int /\ ids # {} /\ \A i \in ids : i > 0
      BY <2>1, <3>1
    <3>3. IsFiniteSet(ids)
      <4>. DEFINE numbers == [m \in same |-> m.id]
      <4>1. numbers \in Surjection(same, ids)
        BY DEF Surjection
      <4>2. IsFiniteSet(same)
        <5>1. same \in SUBSET movements
          BY DEF same
        <5>. QED BY <5>1, FS_Subset DEF PerfInv, Rows
      <4>. HIDE DEF numbers, ids
      <4>. QED BY <4>1, <4>2, FS_Surjection
    <3>4. Min(ids) \in ids
      <4>. HIDE DEF ids
      <4>. QED BY <3>2, <3>3, MinIsLeast
    <3>. QED BY <2>1, <3>2, <3>4
  <2>2. CASE ~(kind = "INITIAL" /\ same # {})
    BY <2>2 DEF PerfInv, BrokerInv
  <2>. QED BY <2>1, <2>2
<1>4. IsEntry(row)
  <2>. HIDE DEF id
  <2>1. time \in Int /\ c \in Int
    BY LedgerAssumption DEF PerfInv, BrokerInv
  <2>. QED BY <1>3, <2>1 DEF IsEntry, IsRow
<1>. HIDE DEF row
<1>. QED BY <1>1, <1>2, <1>4 DEF PerfInv

\* The entry takes the place of the row with its number, if there is one.
LEMMA CommitEntryKeeps ==
    ASSUME PerfInv, CommitEntry
    PROVE  PerfInv'
<1>. DEFINE rest == {m \in movements : m.id # entry.id}
<1>1. /\ entry # Unknown /\ entry' = Unknown /\ movements' = rest \cup {entry}
      /\ UNCHANGED <<now, deals, trades, posted, status, events>>
  BY DEF CommitEntry
<1>2. IsEntry(entry)
  BY <1>1 DEF PerfInv
<1>3. Rows(rest, deals) /\ \A m \in rest : m.id # entry.id
  BY RowsStay DEF PerfInv
<1>. HIDE DEF rest
<1>4. Rows(rest \cup {entry}, deals)
  <2>1. IsFiniteSet(rest \cup {entry})
    BY <1>3, FS_AddElement DEF Rows
  <2>2. entry.source # "MT5"
    BY <1>2 DEF IsEntry
  <2>. QED BY <1>2, <1>3, <2>1, <2>2 DEF Rows
<1>5. BrokerInv'
  BY <1>1, BrokerStays DEF PerfInv
<1>. QED BY <1>1, <1>4, <1>5 DEF PerfInv

\* The bridge posts the deals of an account.
LEMMA PostKeeps ==
    ASSUME PerfInv, NEW a \in Accounts, NEW from, PostDeals(a, from)
    PROVE  PerfInv'
<1>. DEFINE batch == {d \in deals : d.login = a /\ d.ticket > from}
<1>1. movements' = ImportAll(batch).memory /\ UNCHANGED <<now, deals, trades, status, entry, events>>
  BY DEF PostDeals
<1>2. Rows(ImportAll(batch).memory, deals)
  <2>1. batch \in SUBSET deals
    OBVIOUS
  <2>. HIDE DEF batch
  <2>. QED BY <2>1, PostIsBooked
<1>3. BrokerInv'
  BY <1>1, BrokerStays DEF PerfInv
<1>. HIDE DEF batch
<1>. QED BY <1>1, <1>2, <1>3 DEF PerfInv

\* A balance is a number.
LEMMA BalanceType ==
    ASSUME PerfInv, NEW a
    PROVE  Balance(a) \in Int
<1>. DEFINE D == {d \in deals : d.login = a}
            C == {t \in trades : t.login = a}
<1>1. IsFiniteSet(D) /\ IsFiniteSet(C)
  BY FS_Subset DEF PerfInv, BrokerInv
<1>2. (\A d \in D : d.amount \in Int) /\ (\A t \in C : t.amount \in Int)
  BY DEF PerfInv, BrokerInv
<1>3. Balance(a) = Amount(D) + Amount(C)
  BY DEF Balance
<1>. HIDE DEF D, C
<1>4. Amount(D) \in Int /\ Amount(C) \in Int
  BY <1>1, <1>2, AmountType DEF HasAmounts
<1>. QED BY <1>3, <1>4

\* Nothing is there at first.
LEMMA PerfStart == PerfInit => PerfInv
<1>. SUFFICES ASSUME PerfInit PROVE PerfInv
  OBVIOUS
<1>1. now \in Int /\ events \in Nat /\ deals = {} /\ trades = {} /\ movements = {} /\ status = Unknown /\ entry = Unknown
  BY DEF PerfInit
<1>2. IsFiniteSet({})
  BY FS_EmptySet
<1>. QED BY <1>1, <1>2 DEF PerfInv, BrokerInv, Rows

\* Every step keeps one row for one deal.
LEMMA PerfStep == PerfInv /\ [PerfNext]_perfVars => PerfInv'
<1>. SUFFICES ASSUME PerfInv, [PerfNext]_perfVars PROVE PerfInv'
  OBVIOUS
<1>1. CASE Tick
  <2>1. now' = now + 1 /\ UNCHANGED <<deals, trades, movements, posted, status, entry, events>>
    BY <1>1 DEF Tick
  <2>2. \A x \in Int : x <= now => x <= now'
    BY <2>1 DEF PerfInv, BrokerInv
  <2>3. now' \in Int
    BY <2>1 DEF PerfInv, BrokerInv
  <2>4. \A d \in deals : RealTime(d.wall) <= now'
    <3>. SUFFICES ASSUME NEW d \in deals PROVE RealTime(d.wall) <= now'
      OBVIOUS
    <3>1. RealTime(d.wall) \in Int /\ RealTime(d.wall) <= now
      BY LedgerAssumption DEF PerfInv, BrokerInv, RealTime
    <3>. QED BY <2>2, <3>1
  <2>5. \A t \in trades : RealTime(t.closed) <= now'
    <3>. SUFFICES ASSUME NEW t \in trades PROVE RealTime(t.closed) <= now'
      OBVIOUS
    <3>1. RealTime(t.closed) \in Int /\ RealTime(t.closed) <= now
      BY LedgerAssumption DEF PerfInv, BrokerInv, RealTime
    <3>. QED BY <2>2, <3>1
  <2>6. BrokerInv'
    <3>1. \A d \in deals' : /\ d.login \in Accounts /\ d.ticket \in 1..events'
                            /\ d.wall \in Int /\ RealTime(d.wall) <= now' /\ d.amount \in Int
      BY <2>1, <2>4 DEF PerfInv, BrokerInv
    <3>2. \A t \in trades' : RealTime(t.closed) <= now'
      BY <2>1, <2>5
    <3>3. trades' \subseteq [login : Accounts, id : 1..events', opened : Int, closed : Int, amount : Int,
                             row : {"open", "pending", "exact"}]
      BY <2>1 DEF PerfInv, BrokerInv
    <3>. QED BY <2>1, <2>3, <3>1, <3>2, <3>3 DEF PerfInv, BrokerInv, RealTime
  <2>. QED BY <2>1, <2>6 DEF PerfInv
<1>2. CASE \E a \in Accounts : \E c \in CashAmounts : BalanceDeal(a, c)
  BY <1>2, DealKeeps
<1>3. CASE \E a \in Accounts : \E o \in 1..now, p \in ProfitAmounts : TradeCloses(a, o, p)
  BY <1>3, TradeKeeps
<1>4. CASE \E a \in Accounts : \E from \in {0, posted[a]} : PostDeals(a, from)
  BY <1>4, PostKeeps
<1>5. CASE \E t \in trades, row \in {"pending", "exact"} : RowCloses(t, row)
  BY <1>5, RowKeeps
<1>6. CASE \E a \in Accounts \cup {Unknown} : PostAccountStatus(a)
  <2>1. PICK a \in Accounts \cup {Unknown} : PostAccountStatus(a)
    BY <1>6
  <2>2. UNCHANGED <<now, deals, trades, movements, posted, entry, events>>
    BY <2>1 DEF PostAccountStatus
  <2>3. status' # Unknown => status'.login \in Accounts /\ status'.balance \in Int
    <3>1. CASE a = Unknown
      BY <2>1, <3>1 DEF PostAccountStatus
    <3>2. CASE a # Unknown
      <4>1. status' = [login |-> a, balance |-> Balance(a)]
        BY <2>1, <3>2 DEF PostAccountStatus
      <4>. QED BY <3>2, <4>1, BalanceType
    <3>. QED BY <3>1, <3>2
  <2>4. BrokerInv'
    BY <2>2, <2>3 DEF PerfInv, BrokerInv, RealTime
  <2>. QED BY <2>2, <2>4 DEF PerfInv
<1>7. CASE \E kind \in EntryKinds, c \in CashAmounts, t \in 1..now : Enter(kind, c, t)
  BY <1>7, EnterKeeps
<1>8. CASE CommitEntry
  BY <1>8, CommitEntryKeeps
<1>9. CASE \E m \in movements : DeleteMovement(m)
  <2>1. PICK m \in movements : DeleteMovement(m)
    BY <1>9
  <2>2. movements' = movements \ {m} /\ UNCHANGED <<now, deals, trades, posted, status, entry, events>>
    BY <2>1 DEF DeleteMovement
  <2>3. Rows(movements \ {m}, deals)
    BY RowsStay DEF PerfInv
  <2>4. BrokerInv'
    BY <2>2, BrokerStays DEF PerfInv
  <2>. QED BY <2>2, <2>3, <2>4 DEF PerfInv
<1>10. CASE UNCHANGED perfVars
  <2>1. UNCHANGED <<now, deals, trades, movements, posted, status, entry, events>>
    BY <1>10 DEF perfVars
  <2>2. BrokerInv'
    BY <2>1, BrokerStays DEF PerfInv
  <2>. QED BY <2>1, <2>2 DEF PerfInv
<1>. QED BY <1>1, <1>2, <1>3, <1>4, <1>5, <1>6, <1>7, <1>8, <1>9, <1>10 DEF PerfNext

PerfSpec == PerfInit /\ [][PerfNext]_perfVars

(* Whatever is dealt, entered, deleted and posted, in whichever order and      *)
(* however often: an imported row of the ledger is one deal of its account,    *)
(* with its amount and its real time, and no deal has two rows.                *)
THEOREM OneRowOneDeal == PerfSpec => []PerfInv
<1>. QED BY PerfStart, PerfStep, PTL DEF PerfSpec

----------------------------------------------------------------------------
(* The report.  A return is a fold over the instants of its window; what it   *)
(* ends with is what it starts with, the profits and the cash in between.     *)

\* What holds at the first instant and, with one instant, at the next, holds at each.
LEMMA IntervalInduction ==
    ASSUME NEW a \in Int, NEW b \in Int, NEW P, a \in P,
           \A t \in a..b : t < b /\ t \in P => t + 1 \in P
    PROVE  \A t \in a..b : t \in P
<1>. DEFINE bad == {t \in a..b : t \notin P}
<1>. SUFFICES ASSUME bad # {} PROVE FALSE
  OBVIOUS
<1>1. bad \in SUBSET Int /\ IsFiniteSet(bad)
  <2>1. PICK range : range = a..b
    OBVIOUS
  <2>2. bad \in SUBSET range /\ bad \in SUBSET Int /\ IsFiniteSet(range)
    BY <2>1, FS_Interval
  <2>. HIDE DEF bad
  <2>. QED BY <2>2, FS_Subset
<1>2. \E t \in bad : \A u \in bad : t <= u
  <2>. HIDE DEF bad
  <2>. QED BY <1>1, LeastExists
<1>3. PICK t \in bad : \A u \in bad : t <= u
  BY <1>2
<1>4. t \in Int /\ a <= t /\ t <= b /\ t # a /\ t \notin P
  BY <1>3
<1>5. t - 1 \in a..b /\ t - 1 < b /\ (t - 1) + 1 = t /\ ~(t <= t - 1)
  BY <1>4
<1>6. t - 1 \in P
  BY <1>3, <1>5
<1>. QED BY <1>4, <1>5, <1>6

HasTimes(S) == HasAmounts(S) /\ \A e \in S : e.time \in Int

\* The amount of a period is that of its two parts ...
LEMMA InSplit ==
    ASSUME NEW S, HasTimes(S), NEW a \in Int, NEW b \in Int, NEW c \in Int, a <= b + 1, b <= c
    PROVE  /\ Amount(In(S, a, c)) = Amount(In(S, a, b)) + Amount(In(S, b + 1, c))
           /\ Amount(In(S, a, c)) \in Int /\ Amount(In(S, a, b)) \in Int /\ Amount(In(S, b + 1, c)) \in Int
<1>1. \A x, y \in Int : HasAmounts(In(S, x, y))
  <2>. SUFFICES ASSUME NEW x \in Int, NEW y \in Int PROVE HasAmounts(In(S, x, y))
    OBVIOUS
  <2>1. IsFiniteSet(In(S, x, y))
    BY FS_Subset DEF HasTimes, HasAmounts, In
  <2>. QED BY <2>1 DEF HasTimes, HasAmounts, In
<1>2. \A e \in S : a <= e.time /\ e.time <= c <=> (a <= e.time /\ e.time <= b) \/ (b + 1 <= e.time /\ e.time <= c)
  <2>. SUFFICES ASSUME NEW t \in Int PROVE a <= t /\ t <= c <=> (a <= t /\ t <= b) \/ (b + 1 <= t /\ t <= c)
    BY DEF HasTimes
  <2>. QED OBVIOUS
<1>3. \A e \in S : ~((a <= e.time /\ e.time <= b) /\ (b + 1 <= e.time /\ e.time <= c))
  <2>. SUFFICES ASSUME NEW t \in Int PROVE ~(t <= b /\ b + 1 <= t)
    BY DEF HasTimes
  <2>. QED OBVIOUS
<1>4. In(S, a, b) \cup In(S, b + 1, c) = In(S, a, c)
  BY <1>2 DEF In
<1>5. In(S, a, b) \cap In(S, b + 1, c) = {}
  BY <1>3 DEF In
<1>6. HasAmounts(In(S, a, c))
  BY <1>1
<1>. QED BY <1>4, <1>5, <1>6, AmountDisjoint

\* ... of the instants before the last and of the last one ...
LEMMA InLast ==
    ASSUME NEW S, HasTimes(S), NEW a \in Int, NEW c \in Int, a <= c
    PROVE  /\ Amount(In(S, a, c)) = Amount(In(S, a, c - 1)) + Amount(In(S, c, c))
           /\ Amount(In(S, a, c)) \in Int /\ Amount(In(S, a, c - 1)) \in Int /\ Amount(In(S, c, c)) \in Int
<1>1. PICK b \in Int : b = c - 1
  OBVIOUS
<1>2. a <= b + 1 /\ b <= c
  BY <1>1
<1>3. /\ Amount(In(S, a, c)) = Amount(In(S, a, b)) + Amount(In(S, b + 1, c))
      /\ Amount(In(S, a, b)) \in Int /\ Amount(In(S, b + 1, c)) \in Int
  BY <1>2, InSplit
<1>. QED BY <1>1, <1>3

\* ... and that of no instant is nothing.
LEMMA InNothing ==
    ASSUME NEW S, HasTimes(S), NEW a \in Int, NEW b \in Int, b < a
    PROVE  Amount(In(S, a, b)) = 0
<1>1. \A e \in S : ~(a <= e.time /\ e.time <= b)
  <2>. SUFFICES ASSUME NEW t \in Int PROVE ~(a <= t /\ t <= b)
    BY DEF HasTimes
  <2>. QED OBVIOUS
<1>2. In(S, a, b) = {}
  BY <1>1 DEF In
<1>. QED BY <1>2, AmountEmpty

ReturnFold(profits, ledger, base, start) ==
  [fold |-> "return", base |-> [capital |-> IF base = Unknown THEN 0 ELSE base, over |-> 1, under |-> 1],
   profits |-> profits, ledger |-> ledger, start |-> start]

\* The last instant of a window is the greatest.
LEMMA LastOfInterval ==
    ASSUME NEW s, NEW a \in Int, NEW b \in Int, s \in SUBSET (a..b), s # {}
    PROVE  Max(s) \in s
<1>1. s \in SUBSET Int /\ IsFiniteSet(s)
  <2>1. PICK range : range = a..b
    OBVIOUS
  <2>2. s \in SUBSET range /\ s \in SUBSET Int /\ IsFiniteSet(range)
    BY <2>1, FS_Interval
  <2>. QED BY <2>2, FS_Subset
<1>. QED BY <1>1, MaxIsGreatest

\* A return is a fold over its instants ...
LEMMA ReturnIsFold ==
    ASSUME NEW profits, NEW ledger, NEW base, NEW start \in Int, NEW end \in Int
    PROVE  /\ Return(profits, ledger, base, start, end) = FoldOf(ReturnFold(profits, ledger, base, start), start..end)
           /\ Takes(ReturnFold(profits, ledger, base, start), start..end)
<1>1. PICK what : what = ReturnFold(profits, ledger, base, start)
  OBVIOUS
<1>2. PICK zero : zero = [capital |-> IF base = Unknown THEN 0 ELSE base, over |-> 1, under |-> 1]
  OBVIOUS
<1>3. PICK range : range = start..end
  OBVIOUS
<1>. DEFINE solves(g) == g = [s \in SUBSET range |-> IF s = {} THEN zero
                                ELSE Weighted(profits, ledger, g[s \ {Max(s)}], Max(s), start)]
<1>4. \A s : Taken(what, s) = Max(s)
  BY <1>1 DEF Taken, ReturnFold
<1>5. \A t, acc : Step(what, t, acc) = Weighted(profits, ledger, acc, t, start)
  BY <1>1 DEF Step, ReturnFold
<1>6. what.base = zero
  BY <1>1, <1>2 DEF ReturnFold
<1>7. Return(profits, ledger, base, start, end) = (CHOOSE g : solves(g))[range]
  BY <1>2, <1>3 DEF Return, MapThenFoldSet
<1>8. \A g : solves(g) <=> Solves(what, range, g)
  BY <1>4, <1>5, <1>6 DEF Solves
<1>9. (CHOOSE g : solves(g)) = (CHOOSE g : Solves(what, range, g))
  <2>. HIDE DEF solves
  <2>. QED BY <1>8
<1>10. Takes(what, range)
  BY <1>3, <1>4, LastOfInterval DEF Takes
<1>. HIDE DEF solves
<1>. QED BY <1>1, <1>3, <1>7, <1>9, <1>10 DEF FoldOf

\* ... of which each is weighted after the ones before.
LEMMA ReturnSteps ==
    ASSUME NEW profits, NEW ledger, NEW base, NEW start \in Int, NEW end \in Int, start <= end
    PROVE  Return(profits, ledger, base, start, end)
             = Weighted(profits, ledger, Return(profits, ledger, base, start, end - 1), end, start)
<1>. DEFINE what == ReturnFold(profits, ledger, base, start)
<1>1. PICK whole : whole = start..end
  OBVIOUS
<1>2. PICK before : before = start..(end - 1)
  OBVIOUS
<1>3. whole \in SUBSET Int /\ IsFiniteSet(whole) /\ whole # {} /\ end \in whole /\ \A y \in whole : y <= end
  <2>1. IsFiniteSet(start..end)
    BY FS_Interval
  <2>. QED BY <1>1, <2>1
<1>4. Max(whole) = end
  <2>1. Max(whole) \in whole /\ end <= Max(whole) /\ Max(whole) \in Int
    BY <1>3, MaxIsGreatest
  <2>2. Max(whole) <= end
    BY <1>3, <2>1
  <2>. QED BY <2>1, <2>2
<1>5. whole \ {end} = before
  BY <1>1, <1>2
<1>6. Return(profits, ledger, base, start, end) = FoldOf(what, whole) /\ Takes(what, whole)
  BY <1>1, ReturnIsFold
<1>7. Return(profits, ledger, base, start, end - 1) = FoldOf(what, before)
  BY <1>2, ReturnIsFold
<1>8. Taken(what, whole) = end
  BY <1>4 DEF Taken, ReturnFold
<1>9. \A t, acc : Step(what, t, acc) = Weighted(profits, ledger, acc, t, start)
  BY DEF Step, ReturnFold
<1>. HIDE DEF what
<1>10. FoldOf(what, whole) = Step(what, end, FoldOf(what, before))
  BY <1>3, <1>5, <1>6, <1>8, FoldTakes
<1>. QED BY <1>6, <1>7, <1>9, <1>10

\* Before the first instant there is the capital base.
LEMMA ReturnStarts ==
    ASSUME NEW profits, NEW ledger, NEW base, NEW start \in Int
    PROVE  Return(profits, ledger, base, start, start - 1)
             = [capital |-> IF base = Unknown THEN 0 ELSE base, over |-> 1, under |-> 1]
<1>1. PICK none : none = start..(start - 1)
  OBVIOUS
<1>2. none = {}
  BY <1>1
<1>3. Return(profits, ledger, base, start, start - 1) = FoldOf(ReturnFold(profits, ledger, base, start), none)
  BY <1>1, ReturnIsFold
<1>4. ReturnFold(profits, ledger, base, start).base
        = [capital |-> IF base = Unknown THEN 0 ELSE base, over |-> 1, under |-> 1]
  BY DEF ReturnFold
<1>. QED BY <1>2, <1>3, <1>4, FoldEmpty

\* With a capital base a window ends with the base, its profits and its cash
\* after the first instant.
LEMMA ReturnEnds ==
    ASSUME NEW profits, HasTimes(profits), NEW ledger, HasTimes(ledger), NEW base \in Int,
           NEW start \in Int, NEW end \in Int, start <= end
    PROVE  \A t \in start..end :
             Return(profits, ledger, base, start, t).capital
               = base + Amount(In(profits, start, t)) + Amount(In(ledger, start + 1, t))
<1>. DEFINE R(t) == Return(profits, ledger, base, start, t)
            sum(t) == base + Amount(In(profits, start, t)) + Amount(In(ledger, start + 1, t))
            P == {t \in start..end : R(t).capital = sum(t)}
<1>0. Unknown # base
  BY LedgerAssumption
<1>1. \A t, acc : Weighted(profits, ledger, acc, t, start).capital
        = (acc.capital + (IF t > start THEN Amount(In(ledger, t, t)) ELSE 0)) + Amount(In(profits, t, t))
  BY DEF Weighted
<1>2. start \in P
  <2>1. R(start - 1) = [capital |-> base, over |-> 1, under |-> 1]
    BY <1>0, ReturnStarts
  <2>2. R(start) = Weighted(profits, ledger, R(start - 1), start, start)
    BY ReturnSteps
  <2>3. R(start).capital = (base + 0) + Amount(In(profits, start, start))
    <3>. HIDE DEF R
    <3>. QED BY <1>1, <2>1, <2>2
  <2>4. Amount(In(ledger, start + 1, start)) = 0 /\ Amount(In(profits, start, start)) \in Int
    BY InNothing, InSplit
  <2>5. start \in start..end
    OBVIOUS
  <2>. HIDE DEF R
  <2>. QED BY <2>3, <2>4, <2>5
<1>3. ASSUME NEW t \in start..end, t < end, t \in P
      PROVE  t + 1 \in P
  <2>1. /\ t \in Int /\ start <= t /\ start <= t + 1 /\ t + 1 \in Int
        /\ t + 1 \in start..end /\ (t + 1) - 1 = t /\ t + 1 > start
    BY <1>3
  <2>2. R(t + 1) = Weighted(profits, ledger, R(t), t + 1, start)
    <3>1. R(t + 1) = Weighted(profits, ledger, R((t + 1) - 1), t + 1, start)
      BY <2>1, ReturnSteps
    <3>. QED BY <2>1, <3>1
  <2>3. R(t).capital = sum(t)
    BY <1>3
  <2>. HIDE DEF R
  <2>4. R(t + 1).capital = (sum(t) + Amount(In(ledger, t + 1, t + 1))) + Amount(In(profits, t + 1, t + 1))
    BY <1>1, <2>1, <2>2, <2>3
  <2>5. /\ Amount(In(profits, start, t + 1)) = Amount(In(profits, start, t)) + Amount(In(profits, t + 1, t + 1))
        /\ Amount(In(profits, start, t)) \in Int /\ Amount(In(profits, t + 1, t + 1)) \in Int
    BY <2>1, InSplit
  <2>6. /\ Amount(In(ledger, start + 1, t + 1)) = Amount(In(ledger, start + 1, t)) + Amount(In(ledger, t + 1, t + 1))
        /\ Amount(In(ledger, start + 1, t)) \in Int /\ Amount(In(ledger, t + 1, t + 1)) \in Int
    BY <2>1, InSplit
  <2>7. R(t + 1).capital = sum(t + 1)
    BY <2>4, <2>5, <2>6
  <2>. HIDE DEF sum
  <2>. QED BY <2>1, <2>7
<1>4. \A t \in start..end : t \in P
  <2>. HIDE DEF P
  <2>. QED BY <1>2, <1>3, IntervalInduction
<1>. QED BY <1>4

----------------------------------------------------------------------------
(* A complete ledger is the account: its rows are the deals, the profits of   *)
(* the report are the trades.                                                 *)

DealsWhen(X) == {d \in deals : d.login = Scope /\ RealTime(d.wall) \in X}
TradesWhen(X) == {t \in trades : t.login = Scope /\ RealTime(t.closed) \in X}

\* In a complete ledger each row is a deal of the account, and each deal has a row.
LEMMA CompleteRows ==
    ASSUME PerfInv, Complete
    PROVE  /\ Scope \in Accounts /\ Scope = status.login /\ status # Unknown
           /\ \A m \in Ledger : IsImport(m, deals) /\ \E d \in deals : d.login = Scope /\ IsDealOf(m, d)
           /\ \A d \in deals : d.login = Scope => \E m \in Ledger : IsDealOf(m, d)
           /\ \A m, n \in Ledger : m.ticket = n.ticket => m = n
<1>1. status # Unknown /\ Scope = status.login /\ Scope \in Accounts /\ Scope # Unknown
  BY LedgerAssumption DEF Complete, Scope, PerfInv, BrokerInv
<1>2. \A m \in Ledger : m \in movements /\ m.source = "MT5"
  BY DEF Complete, Ledger
<1>3. \A m \in Ledger : IsImport(m, deals)
  BY <1>2 DEF PerfInv, Rows, IsEntry
<1>4. ASSUME NEW m \in Ledger PROVE \E d \in deals : d.login = Scope /\ IsDealOf(m, d)
  <2>1. PICK d \in deals : IsDealOf(m, d)
    BY <1>3 DEF IsImport
  <2>2. m.login \in Accounts
    BY <2>1 DEF IsDealOf, PerfInv, BrokerInv
  <2>3. m.login = Scope
    BY <1>1, <2>2, LedgerAssumption DEF Ledger, InScope
  <2>. QED BY <2>1, <2>3 DEF IsDealOf
<1>5. ASSUME NEW d \in deals, d.login = Scope PROVE \E m \in Ledger : IsDealOf(m, d)
  <2>1. PICK m \in Ledger : m.ticket = d.ticket
    BY <1>5 DEF Complete
  <2>. QED BY <1>3, <2>1, ImportHasDeal DEF PerfInv
<1>6. \A m, n \in Ledger : m.ticket = n.ticket => m = n
  BY <1>2 DEF PerfInv, Rows
<1>. QED BY <1>1, <1>3, <1>4, <1>5, <1>6

\* What the ledger holds in some time is the sum of the deals of that time.
LEMMA LedgerIsDeals ==
    ASSUME PerfInv, Complete, NEW X
    PROVE  /\ HasAmounts({m \in Ledger : m.time \in X}) /\ HasAmounts(DealsWhen(X))
           /\ Amount({m \in Ledger : m.time \in X}) = Amount(DealsWhen(X))
<1>. DEFINE S == DealsWhen(X)
            row(d) == CHOOSE m \in Ledger : IsDealOf(m, d)
            h == [d \in S |-> row(d)]
            U == {m \in Ledger : m.time \in X}
<1>1. HasAmounts(S)
  <2>1. IsFiniteSet(S)
    BY FS_Subset DEF DealsWhen, PerfInv, BrokerInv
  <2>. QED BY <2>1 DEF HasAmounts, DealsWhen, PerfInv, BrokerInv
<1>2. \A d \in S : row(d) \in Ledger /\ IsDealOf(row(d), d)
  BY CompleteRows DEF DealsWhen
<1>. HIDE DEF row
<1>3. h \in [S -> Ledger]
  BY <1>2
<1>4. \A x \in S : h[x].amount = x.amount
  BY <1>2 DEF IsDealOf
<1>5. ASSUME NEW x \in S, NEW y \in S, h[x] = h[y] PROVE x = y
  <2>1. x.ticket = y.ticket
    BY <1>2, <1>5 DEF IsDealOf
  <2>. QED BY <2>1 DEF DealsWhen, PerfInv, BrokerInv
<1>6. ASSUME NEW u PROVE u \in U <=> \E x \in S : u = h[x]
  <2>1. ASSUME u \in U PROVE \E x \in S : u = h[x]
    <3>1. PICK d \in deals : d.login = Scope /\ IsDealOf(u, d)
      BY <2>1, CompleteRows
    <3>2. d \in S
      BY <2>1, <3>1 DEF DealsWhen, IsDealOf
    <3>3. h[d] = u
      BY <1>2, <2>1, <3>1, <3>2, CompleteRows DEF IsDealOf
    <3>. QED BY <3>2, <3>3
  <2>2. ASSUME NEW x \in S, u = h[x] PROVE u \in U
    BY <1>2, <2>2 DEF IsDealOf, DealsWhen
  <2>. QED BY <2>1, <2>2
<1>. HIDE DEF h, U, S
<1>7. HasAmounts(U) /\ Amount(U) = Amount(S)
  BY <1>1, <1>3, <1>4, <1>5, <1>6, AmountImage
<1>. QED BY <1>1, <1>7 DEF U, S

\* The profits of the report in some time are the trades closed in that time.
LEMMA ProfitsAreTrades ==
    ASSUME PerfInv, Complete, NEW X
    PROVE  /\ HasAmounts({p \in Profits : p.time \in X}) /\ HasAmounts(TradesWhen(X))
           /\ Amount({p \in Profits : p.time \in X}) = Amount(TradesWhen(X))
<1>. DEFINE S == TradesWhen(X)
            event(t) == [id |-> t.id, time |-> RealTime(t.closed), opened |-> RealTime(t.opened), amount |-> t.amount]
            h == [t \in S |-> event(t)]
            U == {p \in Profits : p.time \in X}
<1>1. HasAmounts(S)
  <2>1. IsFiniteSet(S)
    BY FS_Subset DEF TradesWhen, PerfInv, BrokerInv
  <2>2. \A t \in S : t.amount \in Int
    BY DEF TradesWhen, PerfInv, BrokerInv
  <2>. QED BY <2>1, <2>2 DEF HasAmounts
<1>2. {u \in ClosedTrades : u.row = "exact"} = {t \in trades : t.login = Scope}
  <2>1. Scope # Unknown
    BY CompleteRows, LedgerAssumption
  <2>2. \A t \in trades : t.login = Scope => t.row = "exact"
    BY DEF Complete
  <2>. QED BY <2>1, <2>2 DEF ClosedTrades, Known
<1>3. Profits = {event(t) : t \in {u \in trades : u.login = Scope}}
  BY <1>2 DEF Profits
<1>4. h \in [S -> Profits]
  BY <1>3 DEF TradesWhen
<1>5. \A x \in S : h[x].amount = x.amount
  OBVIOUS
<1>6. ASSUME NEW x \in S, NEW y \in S, h[x] = h[y] PROVE x = y
  <2>1. x.id = y.id
    BY <1>6
  <2>. QED BY <2>1 DEF TradesWhen, PerfInv, BrokerInv
<1>7. ASSUME NEW u PROVE u \in U <=> \E x \in S : u = h[x]
  <2>1. ASSUME u \in U PROVE \E x \in S : u = h[x]
    <3>1. PICK t \in trades : t.login = Scope /\ u = event(t)
      BY <1>3, <2>1
    <3>2. t \in S
      BY <2>1, <3>1 DEF TradesWhen
    <3>. QED BY <3>1, <3>2
  <2>2. ASSUME NEW x \in S, u = h[x] PROVE u \in U
    BY <1>3, <2>2 DEF TradesWhen
  <2>. QED BY <2>1, <2>2
<1>. HIDE DEF h, U, S
<1>8. HasAmounts(U) /\ Amount(U) = Amount(S)
  BY <1>1, <1>4, <1>5, <1>6, <1>7, AmountImage
<1>. QED BY <1>1, <1>8 DEF U, S

After(t) == {x \in Int : t < x}
UpTo(t) == {x \in Int : x <= t}

\* The times of the report are numbers, none of them in the future.
LEMMA TimesAreNumbers ==
    ASSUME PerfInv, Complete
    PROVE  /\ HasTimes(Profits) /\ HasTimes(Ledger) /\ now \in Int
           /\ \A e \in Profits \cup Ledger : e.time <= now
<1>1. now \in Int /\ \A d \in deals : RealTime(d.wall) \in Int /\ RealTime(d.wall) <= now
  BY LedgerAssumption DEF PerfInv, BrokerInv, RealTime
<1>2. \A t \in trades : RealTime(t.closed) \in Int /\ RealTime(t.closed) <= now
  BY LedgerAssumption DEF PerfInv, BrokerInv, RealTime
<1>3. \A p \in Profits : p.time \in Int /\ p.time <= now
  BY <1>2 DEF Profits, ClosedTrades, Known
<1>4. \A m \in Ledger : m.time \in Int /\ m.time <= now
  BY <1>1, CompleteRows DEF IsDealOf
<1>5. Profits = {p \in Profits : p.time \in Int} /\ Ledger = {m \in Ledger : m.time \in Int}
  BY <1>3, <1>4
<1>6. HasAmounts(Profits) /\ HasAmounts(Ledger)
  BY <1>5, LedgerIsDeals, ProfitsAreTrades
<1>. QED BY <1>1, <1>3, <1>4, <1>6 DEF HasTimes

\* What the account holds is what it held before some time and what came after.
LEMMA BalanceSplits ==
    ASSUME PerfInv, Complete, NEW t \in Int
    PROVE  /\ status.balance = HeldBefore(t) + Amount(TradesWhen(After(t - 1))) + Amount(DealsWhen(After(t)))
           /\ HeldBefore(t) \in Int
           /\ Amount(TradesWhen(After(t - 1))) \in Int /\ Amount(DealsWhen(After(t))) \in Int
<1>0. Scope = status.login /\ status.balance = Balance(status.login)
  BY CompleteRows DEF Complete
<1>. DEFINE D == {d \in deals : d.login = Scope}
            C == {u \in trades : u.login = Scope}
            before == {d \in deals : d.login = Scope /\ d.wall - Zone <= t}
            closed == {u \in trades : u.login = Scope /\ u.closed - Zone < t}
<1>1. \A d \in deals : d.wall - Zone \in Int /\ RealTime(d.wall) = d.wall - Zone
  BY LedgerAssumption DEF PerfInv, BrokerInv, RealTime
<1>2. \A u \in trades : u.closed - Zone \in Int /\ RealTime(u.closed) = u.closed - Zone
  BY LedgerAssumption DEF PerfInv, BrokerInv, RealTime
<1>3. D = DealsWhen(Int) /\ C = TradesWhen(Int)
  BY <1>1, <1>2 DEF DealsWhen, TradesWhen
<1>4. HasAmounts(D) /\ HasAmounts(C)
  BY <1>3, LedgerIsDeals, ProfitsAreTrades
<1>5. \A x \in Int : (x \in After(t) <=> ~(x <= t)) /\ (x \in After(t - 1) <=> ~(x < t))
  BY DEF After
<1>6. before \cup DealsWhen(After(t)) = D /\ before \cap DealsWhen(After(t)) = {}
  BY <1>1, <1>5 DEF DealsWhen
<1>7. closed \cup TradesWhen(After(t - 1)) = C /\ closed \cap TradesWhen(After(t - 1)) = {}
  BY <1>2, <1>5 DEF TradesWhen
<1>8. HeldBefore(t) = Amount(before) + Amount(closed)
  BY DEF HeldBefore
<1>9. Balance(Scope) = Amount(D) + Amount(C)
  BY DEF Balance
<1>. HIDE DEF D, C, before, closed
<1>10. /\ Amount(D) = Amount(before) + Amount(DealsWhen(After(t)))
       /\ Amount(before) \in Int /\ Amount(DealsWhen(After(t))) \in Int
  BY <1>4, <1>6, AmountDisjoint
<1>11. /\ Amount(C) = Amount(closed) + Amount(TradesWhen(After(t - 1)))
       /\ Amount(closed) \in Int /\ Amount(TradesWhen(After(t - 1))) \in Int
  BY <1>4, <1>7, AmountDisjoint
<1>. QED BY <1>0, <1>8, <1>9, <1>10, <1>11

\* Walking back from the balance gives what was held.
LEMMA WalkBack ==
    ASSUME PerfInv, Complete, NEW t \in Int
    PROVE  /\ HeldAtOpening(t) = HeldBefore(t)
           /\ status.balance - Amount(In(Profits, t, now)) - Amount(In(Ledger, t + 1, now)) = HeldBefore(t)
<1>1. \A x \in Int : (x \in After(t) <=> x > t) /\ (x \in After(t - 1) <=> x >= t)
  BY DEF After
<1>2. {p \in Profits : p.time >= t} = {p \in Profits : p.time \in After(t - 1)}
  BY <1>1, TimesAreNumbers DEF HasTimes
<1>3. {m \in Ledger : m.time > t} = {m \in Ledger : m.time \in After(t)}
  BY <1>1, TimesAreNumbers DEF HasTimes
<1>4. \A x \in Int : t + 1 <= x <=> x > t
  OBVIOUS
<1>5. In(Profits, t, now) = {p \in Profits : p.time >= t}
  BY TimesAreNumbers DEF HasTimes, In
<1>6. In(Ledger, t + 1, now) = {m \in Ledger : m.time > t}
  BY <1>4, TimesAreNumbers DEF HasTimes, In
<1>7. /\ Amount({p \in Profits : p.time \in After(t - 1)}) = Amount(TradesWhen(After(t - 1)))
      /\ Amount({m \in Ledger : m.time \in After(t)}) = Amount(DealsWhen(After(t)))
  BY LedgerIsDeals, ProfitsAreTrades
<1>8. PICK profit \in Int, cash \in Int, h0 \in Int :
        /\ profit = Amount(TradesWhen(After(t - 1))) /\ cash = Amount(DealsWhen(After(t)))
        /\ h0 = HeldBefore(t) /\ status.balance = h0 + profit + cash
  BY BalanceSplits
<1>9. HeldAtOpening(t) = status.balance - profit - cash
  BY <1>2, <1>3, <1>7, <1>8 DEF HeldAtOpening
<1>10. status.balance - Amount(In(Profits, t, now)) - Amount(In(Ledger, t + 1, now)) = status.balance - profit - cash
  BY <1>2, <1>3, <1>5, <1>6, <1>7, <1>8
<1>11. status.balance - profit - cash = h0
  BY <1>8
<1>. QED BY <1>8, <1>9, <1>10, <1>11

\* A complete ledger tells the capital of every window and of every opening.
LEMMA CompleteIsAccount == PerfInv => LedgerIsTheAccount
<1>. SUFFICES ASSUME PerfInv, Complete
              PROVE  /\ \A start, end \in 1..now : start < end =>
                          LET window == Window(Profits, Ledger, start, end)
                          IN window.start = HeldBefore(start) /\ (end = now => window.end = status.balance)
                     /\ \A t \in ClosedTrades : HeldAtOpening(RealTime(t.opened)) = HeldBefore(RealTime(t.opened))
  BY DEF LedgerIsTheAccount
<1>1. ASSUME NEW t \in ClosedTrades
      PROVE  HeldAtOpening(RealTime(t.opened)) = HeldBefore(RealTime(t.opened))
  <2>1. t.opened \in Int
    BY DEF ClosedTrades, Known, PerfInv, BrokerInv
  <2>2. RealTime(t.opened) \in Int
    BY <2>1, LedgerAssumption DEF RealTime
  <2>. QED BY <2>2, WalkBack
<1>2. ASSUME NEW start \in 1..now, NEW end \in 1..now, start < end
      PROVE  LET window == Window(Profits, Ledger, start, end)
             IN window.start = HeldBefore(start) /\ (end = now => window.end = status.balance)
  <2>. DEFINE base == CapitalStart(Profits, Ledger, start, end)
              window == Window(Profits, Ledger, start, end)
  <2>0. now \in Int /\ start \in Int /\ end \in Int /\ start <= end
    BY <1>2, TimesAreNumbers
  <2>1. Initial(Ledger, end) = {}
    BY CompleteRows DEF Initial, IsImport
  <2>2. base = status.balance - Amount(In(Profits, start, now)) - Amount(In(Ledger, start + 1, now))
    BY <2>1, CompleteRows DEF CapitalStart
  <2>3. base = HeldBefore(start) /\ base \in Int
    <3>1. base = HeldBefore(start)
      BY <2>0, <2>2, WalkBack
    <3>. QED BY <2>0, <3>1, BalanceSplits
  <2>4. /\ window.start = base
        /\ window.end = IF base = Unknown THEN Unknown ELSE Return(Profits, Ledger, base, start, end).capital
    BY DEF Window
  <2>. HIDE DEF base, window
  <2>5. window.end = Return(Profits, Ledger, base, start, end).capital
    BY <2>3, <2>4, LedgerAssumption
  <2>6. ASSUME end = now PROVE window.end = status.balance
    <3>1. Return(Profits, Ledger, base, start, end).capital
            = base + Amount(In(Profits, start, end)) + Amount(In(Ledger, start + 1, end))
      <4>1. end \in start..end
        BY <2>0
      <4>. QED BY <2>0, <2>3, <4>1, TimesAreNumbers, ReturnEnds
    <3>2. Amount(In(Profits, start, end)) \in Int /\ Amount(In(Ledger, start + 1, end)) \in Int
      BY <2>0, TimesAreNumbers, InSplit
    <3>3. status.balance \in Int
      <4>. QED BY <2>0, BalanceSplits
    <3>. QED BY <2>2, <2>3, <2>5, <2>6, <3>1, <3>2, <3>3
  <2>. QED BY <2>3, <2>4, <2>6 DEF window
<1>. QED BY <1>1, <1>2

(* For every history of deals, trades, entries and posts, every zone of the    *)
(* broker and every tolerance: once the ledger is complete, the capital of     *)
(* each window and opening, rebuilt by walking back, is what the account held. *)
THEOREM ReportTellsTheAccount == PerfSpec => []LedgerIsTheAccount
<1>. QED BY OneRowOneDeal, CompleteIsAccount, PTL

----------------------------------------------------------------------------
(* The months of a report.  They follow each other without a gap; a month     *)
(* starts with the capital the one before it ends with and the cash of its    *)
(* first instant; and the return of the period is the product of theirs.      *)

\* The events of the report have times and amounts, whatever the ledger holds.
LEMMA ReportHasTimes ==
    ASSUME PerfInv
    PROVE  HasTimes(Profits) /\ HasTimes(Ledger) /\ now \in Int
<1>1. now \in Int
  BY DEF PerfInv, BrokerInv
<1>2. HasTimes(Ledger)
  <2>1. IsFiniteSet(Ledger)
    BY FS_Subset DEF Ledger, PerfInv, Rows
  <2>2. \A m \in Ledger : m.time \in Int /\ m.amount \in Int
    BY DEF Ledger, PerfInv, Rows, IsEntry, IsImport, IsRow
  <2>. QED BY <2>1, <2>2 DEF HasTimes, HasAmounts
<1>3. HasTimes(Profits)
  <2>. DEFINE S == {u \in ClosedTrades : u.row = "exact"}
              event(t) == [id |-> t.id, time |-> RealTime(t.closed), opened |-> RealTime(t.opened), amount |-> t.amount]
              h == [t \in S |-> event(t)]
  <2>1. S \in SUBSET trades
    BY DEF ClosedTrades, Known
  <2>2. Profits = {event(t) : t \in S}
    BY DEF Profits
  <2>3. \A t \in S : RealTime(t.closed) \in Int /\ t.amount \in Int
    BY <2>1, LedgerAssumption DEF PerfInv, BrokerInv, RealTime
  <2>. HIDE DEF S
  <2>4. IsFiniteSet(S)
    BY <2>1, FS_Subset DEF PerfInv, BrokerInv
  <2>5. h \in Surjection(S, Profits)
    BY <2>2 DEF Surjection
  <2>6. IsFiniteSet(Profits)
    <3>. HIDE DEF h
    <3>. QED BY <2>4, <2>5, FS_Surjection
  <2>7. \A p \in Profits : p.time \in Int /\ p.amount \in Int
    BY <2>2, <2>3
  <2>. QED BY <2>6, <2>7 DEF HasTimes, HasAmounts
<1>. QED BY <1>1, <1>2, <1>3

\* Capital is known at the start of a period, and no base was entered for a time inside it.
Based(profits, ledger, start, end) ==
  /\ CapitalStart(profits, ledger, start, end) # Unknown
  /\ \A m \in Initial(ledger, end) : m.time <= start

\* Then the capital base of a later window of the period is that of an earlier one
\* with the profits and the cash in between.
LEMMA BaseMoves ==
    ASSUME PerfInv, NEW start \in Int, NEW end \in Int, end <= now, Based(Profits, Ledger, start, end),
           NEW s \in start..end, NEW t \in start..end, s <= t,
           NEW c \in s..end, NEW e \in t..end
    PROVE  /\ CapitalStart(Profits, Ledger, s, c) \in Int /\ CapitalStart(Profits, Ledger, t, e) \in Int
           /\ CapitalStart(Profits, Ledger, t, e)
                = CapitalStart(Profits, Ledger, s, c) + Amount(In(Profits, s, t - 1)) + Amount(In(Ledger, s + 1, t))
<1>. DEFINE I == Initial(Ledger, end)
            first == Min({m.time : m \in I})
<1>1. now \in Int /\ HasTimes(Profits) /\ HasTimes(Ledger)
  BY ReportHasTimes
<1>2. /\ s \in Int /\ t \in Int /\ c \in Int /\ e \in Int /\ start <= s /\ s <= t /\ t <= e /\ s <= c
      /\ c <= end /\ e <= end /\ start <= c /\ start <= e /\ t <= now
  BY <1>1
<1>3. ASSUME NEW x \in Int, start <= x, x <= end PROVE Initial(Ledger, x) = I
  <2>1. \A m \in Ledger : m.time \in Int
    BY <1>1 DEF HasTimes
  <2>2. \A m \in Ledger : m.kind = "INITIAL" /\ m.time <= end => m.time <= start
    BY DEF Based, Initial
  <2>. QED BY <1>3, <2>1, <2>2 DEF Initial
<1>4. Initial(Ledger, c) = I /\ Initial(Ledger, e) = I /\ Initial(Ledger, end) = I
  BY <1>2, <1>3
<1>6. CASE I # {}
  <2>1. first \in Int /\ first <= start
    <3>. DEFINE times == {m.time : m \in I}
    <3>1. IsFiniteSet(I) /\ \A m \in I : m.time \in Int /\ m.time <= start
      <4>1. I \in SUBSET Ledger /\ IsFiniteSet(Ledger)
        BY <1>1 DEF Initial, HasTimes, HasAmounts
      <4>2. \A m \in I : m.time <= start
        BY DEF Based
      <4>. HIDE DEF I
      <4>. QED BY <1>1, <4>1, <4>2, FS_Subset DEF HasTimes
    <3>. HIDE DEF I
    <3>2. times \in SUBSET Int /\ times # {} /\ \A x \in times : x <= start
      BY <1>6, <3>1
    <3>3. IsFiniteSet(times)
      <4>. DEFINE time == [m \in I |-> m.time]
      <4>1. time \in Surjection(I, times)
        BY DEF Surjection
      <4>. HIDE DEF time, times
      <4>. QED BY <3>1, <4>1, FS_Surjection
    <3>4. Min(times) \in times
      <4>. HIDE DEF times
      <4>. QED BY <3>2, <3>3, MinIsLeast
    <3>. QED BY <3>2, <3>4
  <2>2. /\ CapitalStart(Profits, Ledger, s, c) = Amount(In(Profits, first, s - 1)) + Amount(In(Ledger, first, s))
        /\ CapitalStart(Profits, Ledger, t, e) = Amount(In(Profits, first, t - 1)) + Amount(In(Ledger, first, t))
    <3>1. ~(first > s) /\ ~(first > t)
      BY <1>2, <2>1
    <3>. HIDE DEF I
    <3>. QED BY <1>4, <1>6, <3>1 DEF CapitalStart
  <2>. HIDE DEF first, I
  <2>3. /\ Amount(In(Profits, first, t - 1)) = Amount(In(Profits, first, s - 1)) + Amount(In(Profits, s, t - 1))
        /\ Amount(In(Profits, first, s - 1)) \in Int /\ Amount(In(Profits, s, t - 1)) \in Int
    <3>1. s - 1 \in Int /\ t - 1 \in Int /\ (s - 1) + 1 = s /\ first <= (s - 1) + 1 /\ s - 1 <= t - 1
      BY <1>2, <2>1
    <3>. QED BY <1>1, <2>1, <3>1, InSplit
  <2>4. /\ Amount(In(Ledger, first, t)) = Amount(In(Ledger, first, s)) + Amount(In(Ledger, s + 1, t))
        /\ Amount(In(Ledger, first, s)) \in Int /\ Amount(In(Ledger, s + 1, t)) \in Int
    <3>1. first <= s + 1
      BY <1>2, <2>1
    <3>. QED BY <1>1, <1>2, <2>1, <3>1, InSplit
  <2>. QED BY <2>2, <2>3, <2>4
<1>7. CASE I = {}
  <2>1. status # Unknown
    BY <1>4, <1>7 DEF Based, CapitalStart
  <2>2. status.balance \in Int
    BY <2>1 DEF PerfInv, BrokerInv
  <2>. HIDE DEF first, I
  <2>3. /\ CapitalStart(Profits, Ledger, s, c)
             = status.balance - Amount(In(Profits, s, now)) - Amount(In(Ledger, s + 1, now))
        /\ CapitalStart(Profits, Ledger, t, e)
             = status.balance - Amount(In(Profits, t, now)) - Amount(In(Ledger, t + 1, now))
    BY <1>4, <1>7, <2>1 DEF CapitalStart
  <2>4. /\ Amount(In(Profits, s, now)) = Amount(In(Profits, s, t - 1)) + Amount(In(Profits, t, now))
        /\ Amount(In(Profits, s, t - 1)) \in Int /\ Amount(In(Profits, t, now)) \in Int
    <3>1. t - 1 \in Int /\ (t - 1) + 1 = t /\ s <= (t - 1) + 1 /\ t - 1 <= now
      BY <1>1, <1>2
    <3>. QED BY <1>1, <1>2, <3>1, InSplit
  <2>5. /\ Amount(In(Ledger, s + 1, now)) = Amount(In(Ledger, s + 1, t)) + Amount(In(Ledger, t + 1, now))
        /\ Amount(In(Ledger, s + 1, t)) \in Int /\ Amount(In(Ledger, t + 1, now)) \in Int
    <3>1. s + 1 \in Int /\ s + 1 <= t + 1
      BY <1>2
    <3>. QED BY <1>1, <1>2, <3>1, InSplit
  <2>. QED BY <2>2, <2>3, <2>4, <2>5
<1>. QED BY <1>6, <1>7

\* The state of a return is numbers.
LEMMA ReturnType ==
    ASSUME NEW profits, HasTimes(profits), NEW ledger, HasTimes(ledger), NEW base \in Int,
           NEW start \in Int, NEW end \in Int
    PROVE  \A t \in (start - 1)..end :
             /\ Return(profits, ledger, base, start, t).capital \in Int
             /\ Return(profits, ledger, base, start, t).over \in Int
             /\ Return(profits, ledger, base, start, t).under \in Int
<1>. DEFINE R(t) == Return(profits, ledger, base, start, t)
            Typed(r) == r.capital \in Int /\ r.over \in Int /\ r.under \in Int
            P == {t \in (start - 1)..end : Typed(R(t))}
<1>. SUFFICES ASSUME start - 1 <= end PROVE \A t \in (start - 1)..end : t \in P
  OBVIOUS
<1>1. start - 1 \in P
  <2>1. R(start - 1) = [capital |-> base, over |-> 1, under |-> 1]
    BY ReturnStarts, LedgerAssumption
  <2>2. Typed(R(start - 1))
    <3>. HIDE DEF R
    <3>. QED BY <2>1
  <2>. HIDE DEF Typed
  <2>. QED BY <2>2
<1>2. ASSUME NEW t \in (start - 1)..end, t < end, t \in P
      PROVE  t + 1 \in P
  <2>1. t \in Int /\ t + 1 \in Int /\ start <= t + 1 /\ t + 1 \in (start - 1)..end /\ (t + 1) - 1 = t
    BY <1>2
  <2>2. R(t + 1) = Weighted(profits, ledger, R(t), t + 1, start)
    <3>1. R(t + 1) = Weighted(profits, ledger, R((t + 1) - 1), t + 1, start)
      BY <2>1, ReturnSteps
    <3>. QED BY <2>1, <3>1
  <2>3. Typed(R(t))
    BY <1>2
  <2>4. Amount(In(profits, t + 1, t + 1)) \in Int /\ Amount(In(ledger, t + 1, t + 1)) \in Int
    BY <2>1, InSplit
  <2>. HIDE DEF R
  <2>5. Typed(R(t + 1))
    BY <2>2, <2>3, <2>4 DEF Weighted
  <2>. HIDE DEF Typed
  <2>. QED BY <2>1, <2>5
<1>. HIDE DEF P
<1>. QED BY <1>1, <1>2, IntervalInduction

\* The order in which three numbers are multiplied does not matter.
LEMMA Products ==
    ASSUME NEW a \in Int, NEW b \in Int, NEW c \in Int
    PROVE  (a * b) * c = a * (b * c) /\ a * b = b * a /\ a * b \in Int
  OBVIOUS

\* The return of a period is that of its first part and that of the rest, when
\* the rest starts with what the first part ends with and the cash of its first instant.
LEMMA ReturnsMultiply ==
    ASSUME NEW profits, HasTimes(profits), NEW ledger, HasTimes(ledger),
           NEW start \in Int, NEW next \in Int, NEW end \in Int, start < next, next <= end,
           NEW base \in Int, NEW later \in Int,
           later = base + Amount(In(profits, start, next - 1)) + Amount(In(ledger, start + 1, next))
    PROVE  \A t \in next..end :
             LET first == Return(profits, ledger, base, start, next - 1)
                 rest == Return(profits, ledger, later, next, t)
                 whole == Return(profits, ledger, base, start, t)
             IN /\ whole.capital = rest.capital
                /\ whole.over = first.over * rest.over /\ whole.under = first.under * rest.under
<1>. DEFINE first == Return(profits, ledger, base, start, next - 1)
            rest(t) == Return(profits, ledger, later, next, t)
            whole(t) == Return(profits, ledger, base, start, t)
            Splits(t) == /\ whole(t).capital = rest(t).capital
                         /\ whole(t).over = first.over * rest(t).over
                         /\ whole(t).under = first.under * rest(t).under
            P == {t \in next..end : Splits(t)}
            cash(t) == Amount(In(ledger, t, t))
            profit(t) == Amount(In(profits, t, t))
<1>1. \A t \in Int : cash(t) \in Int /\ profit(t) \in Int
  <2>. SUFFICES ASSUME NEW t \in Int PROVE cash(t) \in Int /\ profit(t) \in Int
    OBVIOUS
  <2>1. t <= t + 1 /\ t <= t
    OBVIOUS
  <2>. QED BY <2>1, InSplit
<1>2. first.capital \in Int /\ first.over \in Int /\ first.under \in Int
  <2>1. next - 1 \in Int /\ next - 1 \in (start - 1)..(next - 1)
    OBVIOUS
  <2>. QED BY <2>1, ReturnType
<1>3. next \in P
  <2>1. first.capital + cash(next) = later
    <3>1. next - 1 \in Int /\ start <= next - 1 /\ next - 1 \in start..(next - 1)
      OBVIOUS
    <3>2. first.capital = base + Amount(In(profits, start, next - 1)) + Amount(In(ledger, start + 1, next - 1))
      BY <3>1, ReturnEnds
    <3>3. /\ Amount(In(ledger, start + 1, next)) = Amount(In(ledger, start + 1, next - 1)) + cash(next)
          /\ Amount(In(ledger, start + 1, next - 1)) \in Int
      <4>1. PICK from \in Int : from = start + 1 /\ from <= next
        OBVIOUS
      <4>. QED BY <4>1, InLast
    <3>4. Amount(In(profits, start, next - 1)) \in Int
      BY <3>1, InSplit
    <3>. HIDE DEF first
    <3>. QED BY <1>1, <3>2, <3>3, <3>4
  <2>2. whole(next) = Weighted(profits, ledger, first, next, start)
    BY ReturnSteps
  <2>3. rest(next) = Weighted(profits, ledger, [capital |-> later, over |-> 1, under |-> 1], next, next)
    <3>1. rest(next) = Weighted(profits, ledger, rest(next - 1), next, next)
      BY ReturnSteps
    <3>2. rest(next - 1) = [capital |-> later, over |-> 1, under |-> 1]
      BY ReturnStarts, LedgerAssumption
    <3>. QED BY <3>1, <3>2
  <2>. HIDE DEF first, rest, whole
  <2>4. whole(next) = [capital |-> later + profit(next),
          over |-> IF profit(next) # 0 /\ later > 0 THEN first.over * (later + profit(next)) ELSE first.over,
          under |-> IF profit(next) # 0 /\ later > 0 THEN first.under * later ELSE first.under]
    BY <2>1, <2>2 DEF Weighted
  <2>5. rest(next) = [capital |-> later + profit(next),
          over |-> IF profit(next) # 0 /\ later > 0 THEN 1 * (later + profit(next)) ELSE 1,
          under |-> IF profit(next) # 0 /\ later > 0 THEN 1 * later ELSE 1]
    <3>1. later + 0 = later /\ ~(next > next)
      OBVIOUS
    <3>. QED BY <2>3, <3>1 DEF Weighted
  <2>. HIDE DEF profit, cash
  <2>6. profit(next) \in Int
    BY <1>1
  <2>7. Splits(next)
    BY <1>2, <2>4, <2>5, <2>6
  <2>. HIDE DEF Splits
  <2>. QED BY <2>7
<1>4. ASSUME NEW t \in next..end, t < end, t \in P
      PROVE  t + 1 \in P
  <2>1. /\ t \in Int /\ t + 1 \in Int /\ next <= t + 1 /\ t + 1 > next /\ t + 1 \in next..end /\ (t + 1) - 1 = t
        /\ start <= t + 1 /\ t + 1 > start /\ t \in (next - 1)..end
    BY <1>4
  <2>2. whole(t + 1) = Weighted(profits, ledger, whole(t), t + 1, start)
    <3>1. whole(t + 1) = Weighted(profits, ledger, whole((t + 1) - 1), t + 1, start)
      BY <2>1, ReturnSteps
    <3>. QED BY <2>1, <3>1
  <2>3. rest(t + 1) = Weighted(profits, ledger, rest(t), t + 1, next)
    <3>1. rest(t + 1) = Weighted(profits, ledger, rest((t + 1) - 1), t + 1, next)
      BY <2>1, ReturnSteps
    <3>. QED BY <2>1, <3>1
  <2>4. Splits(t)
    BY <1>4
  <2>5. rest(t).capital \in Int /\ rest(t).over \in Int /\ rest(t).under \in Int
    BY <2>1, ReturnType
  <2>6. PICK capital \in Int, over \in Int, under \in Int, a \in Int, b \in Int, p \in Int, c \in Int :
          /\ capital = rest(t).capital /\ over = rest(t).over /\ under = rest(t).under
          /\ a = first.over /\ b = first.under /\ p = profit(t + 1) /\ c = cash(t + 1)
    BY <1>1, <1>2, <2>1, <2>5
  <2>. DEFINE worth == capital + c
              weighs == p # 0 /\ worth > 0
  <2>. HIDE DEF first, rest, whole
  <2>7. rest(t + 1) = [capital |-> worth + p, over |-> IF weighs THEN over * (worth + p) ELSE over,
                       under |-> IF weighs THEN under * worth ELSE under]
    BY <2>1, <2>3, <2>6 DEF Weighted
  <2>8. whole(t + 1) = [capital |-> worth + p, over |-> IF weighs THEN (a * over) * (worth + p) ELSE a * over,
                        under |-> IF weighs THEN (b * under) * worth ELSE b * under]
    BY <2>1, <2>2, <2>4, <2>6 DEF Weighted
  <2>9. (a * over) * (worth + p) = a * (over * (worth + p)) /\ (b * under) * worth = b * (under * worth)
    <3>1. worth \in Int /\ worth + p \in Int
      OBVIOUS
    <3>. HIDE DEF worth
    <3>. QED BY <3>1, Products
  <2>. HIDE DEF worth, weighs
  <2>10. Splits(t + 1)
    BY <2>6, <2>7, <2>8, <2>9
  <2>. HIDE DEF Splits
  <2>. QED BY <2>1, <2>10
<1>5. \A t \in next..end : t \in P
  <2>. HIDE DEF P
  <2>. QED BY <1>3, <1>4, IntervalInduction
<1>. QED BY <1>5

MonthKey(t) == t \div MonthLength

\* A month has begun at a time when its number is at most that of the time.
LEMMA KeyBounds ==
    ASSUME NEW t \in Int
    PROVE  MonthKey(t) \in Int /\ \A k \in Int : k * MonthLength <= t <=> k <= MonthKey(t)
<1>0. MonthLength \in Nat /\ MonthLength > 0
  BY LedgerAssumption
<1>1. PICK q \in Int : q = MonthKey(t)
  BY <1>0 DEF MonthKey
<1>2. MonthLength * q <= t /\ t < MonthLength * q + MonthLength
  <2>1. PICK r \in 0..(MonthLength - 1) : t = MonthLength * q + r
    <3>1. t % MonthLength \in 0..(MonthLength - 1) /\ t = MonthLength * (t \div MonthLength) + (t % MonthLength)
      BY <1>0
    <3>. QED BY <3>1, <1>1 DEF MonthKey
  <2>. QED BY <2>1, <1>0
<1>3. ASSUME NEW k \in Int, k <= q PROVE k * MonthLength <= t
  <2>1. PICK j \in Nat : q = k + j
    <3>1. q - k \in Nat /\ q = k + (q - k)
      BY <1>3
    <3>. QED BY <3>1
  <2>2. MonthLength * j \in Nat /\ MonthLength * q = MonthLength * k + MonthLength * j /\ k * MonthLength = MonthLength * k
    BY <1>0, <2>1
  <2>. QED BY <1>0, <1>2, <2>2
<1>4. ASSUME NEW k \in Int, ~(k <= q) PROVE ~(k * MonthLength <= t)
  <2>1. PICK j \in Nat : k = q + 1 + j
    <3>1. k - q - 1 \in Nat /\ k = q + 1 + (k - q - 1)
      BY <1>4
    <3>. QED BY <3>1
  <2>2. /\ MonthLength * j \in Nat /\ k * MonthLength = MonthLength * q + MonthLength + MonthLength * j
        /\ MonthLength * q \in Int
    BY <1>0, <2>1
  <2>. QED BY <1>0, <1>2, <2>2
<1>. QED BY <1>1, <1>3, <1>4

\* The greater and the lesser of two numbers.
LEMMA OfTwo ==
    ASSUME NEW a \in Int, NEW b \in Int
    PROVE  /\ a <= b => Max({a, b}) = b /\ Min({a, b}) = a
           /\ b <= a => Max({a, b}) = a /\ Min({a, b}) = b
<1>1. IsFiniteSet({a, b}) /\ {a, b} \in SUBSET Int /\ {a, b} # {}
  <2>1. IsFiniteSet({} \cup {a})
    BY FS_EmptySet, FS_AddElement
  <2>2. IsFiniteSet(({} \cup {a}) \cup {b})
    BY <2>1, FS_AddElement
  <2>3. ({} \cup {a}) \cup {b} = {a, b}
    OBVIOUS
  <2>. QED BY <2>2, <2>3
<1>2. Max({a, b}) \in {a, b} /\ \A y \in {a, b} : y <= Max({a, b})
  BY <1>1, MaxIsGreatest
<1>3. Min({a, b}) \in {a, b} /\ \A y \in {a, b} : Min({a, b}) <= y
  BY <1>1, MinIsLeast
<1>. QED BY <1>2, <1>3

Tiles(months, start, end) ==
  /\ Len(months) \in Nat /\ Len(months) >= 1 /\ DOMAIN months = 1..Len(months)
  /\ \A i \in 1..Len(months) : /\ months[i].from \in Int /\ months[i].to \in Int
                               /\ start <= months[i].from /\ months[i].from <= months[i].to /\ months[i].to <= end
  /\ months[1].from = start /\ months[Len(months)].to = end
  /\ \A i \in 1..Len(months) : i < Len(months) => months[i + 1].from = months[i].to + 1

\* The months of a period follow each other without a gap, from its start to its end.
LEMMA MonthsTile ==
    ASSUME NEW start \in Int, NEW end \in Int, start <= end
    PROVE  Tiles(Months(start, end), start, end)
<1>. DEFINE months == Months(start, end)
            n == MonthKey(end) - MonthKey(start) + 1
            of(k) == [from |-> Max({start, k * MonthLength}), to |-> Min({end, (k + 1) * MonthLength - 1})]
<1>0. MonthLength \in Nat /\ MonthLength > 0
  BY LedgerAssumption
<1>1. MonthKey(start) \in Int /\ MonthKey(end) \in Int /\ MonthKey(start) <= MonthKey(end)
  <2>1. MonthKey(start) \in Int /\ MonthKey(end) \in Int /\ MonthKey(start) * MonthLength <= start
    BY KeyBounds
  <2>2. MonthKey(start) * MonthLength <= end
    BY <1>0, <2>1
  <2>. QED BY <2>1, <2>2, KeyBounds
<1>2. months = [i \in 1..n |-> of(MonthKey(start) + i - 1)]
  BY DEF Months, MonthKey
<1>3. n \in Nat /\ n >= 1
  BY <1>1
<1>4. Len(months) = n /\ DOMAIN months = 1..n
  <2>1. PICK S : S = {of(MonthKey(start) + i - 1) : i \in 1..n}
    OBVIOUS
  <2>2. \A i \in 1..n : of(MonthKey(start) + i - 1) \in S
    BY <2>1
  <2>. HIDE DEF months, n, of
  <2>3. months \in [1..n -> S]
    BY <1>2, <2>2
  <2>4. months \in Seq(S)
    BY <1>3, <2>3
  <2>5. DOMAIN months = 1..n
    BY <2>3
  <2>. QED BY <1>3, <2>4, <2>5
<1>5. ASSUME NEW k \in Int, MonthKey(start) <= k, k <= MonthKey(end)
      PROVE  /\ of(k).from \in Int /\ of(k).to \in Int
             /\ start <= of(k).from /\ of(k).from <= of(k).to /\ of(k).to <= end
             /\ k = MonthKey(start) => of(k).from = start
             /\ k # MonthKey(start) => of(k).from = k * MonthLength
             /\ k = MonthKey(end) => of(k).to = end
             /\ k # MonthKey(end) => of(k).to = (k + 1) * MonthLength - 1
  <2>1. PICK lower \in Int, upper \in Int :
          lower = k * MonthLength /\ upper = (k + 1) * MonthLength - 1 /\ upper + 1 = (k + 1) * MonthLength
    <3>1. k * MonthLength \in Int /\ (k + 1) * MonthLength \in Int
      BY <1>0
    <3>. QED BY <3>1
  <2>2. lower <= upper
    <3>1. (k + 1) * MonthLength = k * MonthLength + MonthLength
      BY <1>0
    <3>. QED BY <1>0, <2>1, <3>1
  <2>3. lower <= end /\ ~(upper + 1 <= start)
    <3>1. ~(k + 1 <= MonthKey(start)) /\ k + 1 \in Int
      BY <1>1, <1>5
    <3>. QED BY <1>5, <2>1, <3>1, KeyBounds
  <2>4. k # MonthKey(start) => ~(lower <= start)
    BY <1>1, <1>5, <2>1, KeyBounds
  <2>5. k = MonthKey(start) => lower <= start
    BY <2>1, KeyBounds
  <2>6. (k # MonthKey(end) => upper + 1 <= end) /\ (k = MonthKey(end) => ~(upper + 1 <= end))
    <3>1. k + 1 \in Int /\ (k # MonthKey(end) => k + 1 <= MonthKey(end)) /\ (k = MonthKey(end) => ~(k + 1 <= MonthKey(end)))
      BY <1>1, <1>5
    <3>. QED BY <2>1, <3>1, KeyBounds
  <2>7. of(k).from = Max({start, lower}) /\ of(k).to = Min({end, upper})
    BY <2>1
  <2>8. of(k).from = IF k = MonthKey(start) THEN start ELSE lower
    BY <2>4, <2>5, <2>7, OfTwo
  <2>9. of(k).to = IF k = MonthKey(end) THEN end ELSE upper
    <3>1. (k # MonthKey(end) => upper <= end) /\ (k = MonthKey(end) => end <= upper)
      BY <2>6
    <3>2. Min({end, upper}) = IF k = MonthKey(end) THEN end ELSE upper
      BY <3>1, OfTwo
    <3>. QED BY <2>7, <3>2
  <2>. HIDE DEF of
  <2>10. start <= of(k).from /\ of(k).from <= of(k).to /\ of(k).to <= end
    BY <2>2, <2>3, <2>4, <2>6, <2>8, <2>9
  <2>. QED BY <2>1, <2>8, <2>9, <2>10
<1>6. ASSUME NEW i \in 1..n PROVE /\ months[i] = of(MonthKey(start) + i - 1) /\ MonthKey(start) + i - 1 \in Int
                                 /\ MonthKey(start) <= MonthKey(start) + i - 1 /\ MonthKey(start) + i - 1 <= MonthKey(end)
  BY <1>1, <1>2
<1>. HIDE DEF of, months
<1>7. \A i \in 1..n : /\ months[i].from \in Int /\ months[i].to \in Int
                      /\ start <= months[i].from /\ months[i].from <= months[i].to /\ months[i].to <= end
  BY <1>5, <1>6
<1>8. months[1].from = start /\ months[n].to = end
  <2>1. 1 \in 1..n /\ n \in 1..n /\ MonthKey(start) + 1 - 1 = MonthKey(start) /\ MonthKey(start) + n - 1 = MonthKey(end)
    BY <1>1, <1>3
  <2>. HIDE DEF n
  <2>. QED BY <1>1, <1>5, <1>6, <2>1
<1>9. ASSUME NEW i \in 1..n, i < n PROVE months[i + 1].from = months[i].to + 1
  <2>1. PICK k \in Int : k = MonthKey(start) + i - 1
    BY <1>1
  <2>2. /\ i + 1 \in 1..n /\ MonthKey(start) + (i + 1) - 1 = k + 1 /\ k + 1 \in Int
        /\ MonthKey(start) <= k /\ k # MonthKey(end) /\ k <= MonthKey(end) /\ k + 1 # MonthKey(start)
        /\ MonthKey(start) <= k + 1 /\ k + 1 <= MonthKey(end)
    BY <1>1, <1>9, <2>1
  <2>3. months[i] = of(k) /\ months[i + 1] = of(k + 1)
    BY <1>6, <2>1, <2>2
  <2>4. months[i].to = (k + 1) * MonthLength - 1 /\ months[i + 1].from = (k + 1) * MonthLength
    BY <1>5, <2>2, <2>3
  <2>5. (k + 1) * MonthLength \in Int
    BY <1>0, <2>2
  <2>. QED BY <2>4, <2>5
<1>. HIDE DEF n
<1>. QED BY <1>3, <1>4, <1>7, <1>8, <1>9 DEF Tiles, months

\* The sum over an interval is that over the interval without its last number, and the last.
LEMMA SumToLast ==
    ASSUME NEW f, NEW a \in Int, NEW b \in Int, a <= b, \A i \in a..b : f[i] \in Int
    PROVE  SumF(f, a..b) = SumF(f, a..(b - 1)) + f[b] /\ SumF(f, a..(b - 1)) \in Int /\ f[b] \in Int
<1>1. PICK before, whole : before = a..(b - 1) /\ whole = a..b
  OBVIOUS
<1>2. before \cup {b} = whole /\ b \notin before
  BY <1>1
<1>3. IsFiniteSet(before)
  BY <1>1, FS_Interval
<1>4. f[b] \in Int /\ \A i \in before : f[i] \in Int
  BY <1>1
<1>5. SumF(f, before \cup {b}) = f[b] + SumF(f, before) /\ SumF(f, before) \in Int
  BY <1>2, <1>3, <1>4, SumAdd, SumType
<1>6. SumF(f, whole) = SumF(f, before) + f[b]
  BY <1>2, <1>4, <1>5
<1>. QED BY <1>1, <1>4, <1>5, <1>6

\* The profits of the days of a period, and of its months.
DayProfits(profits, start, end) == MapThenSumSet(LAMBDA d : DayProfit(profits, d), start..end)
PartProfits(part, months) == MapThenSumSet(LAMBDA i : part[i].profit, DOMAIN months)

\* The days of a period add up to it ...
LEMMA DaysAddUp ==
    ASSUME NEW profits, HasTimes(profits), NEW start \in Int, NEW end \in Int, start <= end
    PROVE  DayProfits(profits, start, end) = Amount(In(profits, start, end))
<1>1. PICK days : days = start..end
  OBVIOUS
<1>. DEFINE f == [d \in days |-> DayProfit(profits, d)]
            solves(g) == g = [s \in SUBSET days |-> IF s = {} THEN 0
                                ELSE DayProfit(profits, Some(s)) + g[s \ {Some(s)}]]
<1>2. \A d \in days : f[d] = Amount(In(profits, d, d)) /\ f[d] = DayProfit(profits, d)
  BY DEF DayProfit
<1>. HIDE DEF f
<1>3. DayProfits(profits, start, end) = (CHOOSE g : solves(g))[days]
  BY <1>1 DEF DayProfits, MapThenSumSet, MapThenFoldSet, Some
<1>4. \A g : solves(g) <=> Sums(f, days, g)
  <2>1. \A s \in SUBSET days : s # {} => f[Some(s)] = DayProfit(profits, Some(s))
    <3>. SUFFICES ASSUME NEW s \in SUBSET days, s # {} PROVE f[Some(s)] = DayProfit(profits, Some(s))
      OBVIOUS
    <3>1. Some(s) \in days
      BY SomeIsIn
    <3>. QED BY <1>2, <3>1
  <2>. QED BY <2>1 DEF Sums
<1>5. (CHOOSE g : solves(g)) = (CHOOSE g : Sums(f, days, g))
  <2>. HIDE DEF solves
  <2>. QED BY <1>4
<1>6. DayProfits(profits, start, end) = SumF(f, start..end)
  <2>. HIDE DEF solves
  <2>. QED BY <1>1, <1>3, <1>5 DEF SumF
<1>7. \A d \in start..end : f[d] \in Int
  <2>. SUFFICES ASSUME NEW d \in start..end PROVE f[d] \in Int
    OBVIOUS
  <2>1. d \in Int /\ d <= d
    OBVIOUS
  <2>. QED BY <1>1, <1>2, <2>1, InLast
<1>. DEFINE P == {t \in start..end : SumF(f, start..t) = Amount(In(profits, start, t))}
<1>8. start \in P
  <2>1. PICK none : none = start..(start - 1)
    OBVIOUS
  <2>2. none = {}
    BY <2>1
  <2>3. SumF(f, start..start) = SumF(f, none) + f[start] /\ f[start] \in Int
    <3>1. start <= start /\ \A i \in start..start : f[i] \in Int
      BY <1>7
    <3>. QED BY <2>1, <3>1, SumToLast
  <2>4. start \in start..end
    OBVIOUS
  <2>. QED BY <1>1, <1>2, <2>2, <2>3, <2>4, SumEmpty
<1>9. ASSUME NEW t \in start..end, t < end, t \in P
      PROVE  t + 1 \in P
  <2>1. PICK next \in Int : next = t + 1 /\ next - 1 = t /\ start <= next /\ next \in start..end
    BY <1>9
  <2>2. SumF(f, start..next) = SumF(f, start..(next - 1)) + f[next]
    <3>1. \A i \in start..next : f[i] \in Int
      BY <1>7, <2>1
    <3>. QED BY <2>1, <3>1, SumToLast
  <2>3. Amount(In(profits, start, next)) = Amount(In(profits, start, next - 1)) + Amount(In(profits, next, next))
    BY <2>1, InLast
  <2>4. f[next] = Amount(In(profits, next, next))
    BY <1>1, <1>2, <2>1
  <2>. QED BY <1>9, <2>1, <2>2, <2>3, <2>4
<1>10. \A t \in start..end : t \in P
  <2>. HIDE DEF P
  <2>. QED BY <1>8, <1>9, IntervalInduction
<1>11. end \in start..end
  OBVIOUS
<1>. QED BY <1>6, <1>10, <1>11

\* ... and so do its months.
LEMMA MonthProfitsAddUp ==
    ASSUME NEW profits, HasTimes(profits), NEW start \in Int, NEW end \in Int,
           NEW months, Tiles(months, start, end),
           NEW part, \A i \in DOMAIN months : part[i].profit = Amount(In(profits, months[i].from, months[i].to))
    PROVE  PartProfits(part, months) = Amount(In(profits, start, end))
<1>0. PICK one \in Int : one = 1
  OBVIOUS
<1>1. PICK n \in Int : n = Len(months) /\ one = 1 /\ one <= n /\ DOMAIN months = one..n
  <2>1. Len(months) \in Int /\ one <= Len(months) /\ DOMAIN months = one..Len(months)
    BY <1>0 DEF Tiles
  <2>. QED BY <1>0, <2>1
<1>2. PICK D : D = DOMAIN months
  OBVIOUS
<1>. DEFINE f == [i \in D |-> part[i].profit]
            solves(g) == g = [s \in SUBSET D |-> IF s = {} THEN 0 ELSE part[Some(s)].profit + g[s \ {Some(s)}]]
<1>3. \A i \in D : f[i] = Amount(In(profits, months[i].from, months[i].to)) /\ f[i] = part[i].profit
  BY <1>2
<1>. HIDE DEF f
<1>4. PartProfits(part, months) = (CHOOSE g : solves(g))[D]
  BY <1>2 DEF PartProfits, MapThenSumSet, MapThenFoldSet, Some
<1>5. \A g : solves(g) <=> Sums(f, D, g)
  <2>1. \A s \in SUBSET D : s # {} => f[Some(s)] = part[Some(s)].profit
    <3>. SUFFICES ASSUME NEW s \in SUBSET D, s # {} PROVE f[Some(s)] = part[Some(s)].profit
      OBVIOUS
    <3>1. Some(s) \in D
      BY SomeIsIn
    <3>. QED BY <1>3, <3>1
  <2>. QED BY <2>1 DEF Sums
<1>6. (CHOOSE g : solves(g)) = (CHOOSE g : Sums(f, D, g))
  <2>. HIDE DEF solves
  <2>. QED BY <1>5
<1>7. PartProfits(part, months) = SumF(f, one..n)
  <2>. HIDE DEF solves
  <2>. QED BY <1>1, <1>2, <1>4, <1>6 DEF SumF
<1>8. \A i \in one..n : f[i] \in Int
  <2>. SUFFICES ASSUME NEW i \in one..n PROVE f[i] \in Int
    OBVIOUS
  <2>1. PICK a \in Int, c \in Int : a = months[i].from /\ c = months[i].to /\ a <= c
    BY <1>1 DEF Tiles
  <2>2. Amount(In(profits, a, c)) \in Int
    BY <2>1, InLast
  <2>. QED BY <1>1, <1>2, <1>3, <2>1, <2>2
<1>. DEFINE P == {i \in one..n : SumF(f, one..i) = Amount(In(profits, start, months[i].to))}
<1>9. one \in P
  <2>1. PICK none : none = one..(one - 1)
    OBVIOUS
  <2>2. none = {}
    BY <2>1
  <2>3. SumF(f, one..one) = SumF(f, none) + f[one] /\ f[one] \in Int
    <3>1. one <= one /\ \A i \in one..one : f[i] \in Int
      BY <1>1, <1>8
    <3>. QED BY <2>1, <3>1, SumToLast
  <2>4. one \in D /\ months[one].from = start /\ one \in one..n
    BY <1>1, <1>2 DEF Tiles
  <2>. QED BY <1>3, <2>2, <2>3, <2>4, SumEmpty
<1>10. ASSUME NEW i \in one..n, i < n, i \in P
       PROVE  i + 1 \in P
  <2>1. PICK j \in Int : j = i + 1 /\ j - 1 = i /\ one <= j /\ j \in one..n
    BY <1>10
  <2>2. SumF(f, one..j) = SumF(f, one..(j - 1)) + f[j]
    <3>1. \A k \in one..j : f[k] \in Int
      BY <1>8, <2>1
    <3>. QED BY <2>1, <3>1, SumToLast
  <2>3. PICK b \in Int, c \in Int : /\ b = months[i].to /\ c = months[j].to /\ months[j].from = b + 1
                                    /\ start <= b + 1 /\ b <= c
    <3>1. /\ months[i].from \in Int /\ months[i].to \in Int /\ start <= months[i].from /\ months[i].from <= months[i].to
          /\ months[j].to \in Int /\ months[j].from <= months[j].to /\ months[j].from = months[i].to + 1
      BY <1>1, <1>10, <2>1 DEF Tiles
    <3>2. start <= months[i].to + 1 /\ months[i].to <= months[j].to
      BY <3>1
    <3>. QED BY <3>1, <3>2
  <2>4. Amount(In(profits, start, c)) = Amount(In(profits, start, b)) + Amount(In(profits, b + 1, c))
    BY <2>3, InSplit
  <2>5. f[j] = Amount(In(profits, b + 1, c))
    BY <1>1, <1>2, <1>3, <2>1, <2>3
  <2>. QED BY <1>10, <2>1, <2>2, <2>3, <2>4, <2>5
<1>11. \A i \in one..n : i \in P
  <2>. HIDE DEF P
  <2>. QED BY <1>1, <1>9, <1>10, IntervalInduction
<1>12. n \in one..n /\ months[n].to = end
  BY <1>1 DEF Tiles
<1>. QED BY <1>7, <1>11, <1>12

CompoundFold(part) == [fold |-> "months", base |-> <<1, 1>>, part |-> part]

\* The compounded return is a fold over the months ...
LEMMA CompoundIsFold ==
    ASSUME NEW part, NEW n \in Int, DOMAIN part = 1..n
    PROVE  Compounded(part) = FoldOf(CompoundFold(part), 1..n)
<1>1. PICK what : what = CompoundFold(part)
  OBVIOUS
<1>2. PICK range : range = 1..n
  OBVIOUS
<1>. DEFINE solves(g) == g = [s \in SUBSET range |-> IF s = {} THEN <<1, 1>>
                                 ELSE Multiplied(g[s \ {Max(s)}], part[Max(s)])]
<1>3. \A s : Taken(what, s) = Max(s)
  BY <1>1 DEF Taken, CompoundFold
<1>4. \A i, acc : Step(what, i, acc) = Multiplied(acc, part[i])
  BY <1>1 DEF Step, CompoundFold
<1>5. what.base = <<1, 1>>
  BY <1>1 DEF CompoundFold
<1>6. Compounded(part) = (CHOOSE g : solves(g))[range]
  BY <1>2 DEF Compounded, MapThenFoldSet, Multiplied
<1>7. \A g : solves(g) <=> Solves(what, range, g)
  BY <1>3, <1>4, <1>5 DEF Solves
<1>8. (CHOOSE g : solves(g)) = (CHOOSE g : Solves(what, range, g))
  <2>. HIDE DEF solves
  <2>. QED BY <1>7
<1>. HIDE DEF solves
<1>. QED BY <1>1, <1>2, <1>6, <1>8 DEF FoldOf

\* ... of which each multiplies what the ones before gave.
LEMMA CompoundSteps ==
    ASSUME NEW part, NEW a \in Int, NEW n \in Int, a <= n
    PROVE  FoldOf(CompoundFold(part), a..n)
             = <<FoldOf(CompoundFold(part), a..(n - 1))[1] * part[n].over,
                 FoldOf(CompoundFold(part), a..(n - 1))[2] * part[n].under>>
<1>1. PICK what : what = CompoundFold(part)
  OBVIOUS
<1>2. PICK whole, before : whole = a..n /\ before = a..(n - 1)
  OBVIOUS
<1>3. whole \in SUBSET Int /\ IsFiniteSet(whole) /\ whole # {} /\ n \in whole /\ \A y \in whole : y <= n
  <2>1. IsFiniteSet(a..n)
    BY FS_Interval
  <2>. QED BY <1>2, <2>1
<1>4. Max(whole) = n
  <2>1. Max(whole) \in whole /\ n <= Max(whole) /\ Max(whole) \in Int
    BY <1>3, MaxIsGreatest
  <2>2. Max(whole) <= n
    BY <1>3, <2>1
  <2>. QED BY <2>1, <2>2
<1>5. whole \ {n} = before
  BY <1>2
<1>6. Takes(what, whole)
  <2>1. \A s : Taken(what, s) = Max(s)
    BY <1>1 DEF Taken, CompoundFold
  <2>. QED BY <1>2, <2>1, LastOfInterval DEF Takes
<1>7. Taken(what, whole) = n
  BY <1>1, <1>4 DEF Taken, CompoundFold
<1>8. \A i, acc : Step(what, i, acc) = Multiplied(acc, part[i])
  BY <1>1 DEF Step, CompoundFold
<1>9. FoldOf(what, whole) = Step(what, n, FoldOf(what, before))
  BY <1>3, <1>5, <1>6, <1>7, FoldTakes
<1>. QED BY <1>1, <1>2, <1>8, <1>9 DEF Multiplied

\* The return of the period up to some instant, and that of a month.
Whole(start, end, t) == Return(Profits, Ledger, CapitalStart(Profits, Ledger, start, end), start, t)
Month(m) == Return(Profits, Ledger, CapitalStart(Profits, Ledger, m.from, m.to), m.from, m.to)

\* A month ends with the capital the period has then, and multiplies its return.
LEMMA MonthsMultiply ==
    ASSUME PerfInv, NEW start \in Int, NEW end \in Int, end <= now, Based(Profits, Ledger, start, end),
           NEW months, Tiles(months, start, end)
    PROVE  /\ Month(months[1]) = Whole(start, end, months[1].to)
           /\ \A i \in 2..Len(months) :
                /\ Month(months[i]).capital = Whole(start, end, months[i].to).capital
                /\ Whole(start, end, months[i].to).over
                     = Whole(start, end, months[i - 1].to).over * Month(months[i]).over
                /\ Whole(start, end, months[i].to).under
                     = Whole(start, end, months[i - 1].to).under * Month(months[i]).under
<1>. DEFINE capital(s, e) == CapitalStart(Profits, Ledger, s, e)
<1>0. HasTimes(Profits) /\ HasTimes(Ledger)
  BY ReportHasTimes
<1>1. PICK n \in Int : n = Len(months) /\ 1 <= n
  <2>1. Len(months) \in Int /\ 1 <= Len(months)
    BY DEF Tiles
  <2>. QED BY <2>1
<1>2. PICK to \in Int : to = months[1].to /\ months[1].from = start /\ start <= to /\ to <= end
  BY <1>1 DEF Tiles
<1>3. capital(start, to) = capital(start, end)
  <2>1. start \in start..end /\ end \in start..end /\ to \in start..end /\ start <= start
    BY <1>2
  <2>2. /\ capital(start, end) \in Int /\ capital(start, to) \in Int
        /\ capital(start, to) = capital(start, end) + Amount(In(Profits, start, start - 1))
                                + Amount(In(Ledger, start + 1, start))
    BY <2>1, BaseMoves
  <2>3. Amount(In(Profits, start, start - 1)) = 0 /\ Amount(In(Ledger, start + 1, start)) = 0
    BY <1>0, InNothing
  <2>. HIDE DEF capital
  <2>. QED BY <2>2, <2>3
<1>4. Month(months[1]) = Whole(start, end, months[1].to)
  BY <1>2, <1>3 DEF Month, Whole
<1>5. ASSUME NEW i \in 2..Len(months)
      PROVE  /\ Month(months[i]).capital = Whole(start, end, months[i].to).capital
             /\ Whole(start, end, months[i].to).over
                  = Whole(start, end, months[i - 1].to).over * Month(months[i]).over
             /\ Whole(start, end, months[i].to).under
                  = Whole(start, end, months[i - 1].to).under * Month(months[i]).under
  <2>1. PICK j \in 1..n : j = i - 1 /\ j + 1 = i /\ j < n /\ i \in 1..n
    BY <1>1
  <2>2. PICK last \in Int, from \in Int, upto \in Int :
          /\ last = months[j].to /\ from = months[i].from /\ upto = months[i].to
          /\ from = last + 1 /\ last = from - 1 /\ start < from /\ from <= upto /\ upto <= end
    <3>1. /\ months[j].from \in Int /\ months[j].to \in Int /\ start <= months[j].from /\ months[j].from <= months[j].to
          /\ months[i].from \in Int /\ months[i].to \in Int /\ months[i].from <= months[i].to /\ months[i].to <= end
          /\ months[i].from = months[j].to + 1
      BY <1>1, <2>1 DEF Tiles
    <3>2. start < months[i].from /\ months[j].to = months[i].from - 1
      BY <3>1
    <3>. QED BY <3>1, <3>2
  <2>3. PICK base \in Int, later \in Int :
          /\ base = capital(start, end) /\ later = capital(from, upto)
          /\ later = base + Amount(In(Profits, start, from - 1)) + Amount(In(Ledger, start + 1, from))
    <3>1. start \in start..end /\ end \in start..end /\ from \in start..end /\ upto \in from..end /\ start <= from
      BY <2>2
    <3>2. /\ capital(start, end) \in Int /\ capital(from, upto) \in Int
          /\ capital(from, upto)
               = capital(start, end) + Amount(In(Profits, start, from - 1)) + Amount(In(Ledger, start + 1, from))
      BY <3>1, BaseMoves
    <3>. HIDE DEF capital
    <3>. QED BY <3>2
  <2>4. \A t \in from..upto :
          LET first == Return(Profits, Ledger, base, start, from - 1)
              rest == Return(Profits, Ledger, later, from, t)
              whole == Return(Profits, Ledger, base, start, t)
          IN /\ whole.capital = rest.capital
             /\ whole.over = first.over * rest.over /\ whole.under = first.under * rest.under
    <3>1. later = base + Amount(In(Profits, start, from - 1)) + Amount(In(Ledger, start + 1, from))
      BY <2>3
    <3>2. start < from /\ from <= upto
      BY <2>2
    <3>. HIDE DEF capital
    <3>. QED BY <1>0, <3>1, <3>2, ReturnsMultiply
  <2>5. upto \in from..upto
    BY <2>2
  <2>6. /\ Whole(start, end, months[i].to) = Return(Profits, Ledger, base, start, upto)
        /\ Whole(start, end, months[i - 1].to) = Return(Profits, Ledger, base, start, from - 1)
        /\ Month(months[i]) = Return(Profits, Ledger, later, from, upto)
    BY <2>1, <2>2, <2>3 DEF Whole, Month
  <2>. QED BY <2>4, <2>5, <2>6
<1>. QED BY <1>4, <1>5

\* So the months of a period compound to its return.
LEMMA MonthsCompound ==
    ASSUME PerfInv, NEW start \in Int, NEW end \in Int, end <= now, Based(Profits, Ledger, start, end),
           NEW months, Tiles(months, start, end),
           NEW part, DOMAIN part = DOMAIN months,
           \A i \in DOMAIN months : part[i].over = Month(months[i]).over /\ part[i].under = Month(months[i]).under
    PROVE  Compounded(part) = <<Whole(start, end, end).over, Whole(start, end, end).under>>
<1>1. PICK one \in Int : one = 1
  OBVIOUS
<1>2. PICK n \in Int : n = Len(months) /\ one <= n /\ DOMAIN months = one..n /\ months[n].to = end
  <2>1. Len(months) \in Int /\ one <= Len(months) /\ DOMAIN months = one..Len(months)
    BY <1>1 DEF Tiles
  <2>. QED BY <2>1 DEF Tiles
<1>. DEFINE prefix(i) == FoldOf(CompoundFold(part), one..i)
            P == {i \in one..n : prefix(i) = <<Whole(start, end, months[i].to).over, Whole(start, end, months[i].to).under>>}
<1>3. one \in P
  <2>1. PICK none : none = one..(one - 1)
    OBVIOUS
  <2>2. none = {}
    BY <2>1
  <2>3. FoldOf(CompoundFold(part), none) = <<1, 1>>
    BY <2>2, FoldEmpty DEF CompoundFold
  <2>4. prefix(one) = <<1 * part[one].over, 1 * part[one].under>>
    <3>1. one <= one
      OBVIOUS
    <3>2. prefix(one) = <<FoldOf(CompoundFold(part), none)[1] * part[one].over,
                          FoldOf(CompoundFold(part), none)[2] * part[one].under>>
      BY <2>1, <3>1, CompoundSteps
    <3>. HIDE DEF prefix
    <3>. QED BY <2>3, <3>2
  <2>5. part[one].over = Whole(start, end, months[one].to).over /\ part[one].under = Whole(start, end, months[one].to).under
    BY <1>1, <1>2, MonthsMultiply
  <2>6. Whole(start, end, months[one].to).over \in Int /\ Whole(start, end, months[one].to).under \in Int
    <3>1. months[one].to \in (start - 1)..end
      BY <1>1, <1>2 DEF Tiles
    <3>2. CapitalStart(Profits, Ledger, start, end) \in Int
      <4>1. start \in start..end /\ end \in start..end /\ start <= start
        BY <1>1, <1>2 DEF Tiles
      <4>. QED BY <4>1, BaseMoves
    <3>. QED BY <3>1, <3>2, ReportHasTimes, ReturnType DEF Whole
  <2>7. one \in one..n
    BY <1>2
  <2>. HIDE DEF prefix
  <2>. QED BY <2>4, <2>5, <2>6, <2>7
<1>4. ASSUME NEW i \in one..n, i < n, i \in P
      PROVE  i + 1 \in P
  <2>1. PICK j \in Int : j = i + 1 /\ j - 1 = i /\ one <= j /\ j \in one..n /\ j \in 2..Len(months)
    BY <1>1, <1>2, <1>4
  <2>2. prefix(j) = <<prefix(j - 1)[1] * part[j].over, prefix(j - 1)[2] * part[j].under>>
    BY <2>1, CompoundSteps
  <2>3. part[j].over = Month(months[j]).over /\ part[j].under = Month(months[j]).under
    BY <1>2, <2>1
  <2>4. /\ Whole(start, end, months[j].to).over = Whole(start, end, months[j - 1].to).over * Month(months[j]).over
        /\ Whole(start, end, months[j].to).under = Whole(start, end, months[j - 1].to).under * Month(months[j]).under
    <3>1. \A k \in 2..Len(months) :
            /\ Whole(start, end, months[k].to).over = Whole(start, end, months[k - 1].to).over * Month(months[k]).over
            /\ Whole(start, end, months[k].to).under = Whole(start, end, months[k - 1].to).under * Month(months[k]).under
      BY MonthsMultiply
    <3>. QED BY <2>1, <3>1
  <2>. HIDE DEF prefix
  <2>. QED BY <1>4, <2>1, <2>2, <2>3, <2>4
<1>5. \A i \in one..n : i \in P
  <2>. HIDE DEF P
  <2>. QED BY <1>2, <1>3, <1>4, IntervalInduction
<1>6. Compounded(part) = prefix(n)
  BY <1>1, <1>2, CompoundIsFold
<1>7. n \in one..n
  BY <1>2
<1>. HIDE DEF prefix
<1>. QED BY <1>2, <1>5, <1>6, <1>7

\* Two windows that follow each other inside a period.
LEMMA NextWithin ==
    ASSUME NEW start \in Int, NEW end \in Int, NEW s \in Int, NEW t \in Int, NEW from \in Int, NEW to \in Int,
           from = t + 1, start <= s, s <= t, from <= to, to <= end
    PROVE  /\ s \in start..end /\ from \in start..end /\ s <= from /\ t \in s..end /\ to \in from..end
           /\ from - 1 = t /\ s + 1 <= from
  OBVIOUS

\* With one row for one deal, the months of every period add up to it.
LEMMA PeriodsAddUp == PerfInv => MonthsAddUp
<1>. SUFFICES ASSUME PerfInv, NEW start \in 1..now, NEW end \in 1..now, start < end
              PROVE  LET profits == Profits
                         ledger == Ledger
                         whole == Window(profits, ledger, start, end)
                         months == Months(start, end)
                         part == [i \in DOMAIN months |-> Window(profits, ledger, months[i].from, months[i].to)]
                         factors == Compounded(part)
                     IN /\ PartProfits(part, months) = whole.profit
                        /\ DayProfits(profits, start, end) = whole.profit
                        /\ whole.start # Unknown /\ (\A m \in Initial(ledger, end) : m.time <= start) =>
                             /\ part[Len(months)].end = whole.end
                             /\ \A i \in 2..Len(months) :
                                  part[i].start = part[i - 1].end + Amount(In(ledger, months[i].from, months[i].from))
                             /\ factors[1] * whole.under = factors[2] * whole.over
  BY DEF MonthsAddUp, PartProfits, DayProfits
<1>. DEFINE whole == Window(Profits, Ledger, start, end)
            part(months) == [i \in DOMAIN months |-> Window(Profits, Ledger, months[i].from, months[i].to)]
<1>0. /\ HasTimes(Profits) /\ HasTimes(Ledger) /\ now \in Int
      /\ start \in Int /\ end \in Int /\ start <= end /\ end <= now
  BY ReportHasTimes
<1>1. PICK months : months = Months(start, end) /\ Tiles(months, start, end)
  BY <1>0, MonthsTile
<1>2. \A s, e : /\ Window(Profits, Ledger, s, e).profit = Amount(In(Profits, s, e))
                /\ Window(Profits, Ledger, s, e).start = CapitalStart(Profits, Ledger, s, e)
                /\ CapitalStart(Profits, Ledger, s, e) # Unknown =>
                     Window(Profits, Ledger, s, e).end = Whole(s, e, e).capital
                /\ Window(Profits, Ledger, s, e).over = Whole(s, e, e).over
                /\ Window(Profits, Ledger, s, e).under = Whole(s, e, e).under
  BY DEF Window, Whole
<1>3. PICK p : p = part(months)
  OBVIOUS
<1>4. DOMAIN p = DOMAIN months /\ \A i \in DOMAIN months : p[i] = Window(Profits, Ledger, months[i].from, months[i].to)
  BY <1>3
<1>5. PartProfits(p, months) = whole.profit
  <2>1. \A i \in DOMAIN months : p[i].profit = Amount(In(Profits, months[i].from, months[i].to))
    BY <1>2, <1>4
  <2>. QED BY <1>0, <1>1, <1>2, <2>1, MonthProfitsAddUp
<1>6. DayProfits(Profits, start, end) = whole.profit
  BY <1>0, <1>2, DaysAddUp
<1>7. ASSUME whole.start # Unknown, \A m \in Initial(Ledger, end) : m.time <= start
      PROVE  /\ p[Len(months)].end = whole.end
             /\ \A i \in 2..Len(months) :
                  p[i].start = p[i - 1].end + Amount(In(Ledger, months[i].from, months[i].from))
             /\ Compounded(p)[1] * whole.under = Compounded(p)[2] * whole.over
  <2>1. Based(Profits, Ledger, start, end)
    BY <1>2, <1>7 DEF Based
  <2>2. PICK n \in Int : /\ n = Len(months) /\ 1 <= n /\ DOMAIN months = 1..n
                         /\ months[1].from = start /\ months[n].to = end
    <3>1. Len(months) \in Int /\ 1 <= Len(months) /\ DOMAIN months = 1..Len(months)
      BY <1>1 DEF Tiles
    <3>. QED BY <1>1, <3>1 DEF Tiles
  <2>3. ASSUME NEW i \in 1..n
        PROVE  /\ CapitalStart(Profits, Ledger, months[i].from, months[i].to) \in Int
               /\ p[i].start = CapitalStart(Profits, Ledger, months[i].from, months[i].to)
               /\ p[i].end = Month(months[i]).capital
               /\ p[i].over = Month(months[i]).over /\ p[i].under = Month(months[i]).under
    <3>1. PICK from \in start..end, to \in start..end : from = months[i].from /\ to = months[i].to /\ to \in from..end
      <4>1. /\ months[i].from \in Int /\ months[i].to \in Int
            /\ start <= months[i].from /\ months[i].from <= months[i].to /\ months[i].to <= end
        BY <1>1, <2>2 DEF Tiles
      <4>. QED BY <1>0, <4>1
    <3>2. CapitalStart(Profits, Ledger, from, to) \in Int
      <4>1. from <= from
        BY <1>0
      <4>. QED BY <1>0, <2>1, <3>1, <4>1, BaseMoves
    <3>3. CapitalStart(Profits, Ledger, from, to) # Unknown
      BY <3>2, LedgerAssumption
    <3>4. p[i] = Window(Profits, Ledger, from, to)
      BY <1>4, <2>2, <3>1
    <3>5. Month(months[i]) = Whole(from, to, to)
      BY <3>1 DEF Month, Whole
    <3>. QED BY <1>2, <3>1, <3>2, <3>3, <3>4, <3>5
  <2>4. whole.end = Whole(start, end, end).capital
    BY <1>2, <2>1 DEF Based
  <2>5. p[Len(months)].end = whole.end
    <3>1. p[n].end = Month(months[n]).capital
      BY <2>2, <2>3
    <3>2. CASE n = 1
      BY <1>0, <1>1, <2>1, <2>2, <2>4, <3>1, <3>2, MonthsMultiply
    <3>3. CASE n # 1
      <4>1. n \in 2..Len(months)
        BY <2>2, <3>3
      <4>2. Month(months[n]).capital = Whole(start, end, months[n].to).capital
        BY <1>0, <1>1, <2>1, <4>1, MonthsMultiply
      <4>. QED BY <2>2, <2>4, <3>1, <4>2
    <3>. QED BY <3>2, <3>3
  <2>6. ASSUME NEW i \in 2..Len(months)
        PROVE  p[i].start = p[i - 1].end + Amount(In(Ledger, months[i].from, months[i].from))
    <3>1. PICK j \in 1..n : j = i - 1 /\ j + 1 = i /\ j < n /\ i \in 1..n
      BY <2>2
    <3>2. PICK s \in Int, t \in Int, from \in Int, to \in Int :
            /\ s = months[j].from /\ t = months[j].to /\ from = months[i].from /\ to = months[i].to
            /\ from = t + 1 /\ start <= s /\ s <= t /\ from <= to /\ to <= end
      <4>1. /\ months[j].from \in Int /\ months[j].to \in Int
            /\ start <= months[j].from /\ months[j].from <= months[j].to
        BY <1>1, <2>2, <3>1 DEF Tiles
      <4>2. /\ months[i].from \in Int /\ months[i].to \in Int
            /\ months[i].from <= months[i].to /\ months[i].to <= end
        BY <1>1, <2>2, <3>1 DEF Tiles
      <4>3. months[j + 1].from = months[j].to + 1
        BY <1>1, <2>2, <3>1 DEF Tiles
      <4>4. months[i].from = months[j].to + 1
        BY <3>1, <4>3
      <4>. QED BY <4>1, <4>2, <4>4
    <3>3. /\ s \in start..end /\ from \in start..end /\ s <= from /\ t \in s..end /\ to \in from..end
          /\ from - 1 = t /\ s + 1 <= from
      <4>1. from = t + 1 /\ start <= s /\ s <= t /\ from <= to /\ to <= end
        BY <3>2
      <4>2. start \in Int /\ end \in Int
        BY <1>0
      <4>. QED BY <4>1, <4>2, NextWithin
    <3>4. /\ CapitalStart(Profits, Ledger, s, t) \in Int
          /\ CapitalStart(Profits, Ledger, from, to)
               = CapitalStart(Profits, Ledger, s, t) + Amount(In(Profits, s, from - 1)) + Amount(In(Ledger, s + 1, from))
      BY <1>0, <2>1, <3>3, BaseMoves
    <3>5. Month(months[j]).capital
            = CapitalStart(Profits, Ledger, s, t) + Amount(In(Profits, s, t)) + Amount(In(Ledger, s + 1, t))
      <4>0. PICK base \in Int : base = CapitalStart(Profits, Ledger, s, t)
        BY <3>4
      <4>1. \A x \in s..t : Return(Profits, Ledger, base, s, x).capital
              = base + Amount(In(Profits, s, x)) + Amount(In(Ledger, s + 1, x))
        <5>1. s <= t
          BY <3>2
        <5>. QED BY <1>0, <5>1, ReturnEnds
      <4>2. t \in s..t
        BY <3>2
      <4>3. Month(months[j]) = Return(Profits, Ledger, CapitalStart(Profits, Ledger, s, t), s, t)
        BY <3>2 DEF Month
      <4>. QED BY <4>0, <4>1, <4>2, <4>3
    <3>6. /\ Amount(In(Ledger, s + 1, from)) = Amount(In(Ledger, s + 1, from - 1)) + Amount(In(Ledger, from, from))
          /\ Amount(In(Ledger, s + 1, from - 1)) \in Int /\ Amount(In(Ledger, from, from)) \in Int
      <4>1. PICK a \in Int : a = s + 1 /\ a <= from
        BY <3>2, <3>3
      <4>. QED BY <1>0, <3>2, <4>1, InLast
    <3>7. Amount(In(Profits, s, t)) \in Int
      BY <1>0, <3>2, InLast
    <3>8. p[i].start = CapitalStart(Profits, Ledger, from, to) /\ p[i - 1].end = Month(months[j]).capital
      BY <2>3, <3>1, <3>2
    <3>. QED BY <3>2, <3>3, <3>4, <3>5, <3>6, <3>7, <3>8
  <2>7. Compounded(p) = <<whole.over, whole.under>> /\ whole.over \in Int /\ whole.under \in Int
    <3>1. \A i \in DOMAIN months : p[i].over = Month(months[i]).over /\ p[i].under = Month(months[i]).under
      BY <2>2, <2>3
    <3>2. Compounded(p) = <<Whole(start, end, end).over, Whole(start, end, end).under>>
      BY <1>0, <1>1, <1>4, <2>1, <3>1, MonthsCompound
    <3>3. Whole(start, end, end).over \in Int /\ Whole(start, end, end).under \in Int
      <4>1. end \in (start - 1)..end /\ start \in start..end /\ end \in start..end /\ start <= start
        BY <1>0
      <4>2. CapitalStart(Profits, Ledger, start, end) \in Int
        BY <1>0, <2>1, <4>1, BaseMoves
      <4>. QED BY <1>0, <4>1, <4>2, ReturnType DEF Whole
    <3>. QED BY <1>2, <3>2, <3>3
  <2>8. Compounded(p)[1] * whole.under = Compounded(p)[2] * whole.over
    <3>. HIDE DEF whole
    <3>1. Compounded(p)[1] = whole.over /\ Compounded(p)[2] = whole.under
      BY <2>7
    <3>. QED BY <2>7, <3>1, Products
  <2>. QED BY <2>5, <2>6, <2>8
<1>. HIDE DEF whole
<1>. QED BY <1>1, <1>3, <1>5, <1>6, <1>7 DEF whole

(* For every period, every length of the month and every ledger, complete or   *)
(* not: days and months add up to the profit of the period and, when no base   *)
(* was entered inside it, so do capital and return.                            *)
THEOREM MonthsMakeThePeriod == PerfSpec => []MonthsAddUp
<1>. QED BY OneRowOneDeal, PeriodsAddUp, PTL
=============================================================================
