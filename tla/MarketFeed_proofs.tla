------------------------- MODULE MarketFeed_proofs --------------------------
(***************************************************************************)
(* What holds of a tick, its candle, the evaluation and the alert it sets  *)
(* off, for any number of handlers, ticks, crashes and late answers:       *)
(*                                                                         *)
(*   CandlesCountOnce       a candle is the candle of its ticks;           *)
(*   AlertsFireOnce         an alert fires once, and is not left armed;    *)
(*   ClosesAreEvaluated     every candle close is evaluated;               *)
(*   ClosedCandlesAreFinal  what was evaluated as closed stays as it was.  *)
(*                                                                         *)
(* The first two need no hypothesis, the others say under which            *)
(* disturbances they hold (FallbackHolds, InStep).  CandlesSumUp says what *)
(* a candle sums up, OneDecides and SomeoneLooks which request decides     *)
(* about the alert, Backed what stands for a close that is not evaluated   *)
(* yet, Flow in which order ticks can still reach the table.               *)
(***************************************************************************)
EXTENDS MarketFeed, FiniteSetTheorems, SequenceTheorems, WellFoundedInduction, TLAPS


\* Induction over the subsets of a finite set, with a set for the property.
LEMMA SubsetInduction ==
    ASSUME NEW S, IsFiniteSet(S), NEW P,
           \A T \in SUBSET S : (\A U \in SUBSET T : U # T => U \in P) => T \in P
    PROVE  \A T \in SUBSET S : T \in P
<1>. SUFFICES ASSUME (SUBSET S) \ P # {} PROVE FALSE
  OBVIOUS
<1>1. IsWellFoundedOn(StrictSubsetOrdering(S), FiniteSubsetsOf(S))
  BY FS_StrictSubsetOrderingWellFounded
<1>2. (SUBSET S) \ P \subseteq FiniteSubsetsOf(S)
  BY FS_Subset DEF FiniteSubsetsOf
<1>3. PICK T \in (SUBSET S) \ P : \A U \in (SUBSET S) \ P : ~ (<<U, T>> \in StrictSubsetOrdering(S))
  <2>. DEFINE R == StrictSubsetOrdering(S)
              F == FiniteSubsetsOf(S)
              Bad == (SUBSET S) \ P
  <2>1. IsWellFoundedOn(R, F) /\ Bad \subseteq F /\ Bad # {}
    BY <1>1, <1>2
  <2>2. \E T \in Bad : \A U \in Bad : ~ (<<U, T>> \in R)
    <3>. HIDE DEF R, F, Bad
    <3>. QED BY <2>1, WFMin
  <2>. QED BY <2>2
<1>4. \A U \in SUBSET T : U # T => U \in P
  BY <1>3 DEF StrictSubsetOrdering
<1>. QED BY <1>3, <1>4

\* A finite set of numbers has a greatest one ...
LEMMA GreatestExists ==
    ASSUME NEW S \in SUBSET Int, IsFiniteSet(S), S # {}
    PROVE  \E x \in S : \A y \in S : x >= y
<1>. DEFINE P == {T \in SUBSET S : T # {} => \E x \in T : \A y \in T : x >= y}
<1>1. ASSUME NEW T \in SUBSET S, \A U \in SUBSET T : U # T => U \in P
      PROVE  T \in P
  <2>. SUFFICES ASSUME T # {} PROVE \E x \in T : \A y \in T : x >= y
    OBVIOUS
  <2>1. PICK a \in T : TRUE
    OBVIOUS
  <2>2. CASE T \ {a} = {}
    <3>1. \A y \in T : y = a /\ a >= y
      BY <2>2
    <3>. QED BY <3>1, <2>1
  <2>3. CASE T \ {a} # {}
    <3>1. T \ {a} \in P
      BY <1>1, <2>1
    <3>2. PICK m \in T \ {a} : \A y \in T \ {a} : m >= y
      BY <3>1, <2>3
    <3>3. a \in Int /\ m \in Int /\ T \subseteq Int
      BY <2>1, <3>2
    <3>4. (\A y \in T : m >= y) \/ (\A y \in T : a >= y)
      BY <3>2, <3>3
    <3>. QED BY <3>4, <3>2, <2>1
  <2>. QED BY <2>2, <2>3
<1>2. \A T \in SUBSET S : T \in P
  <2>. HIDE DEF P
  <2>. QED BY <1>1, SubsetInduction
<1>. QED BY <1>2

\* ... and a least one.
LEMMA LeastExists ==
    ASSUME NEW S \in SUBSET Int, IsFiniteSet(S), S # {}
    PROVE  \E x \in S : \A y \in S : x <= y
<1>. DEFINE P == {T \in SUBSET S : T # {} => \E x \in T : \A y \in T : x <= y}
<1>1. ASSUME NEW T \in SUBSET S, \A U \in SUBSET T : U # T => U \in P
      PROVE  T \in P
  <2>. SUFFICES ASSUME T # {} PROVE \E x \in T : \A y \in T : x <= y
    OBVIOUS
  <2>1. PICK a \in T : TRUE
    OBVIOUS
  <2>2. CASE T \ {a} = {}
    <3>1. \A y \in T : y = a /\ a <= y
      BY <2>2
    <3>. QED BY <3>1, <2>1
  <2>3. CASE T \ {a} # {}
    <3>1. T \ {a} \in P
      BY <1>1, <2>1
    <3>2. PICK m \in T \ {a} : \A y \in T \ {a} : m <= y
      BY <3>1, <2>3
    <3>3. a \in Int /\ m \in Int /\ T \subseteq Int
      BY <2>1, <3>2
    <3>4. (\A y \in T : m <= y) \/ (\A y \in T : a <= y)
      BY <3>2, <3>3
    <3>. QED BY <3>4, <3>2, <2>1
  <2>. QED BY <2>2, <2>3
<1>2. \A T \in SUBSET S : T \in P
  <2>. HIDE DEF P
  <2>. QED BY <1>1, SubsetInduction
<1>. QED BY <1>2

\* Which is what Max and Min choose.
LEMMA MaxIsGreatest ==
    ASSUME NEW S \in SUBSET Int, IsFiniteSet(S), S # {}
    PROVE  /\ Max(S) \in S /\ Max(S) \in Int
           /\ \A y \in S : y <= Max(S)
<1>1. Max(S) \in S /\ \A y \in S : Max(S) >= y
  BY GreatestExists DEF Max
<1>. QED BY <1>1

\* The least element, in the same way.
LEMMA MinIsLeast ==
    ASSUME NEW S \in SUBSET Int, IsFiniteSet(S), S # {}
    PROVE  /\ Min(S) \in S /\ Min(S) \in Int
           /\ \A y \in S : Min(S) <= y
<1>1. Min(S) \in S /\ \A y \in S : Min(S) <= y
  BY LeastExists DEF Min
<1>. QED BY <1>1

\* An enumeration of a set of numbers in increasing order.
Enumerates(g, n, S) ==
  /\ n \in Nat /\ g \in [1..n -> S]
  /\ \A x \in S : \E i \in 1..n : g[i] = x
  /\ \A i, j \in 1..n : i < j => g[i] < g[j]

\* Every finite set of numbers has one.
LEMMA EnumerationExists ==
    ASSUME NEW S \in SUBSET Int, IsFiniteSet(S)
    PROVE  \E n \in Nat : \E g \in [1..n -> S] : Enumerates(g, n, S)
<1>. DEFINE P == {T \in SUBSET S : \E n \in Nat : \E g \in [1..n -> T] : Enumerates(g, n, T)}
<1>1. ASSUME NEW T \in SUBSET S, \A U \in SUBSET T : U # T => U \in P
      PROVE  T \in P
  <2>1. CASE T = {}
    <3>. DEFINE g == [i \in 1..0 |-> 0]
    <3>1. g \in [1..0 -> T] /\ Enumerates(g, 0, T)
      BY <2>1 DEF Enumerates
    <3>. QED BY <3>1
  <2>2. CASE T # {}
    <3>. DEFINE m == Max(T)
    <3>1. m \in T /\ m \in Int /\ \A y \in T : y <= m
      BY <2>2, FS_Subset, MaxIsGreatest
    <3>. HIDE DEF m
    <3>2. T \ {m} \in P
      BY <1>1, <3>1
    <3>a. PICK n \in Nat : \E h \in [1..n -> T \ {m}] : Enumerates(h, n, T \ {m})
      BY <3>2
    <3>3. PICK h \in [1..n -> T \ {m}] : Enumerates(h, n, T \ {m})
      BY <3>a
    <3>. DEFINE g == [i \in 1..(n + 1) |-> IF i = n + 1 THEN m ELSE h[i]]
    <3>4. g \in [1..(n + 1) -> T]
      BY <3>1, <3>3
    <3>5. \A i, j \in 1..(n + 1) : i < j => g[i] < g[j]
      <4>. SUFFICES ASSUME NEW i \in 1..(n + 1), NEW j \in 1..(n + 1), i < j
                    PROVE  g[i] < g[j]
        OBVIOUS
      <4>1. i \in 1..n /\ g[i] = h[i] /\ h[i] \in T \ {m}
        BY <3>3
      <4>2. CASE j = n + 1
        <5>1. h[i] \in Int /\ h[i] <= m /\ h[i] # m
          BY <4>1, <3>1
        <5>. QED BY <5>1, <4>1, <4>2, <3>1
      <4>3. CASE j # n + 1
        <5>1. j \in 1..n /\ g[j] = h[j]
          BY <4>3
        <5>. QED BY <5>1, <4>1, <3>3 DEF Enumerates
      <4>. QED BY <4>2, <4>3
    <3>6. \A x \in T : \E i \in 1..(n + 1) : g[i] = x
      <4>. TAKE x \in T
      <4>1. CASE x = m
        <5>1. g[n + 1] = x /\ n + 1 \in 1..(n + 1)
          BY <4>1
        <5>. QED BY <5>1
      <4>2. CASE x # m
        <5>1. PICK i \in 1..n : h[i] = x
          BY <4>2, <3>3 DEF Enumerates
        <5>2. i \in 1..(n + 1) /\ g[i] = x
          BY <5>1
        <5>. QED BY <5>2
      <4>. QED BY <4>1, <4>2
    <3>7. Enumerates(g, n + 1, T) /\ n + 1 \in Nat
      <4>. HIDE DEF g
      <4>. QED BY <3>4, <3>5, <3>6 DEF Enumerates
    <3>. QED BY <3>4, <3>7
  <2>. QED BY <2>1, <2>2
<1>2. \A T \in SUBSET S : T \in P
  <2>. HIDE DEF P
  <2>. QED BY <1>1, SubsetInduction
<1>. QED BY <1>2

\* What increases does not take a value twice.
LEMMA IncreasingIsInjective ==
    ASSUME NEW n \in Nat, NEW S \in SUBSET Int, NEW g \in [1..n -> S],
           \A i, j \in 1..n : i < j => g[i] < g[j]
    PROVE  g \in Injection(1..n, S)
<1>1. ASSUME NEW i \in 1..n, NEW j \in 1..n, g[i] = g[j] PROVE i = j
  <2>1. g[i] \in Int /\ g[j] \in Int
    OBVIOUS
  <2>2. ~ (i < j) /\ ~ (j < i)
    BY <1>1, <2>1
  <2>. QED BY <2>2
<1>. QED BY <1>1 DEF Injection, IsInjective

\* InOrder has the elements of the set, in their order.
LEMMA SortedSet ==
    ASSUME NEW S \in SUBSET Int, IsFiniteSet(S)
    PROVE  /\ InOrder(S) \in Seq(S)
           /\ \A x \in S : \E i \in 1..Len(InOrder(S)) : InOrder(S)[i] = x
           /\ \A i, j \in 1..Len(InOrder(S)) : i < j => InOrder(S)[i] < InOrder(S)[j]
<1>. DEFINE n == Cardinality(S)
            s == InOrder(S)
            Sorted(g) == \A p, q \in DOMAIN g : p < q => g[p] < g[q]
<1>1. PICK m \in Nat : \E g \in [1..m -> S] : Enumerates(g, m, S)
  BY EnumerationExists
<1>2. PICK g \in [1..m -> S] : Enumerates(g, m, S)
  BY <1>1
<1>3. IsFiniteSet(1..m) /\ Cardinality(1..m) = m
  BY FS_Interval, <1>1
<1>4. n = m
  <2>1. g \in Injection(1..m, S)
    BY <1>2, IncreasingIsInjective DEF Enumerates
  <2>2. g \in Surjection(1..m, S)
    BY <1>2 DEF Surjection, Enumerates
  <2>. QED BY <2>1, <2>2, <1>3, FS_Injection
<1>5. g \in [1..n -> S] /\ Sorted(g)
  BY <1>2, <1>4 DEF Enumerates
<1>6. s \in [1..n -> S] /\ Sorted(s)
  <2>1. \E f \in [1..n -> S] : Sorted(f)
    BY <1>5
  <2>2. s = CHOOSE f \in [1..n -> S] : Sorted(f)
    BY DEF InOrder
  <2>. HIDE DEF s, Sorted, n
  <2>. QED BY <2>1, <2>2
<1>. HIDE DEF s, n
<1>7. \A i, j \in 1..n : i < j => s[i] < s[j]
  BY <1>6
<1>8. n \in Nat /\ Len(s) = n /\ s \in Seq(S)
  BY <1>6, <1>4, <1>1
<1>9. s \in Surjection(1..n, S)
  <2>1. s \in Injection(1..n, S)
    BY <1>6, <1>7, <1>8, IncreasingIsInjective
  <2>. QED BY <2>1, <1>3, <1>4, FS_Injection DEF n
<1>10. \A x \in S : \E i \in 1..n : s[i] = x
  BY <1>9 DEF Surjection
<1>. QED BY <1>7, <1>8, <1>10 DEF s

----------------------------------------------------------------------------
(* Types.                                                                  *)

Points == {"free", "received", "stored", "strategy", "retire", "alerts", "reading", "push"}

\* A request: what a handler holds.
Request == [at : Points, batch : Seq(Nat), fresh : SUBSET Nat, bucket : Buckets \cup {None}]

\* The types of everything the proofs need.
Shape ==
  /\ clock \in 0..MaxTime
  /\ feed \in Seq([t : Int, p : Int])
  /\ \A i \in DOMAIN feed : 0 <= feed[i].t /\ feed[i].t <= clock
  /\ \A i, j \in DOMAIN feed : i <= j => feed[i].t <= feed[j].t
  /\ collector \in [seen : Int, known : SUBSET DOMAIN feed]
  /\ buffer \in Seq(Nat) /\ \A p \in DOMAIN buffer : buffer[p] \in DOMAIN feed
  /\ post \in [to : Handlers \cup {None}, n : Nat]
  /\ handler \in [Handlers -> Request]
  /\ \A h \in Handlers : /\ \A p \in DOMAIN handler[h].batch : handler[h].batch[p] \in DOMAIN feed
                         /\ handler[h].fresh \subseteq stored
  /\ stored \subseteq DOMAIN feed
  /\ lastBucket \in Buckets \cup {None}
  /\ job \in [Buckets -> {"none", "PENDING", "COMPLETED"}]
  /\ spent \in [late : Nat, other : Nat]

\* The types of the constants.
LEMMA FeedTypes ==
    /\ BatchMax \in Nat \ {0} /\ Lookback \in Nat /\ FirstPoll \in Nat
    /\ Prices \subseteq Int /\ Target \in Int
    /\ MaxTicks \in Nat /\ MaxTime \in Nat /\ MaxSpent \in Nat
  BY FeedAssumption

\* The times of the ticks.
LEMMA TickTimes ==
    ASSUME Shape
    PROVE  /\ Len(feed) \in Nat /\ DOMAIN feed = 1..Len(feed)
           /\ \A i \in DOMAIN feed : /\ feed[i].t \in Int /\ feed[i].p \in Int
                                    /\ feed[i].t \in 0..MaxTime /\ feed[i].t <= clock
<1>1. feed \in Seq([t : Int, p : Int])
  BY DEF Shape
<1>2. Len(feed) \in Nat /\ DOMAIN feed = 1..Len(feed)
  BY <1>1
<1>3. ASSUME NEW i \in DOMAIN feed
      PROVE  feed[i].t \in Int /\ feed[i].p \in Int /\ feed[i].t \in 0..MaxTime /\ feed[i].t <= clock
  <2>1. feed[i] \in [t : Int, p : Int]
    BY <1>1, <1>2, ElementOfSeq
  <2>2. clock \in 0..MaxTime /\ 0 <= feed[i].t /\ feed[i].t <= clock
    BY DEF Shape
  <2>. QED BY <2>1, <2>2, FeedTypes
<1>. QED BY <1>2, <1>3

\* The buckets of the clock and of every tick.
LEMMA BucketTypes ==
    ASSUME Shape
    PROVE  /\ clock \div Bar \in Buckets
           /\ \A i \in DOMAIN feed : Bucket(i) \in Buckets
           /\ Buckets \subseteq Nat /\ IsFiniteSet(Buckets) /\ None \in Int
<1>1. MaxTime \div Bar \in Nat
  BY FeedTypes DEF Bar
<1>2. IsFiniteSet(Buckets) /\ Buckets \subseteq Nat
  BY <1>1, FS_Interval DEF Buckets
<1>3. \A t \in 0..MaxTime : t \div Bar \in Buckets
  BY FeedTypes DEF Buckets, Bar
<1>4. \A i \in DOMAIN feed : feed[i].t \in 0..MaxTime
  BY TickTimes
<1>5. clock \in 0..MaxTime
  BY DEF Shape
<1>. QED BY <1>2, <1>3, <1>4, <1>5 DEF Bucket, None

\* Ticks are finitely many.
LEMMA TicksAreFinite ==
    ASSUME Shape, NEW S \in SUBSET DOMAIN feed
    PROVE  IsFiniteSet(S) /\ S \in SUBSET Int
<1>1. DOMAIN feed = 1..Len(feed) /\ Len(feed) \in Nat
  BY DEF Shape
<1>2. IsFiniteSet(1..Len(feed))
  BY <1>1, FS_Interval
<1>. QED BY <1>1, <1>2, FS_Subset

\* The newest bucket of some ticks.
LEMMA NewestBucketOf ==
    ASSUME Shape, NEW S \in SUBSET DOMAIN feed
    PROVE  /\ NewestBucket(S) \in Buckets \cup {None}
           /\ \A i \in S : Bucket(i) <= NewestBucket(S)
           /\ S # {} => \E i \in S : NewestBucket(S) = Bucket(i)
<1>. DEFINE B == {Bucket(i) : i \in S}
<1>1. B \subseteq Buckets
  BY BucketTypes
<1>2. IsFiniteSet(B \cup {None}) /\ B \cup {None} \in SUBSET Int
  <2>1. Buckets \subseteq Int /\ IsFiniteSet(Buckets) /\ None \in Int
    BY BucketTypes
  <2>2. IsFiniteSet(B)
    BY <1>1, <2>1, FS_Subset
  <2>. HIDE DEF B
  <2>. QED BY <1>1, <2>1, <2>2, FS_AddElement
<1>3. Max(B \cup {None}) \in B \cup {None} /\ \A y \in B \cup {None} : y <= Max(B \cup {None})
  <2>. HIDE DEF B
  <2>. QED BY <1>2, MaxIsGreatest
<1>4. NewestBucket(S) = Max(B \cup {None})
  BY DEF NewestBucket
<1>5. ASSUME S # {} PROVE NewestBucket(S) \in B
  <2>1. PICK i \in S : TRUE
    BY <1>5
  <2>2. Bucket(i) \in Nat /\ Bucket(i) <= NewestBucket(S)
    BY <2>1, <1>3, <1>4, BucketTypes
  <2>. QED BY <2>2, <1>3, <1>4 DEF None
<1>. QED BY <1>1, <1>3, <1>4, <1>5

\* What a poll collects, in its order.
LEMMA CollectedIsOrdered ==
    ASSUME Shape, NEW since, NEW known, NEW history,
           NEW new, new = Collected(since, known, history)
    PROVE  /\ new \in Seq(DOMAIN feed) /\ new \in Seq(Nat)
           /\ \A p \in DOMAIN new : /\ new[p] \in DOMAIN feed \ known
                                    /\ \/ new[p] <= history /\ feed[new[p]].t >= since
                                       \/ new[p] = Len(feed)
           /\ \A i \in DOMAIN feed \ known :
                (i <= history /\ feed[i].t >= since) \/ i = Len(feed) => \E p \in DOMAIN new : new[p] = i
           /\ \A p, q \in DOMAIN new : p < q => new[p] < new[q]
<1>. DEFINE S == {i \in DOMAIN feed \ known : (i <= history /\ feed[i].t >= since) \/ i = Len(feed)}
<1>1. new = InOrder(S)
  BY DEF Collected
<1>2. IsFiniteSet(S) /\ S \in SUBSET Int /\ S \subseteq DOMAIN feed
  BY TicksAreFinite
<1>3. /\ new \in Seq(S)
      /\ \A x \in S : \E i \in 1..Len(new) : new[i] = x
      /\ \A i, j \in 1..Len(new) : i < j => new[i] < new[j]
  <2>. HIDE DEF S
  <2>. QED BY <1>1, <1>2, SortedSet
<1>4. DOMAIN new = 1..Len(new) /\ \A p \in DOMAIN new : new[p] \in S
  <2>. HIDE DEF S
  <2>. QED BY <1>3
<1>5. DOMAIN feed \subseteq Nat
  BY DEF Shape
<1>6. new \in Seq(DOMAIN feed) /\ new \in Seq(Nat)
  <2>1. new \in [1..Len(new) -> DOMAIN feed] /\ Len(new) \in Nat
    <3>1. Len(new) \in Nat /\ new = [p \in 1..Len(new) |-> new[p]]
      <4>. HIDE DEF S
      <4>. QED BY <1>3
    <3>2. \A p \in 1..Len(new) : new[p] \in DOMAIN feed
      <4>. HIDE DEF S
      <4>. QED BY <1>2, <1>4
    <3>. QED BY <3>1, <3>2
  <2>. QED BY <2>1, <1>5
<1>. QED BY <1>3, <1>4, <1>6

\* The types at the start.
LEMMA InitShape == Init => Shape
<1>. SUFFICES ASSUME Init PROVE Shape
  OBVIOUS
<1>1. Buckets \subseteq Nat /\ None = -1
  <2>1. MaxTime \div Bar \in Nat
    BY FeedTypes DEF Bar
  <2>. QED BY <2>1 DEF Buckets, None
<1>. QED BY <1>1, FeedTypes DEF Init, Shape, Request, Free, Idle, Points

\* A poll keeps the types of what it changes.
LEMMA CollectKeepsShape ==
    ASSUME Shape, NEW since, NEW seen \in Int, NEW known \in SUBSET DOMAIN feed,
           NEW queue \in Seq(Nat), \A p \in DOMAIN queue : queue[p] \in DOMAIN feed,
           Collect(since, seen, known, queue)
    PROVE  /\ collector' \in [seen : Int, known : SUBSET DOMAIN feed]
           /\ buffer' \in Seq(Nat) /\ \A p \in DOMAIN buffer' : buffer'[p] \in DOMAIN feed
<1>1. PICK history \in 0..Len(feed) :
        LET new == Collected(since, known, history)
        IN /\ buffer' = queue \o new
           /\ collector' = [seen  |-> IF new = <<>> THEN seen ELSE feed[Last(new)].t,
                            known |-> known \cup ToSet(new)]
  <2>1. Len(feed) \in Nat
    BY DEF Shape
  <2>2. Len(feed) \in 0..Len(feed)
    BY <2>1
  <2>. QED BY <2>2 DEF Collect
<1>. DEFINE new == Collected(since, known, history)
<1>2. /\ new \in Seq(Nat) /\ new \in Seq(DOMAIN feed)
      /\ \A p \in DOMAIN new : new[p] \in DOMAIN feed
  BY CollectedIsOrdered
<1>3. /\ buffer' = queue \o new
      /\ collector' = [seen  |-> IF new = <<>> THEN seen ELSE feed[Last(new)].t,
                       known |-> known \cup ToSet(new)]
  BY <1>1
<1>. HIDE DEF new
<1>4. /\ buffer' \in Seq(Nat) /\ Len(buffer') = Len(queue) + Len(new)
      /\ \A i \in 1..(Len(queue) + Len(new)) :
           buffer'[i] = IF i <= Len(queue) THEN queue[i] ELSE new[i - Len(queue)]
  BY <1>2, <1>3, ConcatProperties
<1>5. \A p \in DOMAIN buffer' : buffer'[p] \in DOMAIN feed
  <2>. SUFFICES ASSUME NEW p \in 1..(Len(queue) + Len(new)) PROVE buffer'[p] \in DOMAIN feed
    BY <1>4
  <2>1. CASE p <= Len(queue)
    <3>1. p \in DOMAIN queue
      BY <2>1
    <3>. QED BY <3>1, <2>1, <1>4
  <2>2. CASE ~ (p <= Len(queue))
    <3>1. p - Len(queue) \in DOMAIN new
      BY <2>2, <1>2
    <3>. QED BY <3>1, <2>2, <1>4, <1>2
  <2>. QED BY <2>1, <2>2
<1>6. \A i \in DOMAIN feed : feed[i].t \in Int
  BY TickTimes
<1>7. new # <<>> => Last(new) \in DOMAIN feed
  BY <1>2 DEF Last
<1>8. ToSet(new) \subseteq DOMAIN feed
  BY <1>2 DEF ToSet
<1>. QED BY <1>3, <1>4, <1>5, <1>6, <1>7, <1>8

\* What is left of the buffer when some of its first ticks are gone.
LEMMA Rest ==
    ASSUME NEW s \in Seq(Nat), NEW n \in Nat, NEW r, r = SubSeq(s, n + 1, Len(s))
    PROVE  /\ r \in Seq(Nat) /\ DOMAIN r = 1..Len(r)
           /\ Len(r) = IF n <= Len(s) THEN Len(s) - n ELSE 0
           /\ \A p \in 1..Len(r) : p + n \in DOMAIN s /\ r[p] = s[p + n]
<1>1. \A i \in (n + 1)..Len(s) : s[i] \in Nat
  OBVIOUS
<1>2. /\ r \in Seq(Nat)
      /\ Len(r) = IF n + 1 <= Len(s) THEN Len(s) - (n + 1) + 1 ELSE 0
      /\ \A i \in 1..(Len(s) - (n + 1) + 1) : r[i] = s[n + 1 + i - 1]
  BY <1>1, SubSeqProperties
<1>3. Len(r) = IF n <= Len(s) THEN Len(s) - n ELSE 0
  BY <1>2
<1>4. ASSUME NEW p \in 1..Len(r) PROVE p + n \in DOMAIN s /\ r[p] = s[p + n]
  <2>1. p \in 1..(Len(s) - (n + 1) + 1) /\ n + 1 + p - 1 = p + n
    BY <1>3
  <2>. QED BY <2>1, <1>2
<1>. QED BY <1>2, <1>3, <1>4

\* A batch is the beginning of the buffer.
LEMMA BatchOf ==
    ASSUME Shape
    PROVE  /\ Batch \in Seq(Nat) /\ Len(Batch) \in Nat /\ Len(Batch) <= Len(buffer)
           /\ DOMAIN Batch = 1..Len(Batch)
           /\ \A p \in 1..Len(Batch) : Batch[p] = buffer[p] /\ p \in DOMAIN buffer
<1>. DEFINE n == Min({BatchMax, Len(buffer)})
<1>1. buffer \in Seq(Nat) /\ Len(buffer) \in Nat /\ DOMAIN buffer = 1..Len(buffer) /\ BatchMax \in Nat
  BY FeedTypes DEF Shape
<1>2. n \in Nat /\ n <= Len(buffer)
  <2>1. IsFiniteSet({BatchMax, Len(buffer)})
    <3>1. IsFiniteSet({BatchMax} \cup {Len(buffer)})
      BY FS_Singleton, FS_AddElement
    <3>2. {BatchMax} \cup {Len(buffer)} = {BatchMax, Len(buffer)}
      OBVIOUS
    <3>. QED BY <3>1, <3>2
  <2>. QED BY <2>1, <1>1, MinIsLeast
<1>. HIDE DEF n
<1>3. \A i \in 1..n : buffer[i] \in Nat
  BY <1>1, <1>2
<1>4. Batch = SubSeq(buffer, 1, n)
  BY DEF Batch, n
<1>5. Batch \in Seq(Nat) /\ Len(Batch) = n /\ \A i \in 1..n : Batch[i] = buffer[i]
  <2>1. /\ Batch \in Seq(Nat)
        /\ Len(Batch) = IF 1 <= n THEN n - 1 + 1 ELSE 0
        /\ \A i \in 1..(n - 1 + 1) : Batch[i] = buffer[1 + i - 1]
    BY <1>2, <1>3, <1>4, SubSeqProperties
  <2>. QED BY <2>1, <1>2, <1>3
<1>. QED BY <1>5, <1>2, <1>1

\* A new tick leaves the ones before it alone.
LEMMA NewTickAppends ==
    ASSUME Shape, NewTick
    PROVE  /\ Len(feed') = Len(feed) + 1 /\ DOMAIN feed \subseteq DOMAIN feed'
           /\ DOMAIN feed' = DOMAIN feed \cup {Len(feed) + 1}
           /\ \A i \in DOMAIN feed : feed'[i] = feed[i]
           /\ feed'[Len(feed) + 1].t = clock
           /\ feed' \in Seq([t : Int, p : Int])
<1>1. PICK p \in Prices : feed' = Append(feed, [t |-> clock, p |-> p])
  BY DEF NewTick
<1>2. feed \in Seq([t : Int, p : Int]) /\ [t |-> clock, p |-> p] \in [t : Int, p : Int]
  BY FeedTypes DEF Shape
<1>3. /\ feed' \in Seq([t : Int, p : Int]) /\ Len(feed') = Len(feed) + 1
      /\ \A i \in 1..Len(feed) : feed'[i] = feed[i]
      /\ feed'[Len(feed) + 1] = [t |-> clock, p |-> p]
  BY <1>1, <1>2, AppendProperties
<1>4. DOMAIN feed = 1..Len(feed) /\ DOMAIN feed' = 1..(Len(feed) + 1) /\ Len(feed) \in Nat
  BY <1>2, <1>3
<1>. QED BY <1>3, <1>4


\* Only the handler h takes a step.
Moved(h, r) ==
  /\ handler' \in [Handlers -> Request] /\ handler'[h] = r
  /\ \A g \in Handlers : g # h => handler'[g] = handler[g]

\* A handler gets another request.
LEMMA MovedBy ==
    ASSUME Shape, NEW h \in Handlers, NEW r \in Request, handler' = [handler EXCEPT ![h] = r]
    PROVE  Moved(h, r)
<1>1. handler \in [Handlers -> Request]
  BY DEF Shape, Request
<1>. QED BY <1>1 DEF Moved

\* A handler that goes on to another point.
LEMMA MovedTo ==
    ASSUME Shape, NEW h \in Handlers, NEW s \in Points, handler' = [handler EXCEPT ![h].at = s]
    PROVE  Moved(h, [at |-> s, batch |-> handler[h].batch, fresh |-> handler[h].fresh,
                     bucket |-> handler[h].bucket])
<1>1. handler \in [Handlers -> Request]
  BY DEF Shape, Request
<1>2. handler[h] \in Request
  BY <1>1
<1>3. [handler[h] EXCEPT !.at = s]
        = [at |-> s, batch |-> handler[h].batch, fresh |-> handler[h].fresh, bucket |-> handler[h].bucket]
  BY <1>2 DEF Request
<1>4. [at |-> s, batch |-> handler[h].batch, fresh |-> handler[h].fresh, bucket |-> handler[h].bucket]
        \in Request
  BY <1>2 DEF Request
<1>5. handler' = [handler EXCEPT ![h] = [handler[h] EXCEPT !.at = s]]
  BY <1>1
<1>. QED BY <1>3, <1>4, <1>5, MovedBy

\* A free handler.
LEMMA FreeIsRequest ==
    Free \in Request /\ Free.at = "free" /\ Free.fresh = {} /\ Free.batch = << >> /\ Free.bucket = None
                         /\ DOMAIN Free.batch = {}
  BY DEF Free, Request, Points, None

\* What a handler holds when it has gone on to another point.
At(h, s) == [at |-> s, batch |-> handler[h].batch, fresh |-> handler[h].fresh, bucket |-> handler[h].bucket]

\* Two fields of a request are changed one after the other.
LEMMA BatchChanges ==
    ASSUME NEW r \in Request, NEW s, NEW x
    PROVE  [r EXCEPT !.at = s, !.batch = x] = [at |-> s, batch |-> x, fresh |-> r.fresh, bucket |-> r.bucket]
<1>. DEFINE q == [at |-> s, batch |-> r.batch, fresh |-> r.fresh, bucket |-> r.bucket]
<1>1. [r EXCEPT !.at = s] = q
  BY DEF Request
<1>2. [r EXCEPT !.at = s, !.batch = x] = [[r EXCEPT !.at = s] EXCEPT !.batch = x]
  OBVIOUS
<1>3. [q EXCEPT !.batch = x] = [at |-> s, batch |-> x, fresh |-> r.fresh, bucket |-> r.bucket]
  OBVIOUS
<1>. HIDE DEF q
<1>. QED BY <1>1, <1>2, <1>3

\* The same with its new ticks.
LEMMA FreshChanges ==
    ASSUME NEW r \in Request, NEW s, NEW x
    PROVE  [r EXCEPT !.at = s, !.fresh = x] = [at |-> s, batch |-> r.batch, fresh |-> x, bucket |-> r.bucket]
<1>. DEFINE q == [at |-> s, batch |-> r.batch, fresh |-> r.fresh, bucket |-> r.bucket]
<1>1. [r EXCEPT !.at = s] = q
  BY DEF Request
<1>2. [r EXCEPT !.at = s, !.fresh = x] = [[r EXCEPT !.at = s] EXCEPT !.fresh = x]
  OBVIOUS
<1>3. [q EXCEPT !.fresh = x] = [at |-> s, batch |-> r.batch, fresh |-> x, bucket |-> r.bucket]
  OBVIOUS
<1>. HIDE DEF q
<1>. QED BY <1>1, <1>2, <1>3

\* The same with the bucket of its job.
LEMMA BucketChanges ==
    ASSUME NEW r \in Request, NEW s, NEW x
    PROVE  [r EXCEPT !.at = s, !.bucket = x] = [at |-> s, batch |-> r.batch, fresh |-> r.fresh, bucket |-> x]
<1>. DEFINE q == [at |-> s, batch |-> r.batch, fresh |-> r.fresh, bucket |-> r.bucket]
<1>1. [r EXCEPT !.at = s] = q
  BY DEF Request
<1>2. [r EXCEPT !.at = s, !.bucket = x] = [[r EXCEPT !.at = s] EXCEPT !.bucket = x]
  OBVIOUS
<1>3. [q EXCEPT !.bucket = x] = [at |-> s, batch |-> r.batch, fresh |-> r.fresh, bucket |-> x]
  OBVIOUS
<1>. HIDE DEF q
<1>. QED BY <1>1, <1>2, <1>3

\* A handler moves on and takes over a value.
LEMMA MovedAndChanged ==
    ASSUME Shape, NEW h \in Handlers, NEW s \in Points, NEW x
    PROVE  /\ x \subseteq Nat /\ handler' = [handler EXCEPT ![h].at = s, ![h].fresh = x]
                => Moved(h, [at |-> s, batch |-> handler[h].batch, fresh |-> x, bucket |-> handler[h].bucket])
           /\ x \in Buckets \cup {None} /\ handler' = [handler EXCEPT ![h] = [@ EXCEPT !.at = s, !.bucket = x]]
                => Moved(h, [at |-> s, batch |-> handler[h].batch, fresh |-> handler[h].fresh, bucket |-> x])
           /\ x \in Seq(Nat) /\ handler' = [handler EXCEPT ![h] = [Free EXCEPT !.at = s, !.batch = x]]
                => Moved(h, [at |-> s, batch |-> x, fresh |-> {}, bucket |-> None])
<1>0. handler \in [Handlers -> Request] /\ handler[h] \in Request
  BY DEF Shape, Request
<1>1. ASSUME x \subseteq Nat, handler' = [handler EXCEPT ![h].at = s, ![h].fresh = x]
      PROVE  Moved(h, [at |-> s, batch |-> handler[h].batch, fresh |-> x, bucket |-> handler[h].bucket])
  <2>. DEFINE r == [at |-> s, batch |-> handler[h].batch, fresh |-> x, bucket |-> handler[h].bucket]
  <2>1. handler' = [handler EXCEPT ![h] = [handler[h] EXCEPT !.at = s, !.fresh = x]]
    BY <1>1, <1>0
  <2>2. [handler[h] EXCEPT !.at = s, !.fresh = x] = r
    BY <1>0, FreshChanges
  <2>3. r \in Request
    BY <1>0, <1>1 DEF Request
  <2>. HIDE DEF r
  <2>4. Moved(h, r)
    BY <2>1, <2>2, <2>3, MovedBy
  <2>. QED BY <2>4 DEF r
<1>2. ASSUME x \in Buckets \cup {None}, handler' = [handler EXCEPT ![h] = [@ EXCEPT !.at = s, !.bucket = x]]
      PROVE  Moved(h, [at |-> s, batch |-> handler[h].batch, fresh |-> handler[h].fresh, bucket |-> x])
  <2>. DEFINE r == [at |-> s, batch |-> handler[h].batch, fresh |-> handler[h].fresh, bucket |-> x]
  <2>1. handler' = [handler EXCEPT ![h] = [handler[h] EXCEPT !.at = s, !.bucket = x]]
    BY <1>2, <1>0
  <2>2. [handler[h] EXCEPT !.at = s, !.bucket = x] = r
    BY <1>0, BucketChanges
  <2>3. r \in Request
    BY <1>0, <1>2 DEF Request
  <2>. HIDE DEF r
  <2>4. Moved(h, r)
    BY <2>1, <2>2, <2>3, MovedBy
  <2>. QED BY <2>4 DEF r
<1>3. ASSUME x \in Seq(Nat), handler' = [handler EXCEPT ![h] = [Free EXCEPT !.at = s, !.batch = x]]
      PROVE  Moved(h, [at |-> s, batch |-> x, fresh |-> {}, bucket |-> None])
  <2>. DEFINE r == [at |-> s, batch |-> x, fresh |-> Free.fresh, bucket |-> Free.bucket]
  <2>1. [Free EXCEPT !.at = s, !.batch = x] = r
    BY FreeIsRequest, BatchChanges
  <2>2. r = [at |-> s, batch |-> x, fresh |-> {}, bucket |-> None]
    BY FreeIsRequest
  <2>3. r \in Request
    BY <1>3, FreeIsRequest DEF Request
  <2>. HIDE DEF r
  <2>4. Moved(h, r)
    BY <1>3, <2>1, <2>3, MovedBy
  <2>. QED BY <2>4, <2>2
<1>. QED BY <1>1, <1>2, <1>3

\* The steps of a handler, but for the answer.
LEMMA HandlerSteps ==
    ASSUME Shape, NEW h \in Handlers
    PROVE  /\ Post(h) => Moved(h, [at |-> "received", batch |-> Batch, fresh |-> {}, bucket |-> None])
           /\ Ingest(h) => Moved(h, [at |-> "stored", batch |-> handler[h].batch,
                                    fresh |-> Fresh(handler[h].batch), bucket |-> handler[h].bucket])
           /\ RunStrategy(h) => Moved(h, At(h, "retire"))
           /\ StrategyFails(h) => Moved(h, At(h, "alerts"))
           /\ Retire(h) => Moved(h, At(h, "alerts"))
           /\ ReadAlerts(h) => Moved(h, At(h, "reading")) \/ Moved(h, Free)
           /\ CommitAlert(h) => Moved(h, At(h, "push"))
           /\ PushAlert(h) => Moved(h, Free)
<1>0. handler \in [Handlers -> Request] /\ handler[h] \in Request
  BY DEF Shape, Request
<1>1. ASSUME Post(h)
      PROVE  Moved(h, [at |-> "received", batch |-> Batch, fresh |-> {}, bucket |-> None])
  <2>1. Batch \in Seq(Nat) /\ "received" \in Points
    BY BatchOf DEF Points
  <2>2. handler' = [handler EXCEPT ![h] = [Free EXCEPT !.at = "received", !.batch = Batch]]
    BY <1>1 DEF Post
  <2>. QED BY <2>1, <2>2, MovedAndChanged
<1>2. ASSUME Ingest(h)
      PROVE  Moved(h, [at |-> "stored", batch |-> handler[h].batch,
                       fresh |-> Fresh(handler[h].batch), bucket |-> handler[h].bucket])
  <2>1. Fresh(handler[h].batch) \subseteq Nat /\ "stored" \in Points
    BY <1>0 DEF Fresh, ToSet, Request, Points
  <2>2. handler' = [handler EXCEPT ![h].at = "stored", ![h].fresh = Fresh(handler[h].batch)]
    BY <1>2 DEF Ingest
  <2>. QED BY <2>1, <2>2, MovedAndChanged
<1>3. RunStrategy(h) => Moved(h, At(h, "retire"))
  BY MovedTo DEF RunStrategy, At, Points
<1>4. StrategyFails(h) => Moved(h, At(h, "alerts"))
  BY MovedTo DEF StrategyFails, At, Points
<1>5. Retire(h) => Moved(h, At(h, "alerts"))
  BY MovedTo DEF Retire, At, Points
<1>6. ASSUME ReadAlerts(h) PROVE Moved(h, At(h, "reading")) \/ Moved(h, Free)
  <2>1. CASE handler' = [handler EXCEPT ![h] = [handler[h] EXCEPT !.at = "reading"]]
    <3>1. handler' = [handler EXCEPT ![h].at = "reading"]
      BY <2>1, <1>0
    <3>. QED BY <3>1, MovedTo DEF At, Points
  <2>2. CASE handler' = [handler EXCEPT ![h] = Free]
    BY <2>2, MovedBy, FreeIsRequest
  <2>3. \/ handler' = [handler EXCEPT ![h] = [handler[h] EXCEPT !.at = "reading"]]
        \/ handler' = [handler EXCEPT ![h] = Free]
    BY <1>6, <1>0 DEF ReadAlerts
  <2>. QED BY <2>1, <2>2, <2>3
<1>7. CommitAlert(h) => Moved(h, At(h, "push"))
  BY MovedTo DEF CommitAlert, At, Points
<1>8. PushAlert(h) => Moved(h, Free)
  BY MovedBy, FreeIsRequest DEF PushAlert
<1>. QED BY <1>1, <1>2, <1>3, <1>4, <1>5, <1>6, <1>7, <1>8

\* The answer: a bucket has advanced, or there are new ticks only, or none.
LEMMA AnswerSteps ==
    ASSUME Shape, NEW h \in Handlers, NEW enqueued \in BOOLEAN,
           NEW b, b = NewestBucket(handler[h].fresh), AnswerWith(h, b, enqueued)
    PROVE  \/ /\ handler[h].fresh # {} /\ b > lastBucket /\ b \in Buckets
              /\ lastBucket' = b
              /\ job' = IF enqueued /\ job[b] = "none" THEN [job EXCEPT ![b] = "PENDING"] ELSE job
              /\ Moved(h, [at |-> "strategy", batch |-> handler[h].batch, fresh |-> handler[h].fresh,
                           bucket |-> IF enqueued THEN b ELSE None])
           \/ /\ handler[h].fresh # {} /\ b <= lastBucket
              /\ UNCHANGED <<lastBucket, job>>
              /\ Moved(h, At(h, "alerts"))
           \/ /\ handler[h].fresh = {}
              /\ UNCHANGED <<lastBucket, job>>
              /\ Moved(h, Free)
<1>0. handler \in [Handlers -> Request] /\ handler[h] \in Request
  BY DEF Shape, Request
<1>1. handler[h].fresh \in SUBSET DOMAIN feed
  BY DEF Shape
<1>a. /\ b \in Buckets \cup {None}
      /\ \A i \in handler[h].fresh : Bucket(i) \in Buckets
      /\ handler[h].fresh # {} => \E i \in handler[h].fresh : b = Bucket(i)
  BY <1>1, NewestBucketOf, BucketTypes
<1>b. lastBucket \in Buckets \cup {None} /\ Buckets \subseteq Nat
  BY BucketTypes DEF Shape
<1>2. b \in Buckets \cup {None} /\ lastBucket \in Buckets \cup {None} /\ Buckets \subseteq Nat
      /\ (handler[h].fresh # {} => b \in Buckets)
  <2>1. CASE handler[h].fresh = {}
    BY <2>1, <1>a, <1>b
  <2>2. CASE handler[h].fresh # {}
    <3>1. PICK i \in handler[h].fresh : b = Bucket(i)
      BY <2>2, <1>a
    <3>. QED BY <3>1, <1>a, <1>b
  <2>. QED BY <2>1, <2>2
<1>3. CASE handler[h].fresh # {} /\ b > lastBucket
  <2>. DEFINE k == IF enqueued THEN b ELSE None
  <2>1. k \in Buckets \cup {None} /\ "strategy" \in Points
    BY <1>2 DEF Points
  <2>2. handler' = [handler EXCEPT ![h] = [@ EXCEPT !.at = "strategy", !.bucket = k]]
    BY <1>3, <1>0 DEF AnswerWith
  <2>3. lastBucket' = b /\ job' = IF enqueued /\ job[b] = "none" THEN [job EXCEPT ![b] = "PENDING"] ELSE job
    BY <1>3 DEF AnswerWith
  <2>. HIDE DEF k
  <2>4. Moved(h, [at |-> "strategy", batch |-> handler[h].batch, fresh |-> handler[h].fresh, bucket |-> k])
    BY <2>1, <2>2, MovedAndChanged
  <2>5. b \in Buckets
    BY <1>2, <1>3
  <2>. QED BY <2>3, <2>4, <2>5, <1>3 DEF k
<1>4. CASE handler[h].fresh # {} /\ ~ (b > lastBucket)
  <2>1. handler' = [handler EXCEPT ![h] = [handler[h] EXCEPT !.at = "alerts"]] /\ UNCHANGED <<lastBucket, job>>
    BY <1>4, <1>0 DEF AnswerWith
  <2>2. handler' = [handler EXCEPT ![h].at = "alerts"]
    BY <2>1, <1>0
  <2>3. Moved(h, At(h, "alerts"))
    BY <2>2, MovedTo DEF At, Points
  <2>4. b <= lastBucket
    BY <1>4, <1>2 DEF None
  <2>. QED BY <2>1, <2>3, <2>4, <1>4
<1>5. CASE handler[h].fresh = {}
  <2>1. handler' = [handler EXCEPT ![h] = Free] /\ UNCHANGED <<lastBucket, job>>
    BY <1>5, <1>0 DEF AnswerWith
  <2>. QED BY <2>1, <1>5, MovedBy, FreeIsRequest
<1>. QED BY <1>3, <1>4, <1>5

\* What the sender makes of an answer keeps the types.
LEMMA AnsweredKeepsShape ==
    ASSUME Shape, NEW h \in Handlers, Answered(h)
    PROVE  /\ buffer' \in Seq(Nat) /\ \A p \in DOMAIN buffer' : buffer'[p] \in DOMAIN feed
           /\ post' \in [to : Handlers \cup {None}, n : Nat]
<1>1. buffer \in Seq(Nat) /\ (\A p \in DOMAIN buffer : buffer[p] \in DOMAIN feed) /\ post.n \in Nat
      /\ post \in [to : Handlers \cup {None}, n : Nat] /\ Idle \in [to : Handlers \cup {None}, n : Nat]
  BY DEF Shape, Idle
<1>2. CASE post.to = h
  <2>1. buffer' = SubSeq(buffer, post.n + 1, Len(buffer)) /\ post' = Idle
    BY <1>2 DEF Answered
  <2>2. buffer' \in Seq(Nat) /\ \A p \in DOMAIN buffer' : p + post.n \in DOMAIN buffer /\ buffer'[p] = buffer[p + post.n]
    BY <1>1, <2>1, Rest
  <2>. QED BY <1>1, <2>1, <2>2
<1>3. CASE post.to # h
  BY <1>1, <1>3 DEF Answered
<1>. QED BY <1>2, <1>3

\* A step of a handler keeps the types when it keeps those of all it changes.
LEMMA MovedKeepsShape ==
    ASSUME Shape, NEW h \in Handlers, NEW r \in Request, Moved(h, r),
           UNCHANGED <<clock, feed, collector>>,
           stored \subseteq stored', stored' \subseteq DOMAIN feed,
           \A p \in DOMAIN r.batch : r.batch[p] \in DOMAIN feed,
           r.fresh \subseteq stored',
           buffer' \in Seq(Nat), \A p \in DOMAIN buffer' : buffer'[p] \in DOMAIN feed,
           post' \in [to : Handlers \cup {None}, n : Nat],
           lastBucket' \in Buckets \cup {None},
           job' \in [Buckets -> {"none", "PENDING", "COMPLETED"}],
           spent' \in [late : Nat, other : Nat]
    PROVE  Shape'
<1>1. \A g \in Handlers : /\ \A p \in DOMAIN handler'[g].batch : handler'[g].batch[p] \in DOMAIN feed
                          /\ handler'[g].fresh \subseteq stored'
  <2>. TAKE g \in Handlers
  <2>1. CASE g = h
    BY <2>1 DEF Moved
  <2>2. CASE g # h
    BY <2>2 DEF Moved, Shape
  <2>. QED BY <2>1, <2>2
<1>2. Buckets' = Buckets /\ Request' = Request
  BY DEF Buckets, Request, None, Points
<1>3. handler' \in [Handlers -> Request]
  BY DEF Moved
<1>. QED BY <1>1, <1>2, <1>3 DEF Shape

\* The types are kept by every action.
LEMMA ShapeIsKept ==
    ASSUME Shape, [Next]_vars
    PROVE  Shape'
<1>. USE FeedTypes, BucketTypes, TickTimes
<1>1. CASE NewTick
  <2>1. /\ Len(feed') = Len(feed) + 1 /\ DOMAIN feed \subseteq DOMAIN feed'
        /\ DOMAIN feed' = DOMAIN feed \cup {Len(feed) + 1}
        /\ \A i \in DOMAIN feed : feed'[i] = feed[i]
        /\ feed'[Len(feed) + 1].t = clock
        /\ feed' \in Seq([t : Int, p : Int])
    BY <1>1, NewTickAppends
  <2>2. UNCHANGED <<clock, collector, buffer, post, handler, stored, candles, lastBucket, job, spent>>
    BY <1>1 DEF NewTick, bridge, trigger, alerting
  <2>3. clock \in Int /\ 0 <= clock
    BY DEF Shape
  <2>4. \A i \in DOMAIN feed' : 0 <= feed'[i].t /\ feed'[i].t <= clock
    <3>. TAKE i \in DOMAIN feed'
    <3>1. CASE i \in DOMAIN feed
      BY <3>1, <2>1 DEF Shape
    <3>2. CASE i = Len(feed) + 1
      BY <3>2, <2>1, <2>3
    <3>. QED BY <3>1, <3>2, <2>1
  <2>5. \A i, j \in DOMAIN feed' : i <= j => feed'[i].t <= feed'[j].t
    <3>. SUFFICES ASSUME NEW i \in DOMAIN feed', NEW j \in DOMAIN feed', i <= j
                  PROVE  feed'[i].t <= feed'[j].t
      OBVIOUS
    <3>1. CASE j \in DOMAIN feed
      <4>1. i \in DOMAIN feed
        BY <3>1, <2>1
      <4>. QED BY <4>1, <3>1, <2>1 DEF Shape
    <3>2. CASE j = Len(feed) + 1
      BY <3>2, <2>1, <2>4
    <3>. QED BY <3>1, <3>2, <2>1
  <2>6. Buckets' = Buckets
    BY DEF Buckets
  <2>7. collector \in [seen : Int, known : SUBSET DOMAIN feed']
    BY <2>1 DEF Shape
  <2>. QED BY <2>1, <2>2, <2>4, <2>5, <2>6, <2>7 DEF Shape
<1>2. CASE Pass
  <2>0. clock \in 0..MaxTime /\ clock < MaxTime /\ clock' = clock + 1
    BY <1>2 DEF Pass, Shape
  <2>1. clock' \in 0..MaxTime /\ clock <= clock'
    BY <2>0
  <2>2. UNCHANGED <<feed, collector, buffer, post, handler, stored, candles, lastBucket, job, spent>>
    BY <1>2 DEF Pass, bridge, trigger, alerting
  <2>3. \A i \in DOMAIN feed' : 0 <= feed'[i].t /\ feed'[i].t <= clock'
    <3>1. \A i \in DOMAIN feed : feed[i].t \in 0..MaxTime /\ feed[i].t <= clock
      OBVIOUS
    <3>. QED BY <2>0, <2>2, <3>1
  <2>. QED BY <2>1, <2>2, <2>3 DEF Shape, Buckets, Request
<1>3. ASSUME NEW since, NEW seen \in Int, NEW known \in SUBSET DOMAIN feed,
             NEW queue \in Seq(Nat), \A p \in DOMAIN queue : queue[p] \in DOMAIN feed,
             Collect(since, seen, known, queue),
             UNCHANGED <<clock, feed, handler, stored, lastBucket, job>>,
             post' \in {post, Idle}, spent' \in [late : Nat, other : Nat]
      PROVE  Shape'
  <2>1. /\ collector' \in [seen : Int, known : SUBSET DOMAIN feed]
        /\ buffer' \in Seq(Nat) /\ \A p \in DOMAIN buffer' : buffer'[p] \in DOMAIN feed
    BY <1>3, CollectKeepsShape
  <2>2. post' \in [to : Handlers \cup {None}, n : Nat]
    BY <1>3 DEF Shape, Idle
  <2>. QED BY <1>3, <2>1, <2>2 DEF Shape, Buckets, Request
<1>4. ASSUME NEW kind, Disturb(kind) PROVE spent' \in [late : Nat, other : Nat]
  <2>1. CASE kind = "timeout"
    <3>1. spent' = [spent EXCEPT !.late = spent.late + 1]
      BY <1>4, <2>1 DEF Disturb
    <3>2. spent \in [late : Nat, other : Nat] /\ spent.late \in Nat /\ spent.other \in Nat
      BY DEF Shape
    <3>. QED BY <3>1, <3>2
  <2>2. CASE kind # "timeout"
    <3>1. spent' = [spent EXCEPT !.other = spent.other + 1]
      BY <1>4, <2>2 DEF Disturb
    <3>2. spent \in [late : Nat, other : Nat] /\ spent.late \in Nat /\ spent.other \in Nat
      BY DEF Shape
    <3>. QED BY <3>1, <3>2
  <2>. QED BY <2>1, <2>2
<1>5. CASE Poll
  <2>1. collector.seen \in Int /\ collector.known \in SUBSET DOMAIN feed /\ buffer \in Seq(Nat)
        /\ \A p \in DOMAIN buffer : buffer[p] \in DOMAIN feed
    BY DEF Shape
  <2>2. /\ Collect(Since(collector.seen), collector.seen, collector.known, buffer)
        /\ UNCHANGED <<clock, feed, handler, stored, lastBucket, job>>
        /\ post' \in {post, Idle} /\ spent' \in [late : Nat, other : Nat]
    BY <1>5 DEF Poll, trigger, Shape
  <2>. QED BY <2>1, <2>2, <1>3
<1>6. CASE PollAfterSwitch
  <2>1. buffer \in Seq(Nat) /\ (\A p \in DOMAIN buffer : buffer[p] \in DOMAIN feed) /\ None \in Int
    BY DEF Shape
  <2>2. /\ Collect(Since(None), None, {}, buffer)
        /\ UNCHANGED <<clock, feed, handler, stored, lastBucket, job>>
        /\ post' \in {post, Idle}
    BY <1>6 DEF PollAfterSwitch, trigger
  <2>3. spent' \in [late : Nat, other : Nat]
    BY <1>6, <1>4 DEF PollAfterSwitch
  <2>. QED BY <2>1, <2>2, <2>3, <1>3
<1>7. CASE RestartBridge
  <2>1. << >> \in Seq(Nat) /\ DOMAIN << >> = {} /\ None \in Int
    OBVIOUS
  <2>2. /\ Collect(clock - Lookback, None, {}, << >>)
        /\ UNCHANGED <<clock, feed, handler, stored, lastBucket, job>>
        /\ post' \in {post, Idle}
    BY <1>7 DEF RestartBridge, trigger
  <2>3. spent' \in [late : Nat, other : Nat]
    BY <1>7, <1>4 DEF RestartBridge
  <2>. QED BY <2>1, <2>2, <2>3, <1>3
<1>8. CASE Timeout
  <2>1. spent' \in [late : Nat, other : Nat] /\ post' \in [to : Handlers \cup {None}, n : Nat]
    BY <1>8, <1>4 DEF Timeout, Idle
  <2>2. UNCHANGED <<clock, feed, collector, buffer, handler, stored, lastBucket, job>>
    BY <1>8 DEF Timeout, trigger
  <2>. QED BY <2>1, <2>2 DEF Shape, Buckets, Request
<1>9. \A h \in Handlers :
        /\ handler[h] \in Request /\ (\A p \in DOMAIN handler[h].batch : handler[h].batch[p] \in DOMAIN feed)
        /\ handler[h].fresh \subseteq stored /\ stored \subseteq DOMAIN feed
  BY DEF Shape
<1>10. /\ buffer \in Seq(Nat) /\ (\A p \in DOMAIN buffer : buffer[p] \in DOMAIN feed)
       /\ post \in [to : Handlers \cup {None}, n : Nat]
       /\ lastBucket \in Buckets \cup {None}
       /\ job \in [Buckets -> {"none", "PENDING", "COMPLETED"}]
       /\ spent \in [late : Nat, other : Nat]
       /\ stored \subseteq DOMAIN feed
  BY DEF Shape
<1>11. ASSUME NEW h \in Handlers, Post(h) PROVE Shape'
  <2>. DEFINE r == [at |-> "received", batch |-> Batch, fresh |-> {}, bucket |-> None]
  <2>1. /\ Batch \in Seq(Nat) /\ Len(Batch) \in Nat
        /\ \A p \in DOMAIN Batch : Batch[p] = buffer[p] /\ p \in DOMAIN buffer
    BY BatchOf
  <2>2. /\ post' = [to |-> h, n |-> Len(Batch)]
        /\ UNCHANGED <<clock, feed, collector, buffer, stored, lastBucket, job, spent>>
    BY <1>11 DEF Post, trigger
  <2>3. post' \in [to : Handlers \cup {None}, n : Nat]
    BY <2>1, <2>2
  <2>4. Moved(h, r)
    BY <1>11, HandlerSteps
  <2>5. r \in Request /\ (\A p \in DOMAIN r.batch : r.batch[p] \in DOMAIN feed) /\ r.fresh \subseteq stored
    BY <2>1, <1>10 DEF Request, Points
  <2>. HIDE DEF r
  <2>. QED BY <2>2, <2>3, <2>4, <2>5, <1>10, MovedKeepsShape
<1>12. ASSUME NEW h \in Handlers, Ingest(h) PROVE Shape'
  <2>. DEFINE f == Fresh(handler[h].batch)
              r == [at |-> "stored", batch |-> handler[h].batch, fresh |-> f, bucket |-> handler[h].bucket]
  <2>1. f \subseteq DOMAIN feed /\ stored' = stored \cup f /\ DOMAIN feed \subseteq Nat
    BY <1>12, <1>9 DEF Ingest, Fresh, ToSet
  <2>2. UNCHANGED <<clock, feed, collector, buffer, post, lastBucket, job, spent>>
    BY <1>12 DEF Ingest, bridge, trigger
  <2>3. Moved(h, r)
    BY <1>12, HandlerSteps
  <2>. HIDE DEF f
  <2>4. r \in Request /\ (\A p \in DOMAIN r.batch : r.batch[p] \in DOMAIN feed) /\ r.fresh \subseteq stored'
    BY <2>1, <1>9 DEF Request, Points
  <2>. HIDE DEF r
  <2>. QED BY <2>1, <2>2, <2>3, <2>4, <1>10, MovedKeepsShape
<1>13. ASSUME NEW h \in Handlers, NEW r, Moved(h, r), r = Free \/ \E s \in Points : r = At(h, s),
              UNCHANGED <<clock, feed, collector, buffer, post, stored, lastBucket>>,
              job' \in [Buckets -> {"none", "PENDING", "COMPLETED"}],
              spent' \in [late : Nat, other : Nat]
       PROVE  Shape'
  <2>1. r \in Request /\ (\A p \in DOMAIN r.batch : r.batch[p] \in DOMAIN feed) /\ r.fresh \subseteq stored
    <3>1. CASE r = Free
      BY <3>1, FreeIsRequest
    <3>2. ASSUME NEW s \in Points, r = At(h, s) PROVE r \in Request /\ r.batch = handler[h].batch /\ r.fresh = handler[h].fresh
      BY <3>2, <1>9 DEF At, Request
    <3>. QED BY <3>1, <3>2, <1>13, <1>9
  <2>. QED BY <2>1, <1>13, <1>10, MovedKeepsShape
<1>14. ASSUME NEW h \in Handlers, NEW enqueued \in BOOLEAN,
              AnswerWith(h, NewestBucket(handler[h].fresh), enqueued), Answered(h),
              UNCHANGED <<clock, feed, collector, stored>>, spent' \in [late : Nat, other : Nat]
       PROVE  Shape'
  <2>. DEFINE b == NewestBucket(handler[h].fresh)
  <2>1. /\ buffer' \in Seq(Nat) /\ (\A p \in DOMAIN buffer' : buffer'[p] \in DOMAIN feed)
        /\ post' \in [to : Handlers \cup {None}, n : Nat]
    BY <1>14, AnsweredKeepsShape
  <2>2. b \in Buckets \cup {None}
    BY <1>9, NewestBucketOf
  <2>. DEFINE r == [at |-> "strategy", batch |-> handler[h].batch, fresh |-> handler[h].fresh,
                    bucket |-> IF enqueued THEN b ELSE None]
  <2>3. \/ /\ b \in Buckets /\ lastBucket' = b
           /\ job' = IF enqueued /\ job[b] = "none" THEN [job EXCEPT ![b] = "PENDING"] ELSE job
           /\ Moved(h, r)
        \/ UNCHANGED <<lastBucket, job>> /\ Moved(h, At(h, "alerts"))
        \/ UNCHANGED <<lastBucket, job>> /\ Moved(h, Free)
    <3>1. AnswerWith(h, b, enqueued)
      BY <1>14
    <3>. QED BY <3>1, AnswerSteps
  <2>. HIDE DEF b
  <2>4. job' \in [Buckets -> {"none", "PENDING", "COMPLETED"}] /\ lastBucket' \in Buckets \cup {None}
    BY <2>3, <1>10
  <2>5. r \in Request /\ r.batch = handler[h].batch /\ r.fresh = handler[h].fresh
    BY <2>2, <1>9 DEF Request, Points
  <2>6. At(h, "alerts") \in Request /\ At(h, "alerts").batch = handler[h].batch
        /\ At(h, "alerts").fresh = handler[h].fresh
    BY <1>9 DEF At, Request, Points
  <2>. HIDE DEF r
  <2>7. CASE Moved(h, r)
    BY <2>7, <2>1, <2>4, <2>5, <1>9, <1>14, MovedKeepsShape
  <2>8. CASE Moved(h, At(h, "alerts"))
    BY <2>8, <2>1, <2>4, <2>6, <1>9, <1>14, MovedKeepsShape
  <2>9. CASE Moved(h, Free)
    BY <2>9, <2>1, <2>4, FreeIsRequest, <1>9, <1>14, MovedKeepsShape
  <2>. QED BY <2>3, <2>7, <2>8, <2>9
<1>15. ASSUME NEW h \in Handlers, Answer(h) PROVE Shape'
  <2>1. /\ AnswerWith(h, NewestBucket(handler[h].fresh), TRUE) /\ Answered(h)
        /\ UNCHANGED <<clock, feed, collector, stored, spent>>
    BY <1>15 DEF Answer
  <2>. QED BY <2>1, <1>10, <1>14
<1>16. ASSUME NEW h \in Handlers, AnswerWithoutFallback(h) PROVE Shape'
  <2>1. /\ AnswerWith(h, NewestBucket(handler[h].fresh), FALSE) /\ Answered(h)
        /\ UNCHANGED <<clock, feed, collector, stored>> /\ Disturb("enqueue")
    BY <1>16 DEF AnswerWithoutFallback
  <2>. QED BY <2>1, <1>4, <1>14
<1>17. ASSUME NEW h \in Handlers, RunStrategy(h) PROVE Shape'
  <2>1. Moved(h, At(h, "retire")) /\ "retire" \in Points
    BY <1>17, HandlerSteps DEF Points
  <2>2. UNCHANGED <<clock, feed, collector, buffer, post, stored, lastBucket, job, spent>>
    BY <1>17 DEF RunStrategy, bridge
  <2>. QED BY <2>1, <2>2, <1>10, <1>13
<1>18. ASSUME NEW h \in Handlers, StrategyFails(h) PROVE Shape'
  <2>1. Moved(h, At(h, "alerts")) /\ "alerts" \in Points
    BY <1>18, HandlerSteps DEF Points
  <2>2. UNCHANGED <<clock, feed, collector, buffer, post, stored, lastBucket, job>> /\ Disturb("strategy")
    BY <1>18 DEF StrategyFails, bridge, trigger
  <2>. QED BY <2>1, <2>2, <1>4, <1>10, <1>13
<1>19. ASSUME NEW h \in Handlers, Retire(h) PROVE Shape'
  <2>1. Moved(h, At(h, "alerts")) /\ "alerts" \in Points
    BY <1>19, HandlerSteps DEF Points
  <2>2. UNCHANGED <<clock, feed, collector, buffer, post, stored, lastBucket, spent>>
        /\ job' = Retired(handler[h].bucket)
    BY <1>19 DEF Retire, bridge
  <2>3. job' \in [Buckets -> {"none", "PENDING", "COMPLETED"}]
    BY <2>2, <1>10 DEF Retired
  <2>. QED BY <2>1, <2>2, <2>3, <1>10, <1>13
<1>20. ASSUME NEW h \in Handlers, ReadAlerts(h) PROVE Shape'
  <2>1. (Moved(h, At(h, "reading")) \/ Moved(h, Free)) /\ "reading" \in Points
    BY <1>20, HandlerSteps DEF Points
  <2>2. UNCHANGED <<clock, feed, collector, buffer, post, stored, lastBucket, job, spent>>
    BY <1>20 DEF ReadAlerts, bridge, trigger
  <2>. QED BY <2>1, <2>2, <1>10, <1>13
<1>21. ASSUME NEW h \in Handlers, CommitAlert(h) PROVE Shape'
  <2>1. Moved(h, At(h, "push")) /\ "push" \in Points
    BY <1>21, HandlerSteps DEF Points
  <2>2. UNCHANGED <<clock, feed, collector, buffer, post, stored, lastBucket, job, spent>>
    BY <1>21 DEF CommitAlert, bridge, trigger
  <2>. QED BY <2>1, <2>2, <1>10, <1>13
<1>22. ASSUME NEW h \in Handlers, PushAlert(h) PROVE Shape'
  <2>1. Moved(h, Free)
    BY <1>22, HandlerSteps
  <2>2. UNCHANGED <<clock, feed, collector, buffer, post, stored, lastBucket, job, spent>>
    BY <1>22 DEF PushAlert, bridge, trigger
  <2>. QED BY <2>1, <2>2, <1>10, <1>13
<1>23. ASSUME NEW b \in Buckets, RunFallback(b) PROVE Shape'
  <2>1. UNCHANGED <<clock, feed, collector, buffer, post, handler, stored, lastBucket, spent>>
        /\ job' = [job EXCEPT ![b] = "COMPLETED"]
    BY <1>23 DEF RunFallback, bridge
  <2>2. job' \in [Buckets -> {"none", "PENDING", "COMPLETED"}]
    BY <2>1, <1>10
  <2>. QED BY <2>1, <2>2 DEF Shape, Buckets, Request
<1>24. CASE BeginCancel \/ CommitCancel
  <2>1. UNCHANGED <<clock, feed, collector, buffer, post, handler, stored, lastBucket, job>>
    BY <1>24 DEF BeginCancel, CommitCancel, bridge, trigger
  <2>2. spent' \in [late : Nat, other : Nat]
    BY <1>24, <1>4, <1>10 DEF BeginCancel, CommitCancel
  <2>. QED BY <2>1, <2>2 DEF Shape, Buckets, Request
<1>25. CASE Crash
  <2>1. /\ UNCHANGED <<clock, feed, collector, buffer, stored, job>>
        /\ handler' = [h \in Handlers |-> Free] /\ post' = Idle /\ lastBucket' = None
    BY <1>25 DEF Crash
  <2>2. spent' \in [late : Nat, other : Nat]
    BY <1>25, <1>4 DEF Crash
  <2>3. /\ handler' \in [Handlers -> Request]
        /\ \A h \in Handlers : /\ \A p \in DOMAIN handler'[h].batch : handler'[h].batch[p] \in DOMAIN feed
                               /\ handler'[h].fresh \subseteq stored
    BY <2>1, FreeIsRequest
  <2>4. post' \in [to : Handlers \cup {None}, n : Nat]
    BY <2>1 DEF Idle
  <2>. QED BY <2>1, <2>2, <2>3, <2>4 DEF Shape, Buckets, Request
<1>26. CASE UNCHANGED vars
  BY <1>26 DEF vars, bridge, trigger, alerting, Shape, Buckets, Request
<1>. QED
  BY <1>1, <1>2, <1>5, <1>6, <1>7, <1>8, <1>11, <1>12, <1>15, <1>16, <1>17, <1>18, <1>19, <1>20,
     <1>21, <1>22, <1>23, <1>24, <1>25, <1>26 DEF Next, Serve

----------------------------------------------------------------------------
(* The candles.                                                            *)

\* What a candle says of its ticks.
Summary(c, S) ==
  /\ c.count = Cardinality(S)
  /\ \A i \in S : /\ c.low <= feed[i].p /\ feed[i].p <= c.high
                  /\ c.first <= feed[i].t /\ feed[i].t <= c.last
  /\ \E i \in S : feed[i].p = c.low
  /\ \E i \in S : feed[i].p = c.high
  /\ \E i \in S : feed[i].t = c.first /\ feed[i].p = c.open
  /\ \E i \in S : feed[i].t = c.last /\ feed[i].p = c.close

\* The ticks of a candle.
TicksOf(b) == {i \in stored : Bucket(i) = b}

\* Every candle sums up the stored ticks of its bucket.
CandlesSumUp ==
  /\ DOMAIN candles \subseteq Buckets
  /\ \A b \in Buckets : b \in DOMAIN candles <=> TicksOf(b) # {}
  /\ \A b \in DOMAIN candles : Summary(candles[b], TicksOf(b))

\* The greater and the lesser of two numbers.
LEMMA OfTwo ==
    ASSUME NEW x \in Int, NEW y \in Int
    PROVE  /\ Max({x, y}) = IF x >= y THEN x ELSE y
           /\ Min({x, y}) = IF x <= y THEN x ELSE y
<1>1. IsFiniteSet({x, y}) /\ {x, y} \in SUBSET Int /\ {x, y} # {}
  <2>1. IsFiniteSet({x} \cup {y})
    BY FS_Singleton, FS_AddElement
  <2>2. {x} \cup {y} = {x, y}
    OBVIOUS
  <2>. QED BY <2>1, <2>2
<1>2. Max({x, y}) \in {x, y} /\ x <= Max({x, y}) /\ y <= Max({x, y})
  BY <1>1, MaxIsGreatest
<1>3. Min({x, y}) \in {x, y} /\ Min({x, y}) <= x /\ Min({x, y}) <= y
  BY <1>1, MinIsLeast
<1>. QED BY <1>2, <1>3

\* The names of ticks are in the order of their time.
LEMMA EndsOfTicks ==
    ASSUME Shape, NEW S \in SUBSET DOMAIN feed, S # {}
    PROVE  /\ Min(S) \in S /\ Max(S) \in S
           /\ \A i \in S : /\ Min(S) <= i /\ i <= Max(S)
                           /\ feed[Min(S)].t <= feed[i].t /\ feed[i].t <= feed[Max(S)].t
<1>1. IsFiniteSet(S) /\ S \in SUBSET Int
  BY TicksAreFinite
<1>2. Min(S) \in S /\ Max(S) \in S /\ \A i \in S : Min(S) <= i /\ i <= Max(S)
  BY <1>1, MinIsLeast, MaxIsGreatest
<1>. QED BY <1>2 DEF Shape

\* The least and the greatest price of some ticks.
LEMMA EndsOfPrices ==
    ASSUME Shape, NEW S \in SUBSET DOMAIN feed, S # {}, NEW V, V = {Price(i) : i \in S}
    PROVE  /\ \E i \in S : feed[i].p = Min(V)
           /\ \E i \in S : feed[i].p = Max(V)
           /\ \A i \in S : Min(V) <= feed[i].p /\ feed[i].p <= Max(V)
<1>1. V \in SUBSET Int /\ V # {}
  BY TickTimes DEF Price
<1>2. IsFiniteSet(V)
  <2>1. IsFiniteSet(S)
    BY TicksAreFinite
  <2>. DEFINE f == [i \in S |-> Price(i)]
  <2>2. f \in Surjection(S, V)
    BY DEF Surjection
  <2>. HIDE DEF f
  <2>. QED BY <2>1, <2>2, FS_Surjection
<1>3. Min(V) \in V /\ Max(V) \in V /\ \A y \in V : Min(V) <= y /\ y <= Max(V)
  BY <1>1, <1>2, MinIsLeast, MaxIsGreatest
<1>. QED BY <1>3 DEF Price

\* The candle of some ticks sums them up.
LEMMA BuiltIsSummary ==
    ASSUME Shape, NEW S \in SUBSET DOMAIN feed, S # {}
    PROVE  Summary(Built(S), S)
<1>. DEFINE V == {Price(i) : i \in S}
<1>1. /\ Min(S) \in S /\ Max(S) \in S
      /\ \A i \in S : feed[Min(S)].t <= feed[i].t /\ feed[i].t <= feed[Max(S)].t
  BY EndsOfTicks
<1>2. /\ \E i \in S : feed[i].p = Min(V)
      /\ \E i \in S : feed[i].p = Max(V)
      /\ \A i \in S : Min(V) <= feed[i].p /\ feed[i].p <= Max(V)
  BY EndsOfPrices
<1>3. /\ Built(S).count = Cardinality(S) /\ Built(S).low = Min(V) /\ Built(S).high = Max(V)
      /\ Built(S).first = feed[Min(S)].t /\ Built(S).last = feed[Max(S)].t
      /\ Built(S).open = feed[Min(S)].p /\ Built(S).close = feed[Max(S)].p
  BY DEF Built, Price
<1>. HIDE DEF V
<1>. QED BY <1>1, <1>2, <1>3 DEF Summary

\* A merged candle sums up the ticks of both.
LEMMA UpsertedIsSummary ==
    ASSUME Shape, NEW S \in SUBSET DOMAIN feed, NEW T \in SUBSET DOMAIN feed, S \cap T = {},
           S # {}, T # {}, NEW c, NEW d, Summary(c, S), Summary(d, T)
    PROVE  Summary(Upserted(c, d), S \cup T)
<1>0. \A i \in S \cup T : feed[i].t \in Int /\ feed[i].p \in Int
  BY TickTimes
<1>1. /\ c.low \in Int /\ c.high \in Int /\ c.first \in Int /\ c.last \in Int
      /\ d.low \in Int /\ d.high \in Int /\ d.first \in Int /\ d.last \in Int
  BY <1>0 DEF Summary
<1>2. Cardinality(S \cup T) = Cardinality(S) + Cardinality(T)
  <2>1. IsFiniteSet(S) /\ IsFiniteSet(T)
    BY TicksAreFinite
  <2>2. Cardinality(S \cup T) = Cardinality(S) + Cardinality(T) - Cardinality(S \cap T)
    BY <2>1, FS_Union
  <2>3. Cardinality(S \cap T) = 0 /\ Cardinality(S) \in Nat /\ Cardinality(T) \in Nat
    BY <2>1, FS_EmptySet, FS_CardinalityType
  <2>. QED BY <2>2, <2>3
<1>. DEFINE u == Upserted(c, d)
<1>3. /\ u.count = c.count + d.count
      /\ u.open = IF d.first <= c.first THEN d.open ELSE c.open
      /\ u.close = IF d.last >= c.last THEN d.close ELSE c.close
      /\ u.high = IF c.high >= d.high THEN c.high ELSE d.high
      /\ u.low = IF c.low <= d.low THEN c.low ELSE d.low
      /\ u.first = IF c.first <= d.first THEN c.first ELSE d.first
      /\ u.last = IF c.last >= d.last THEN c.last ELSE d.last
  BY <1>1, OfTwo DEF Upserted
<1>. HIDE DEF u
<1>4. u.count = Cardinality(S \cup T)
  BY <1>2, <1>3 DEF Summary
<1>5. ASSUME NEW i \in S \cup T
      PROVE  /\ u.low <= feed[i].p /\ feed[i].p <= u.high
             /\ u.first <= feed[i].t /\ feed[i].t <= u.last
  <2>1. CASE i \in S
    <3>1. c.low <= feed[i].p /\ feed[i].p <= c.high /\ c.first <= feed[i].t /\ feed[i].t <= c.last
      BY <2>1 DEF Summary
    <3>. QED BY <3>1, <1>0, <1>1, <1>3
  <2>2. CASE i \in T
    <3>1. d.low <= feed[i].p /\ feed[i].p <= d.high /\ d.first <= feed[i].t /\ feed[i].t <= d.last
      BY <2>2 DEF Summary
    <3>. QED BY <3>1, <1>0, <1>1, <1>3
  <2>. QED BY <2>1, <2>2
<1>6. (\E i \in S \cup T : feed[i].p = u.low) /\ (\E i \in S \cup T : feed[i].p = u.high)
  <2>1. /\ \E i \in S : feed[i].p = c.low
        /\ \E i \in S : feed[i].p = c.high
        /\ \E i \in T : feed[i].p = d.low
        /\ \E i \in T : feed[i].p = d.high
    BY DEF Summary
  <2>. QED BY <2>1, <1>3
<1>7. \E i \in S \cup T : feed[i].t = u.first /\ feed[i].p = u.open
  <2>1. PICK i \in S : feed[i].t = c.first /\ feed[i].p = c.open
    BY DEF Summary
  <2>2. PICK j \in T : feed[j].t = d.first /\ feed[j].p = d.open
    BY DEF Summary
  <2>3. CASE d.first <= c.first
    <3>1. u.first = d.first /\ u.open = d.open
      BY <2>3, <1>1, <1>3
    <3>. QED BY <3>1, <2>2
  <2>4. CASE ~ (d.first <= c.first)
    <3>1. u.first = c.first /\ u.open = c.open
      BY <2>4, <1>1, <1>3
    <3>. QED BY <3>1, <2>1
  <2>. QED BY <2>3, <2>4
<1>8. \E i \in S \cup T : feed[i].t = u.last /\ feed[i].p = u.close
  <2>1. PICK i \in S : feed[i].t = c.last /\ feed[i].p = c.close
    BY DEF Summary
  <2>2. PICK j \in T : feed[j].t = d.last /\ feed[j].p = d.close
    BY DEF Summary
  <2>3. CASE d.last >= c.last
    <3>1. u.last = d.last /\ u.close = d.close
      BY <2>3, <1>1, <1>3
    <3>. QED BY <3>1, <2>2
  <2>4. CASE ~ (d.last >= c.last)
    <3>1. u.last = c.last /\ u.close = c.close
      BY <2>4, <1>1, <1>3
    <3>. QED BY <3>1, <2>1
  <2>. QED BY <2>3, <2>4
<1>. QED BY <1>4, <1>5, <1>6, <1>7, <1>8 DEF Summary, u

\* Ticks have one summary, but for the open and the close of equal times.
LEMMA SummaryIsCandle ==
    ASSUME Shape, NEW S \in SUBSET DOMAIN feed, S # {}, NEW c, Summary(c, S)
    PROVE  LET all == Built(S)
           IN /\ c.count = Cardinality(S)
              /\ c.high = all.high /\ c.low = all.low
              /\ c.first = all.first /\ c.last = all.last
              /\ \E i \in S : feed[i].t = all.first /\ Price(i) = c.open
              /\ \E i \in S : feed[i].t = all.last /\ Price(i) = c.close
<1>1. Summary(Built(S), S)
  BY BuiltIsSummary
<1>. DEFINE d == Built(S)
<1>. HIDE DEF d
<1>2. Summary(d, S)
  BY <1>1 DEF d
<1>3. \A i \in S : feed[i].t \in Int /\ feed[i].p \in Int
  BY TickTimes
<1>4. c.high = d.high /\ c.low = d.low /\ c.first = d.first /\ c.last = d.last
  BY <1>2, <1>3 DEF Summary
<1>5. /\ c.count = Cardinality(S)
      /\ \E i \in S : feed[i].t = d.first /\ Price(i) = c.open
      /\ \E i \in S : feed[i].t = d.last /\ Price(i) = c.close
  BY <1>4 DEF Summary, Price
<1>. QED BY <1>4, <1>5 DEF d

\* A step that leaves the table of the ticks and the candles alone.
LEMMA QuietForCandles ==
    ASSUME Shape, CandlesSumUp, UNCHANGED <<stored, candles>>,
           DOMAIN feed \subseteq DOMAIN feed', \A i \in DOMAIN feed : feed'[i] = feed[i]
    PROVE  CandlesSumUp'
<1>1. stored \subseteq DOMAIN feed /\ Buckets' = Buckets
  BY DEF Shape, Buckets
<1>2. \A i \in stored : feed'[i] = feed[i] /\ Bucket(i)' = Bucket(i)
  BY <1>1 DEF Bucket
<1>3. \A b \in Buckets : TicksOf(b)' = TicksOf(b)
  BY <1>2 DEF TicksOf
<1>4. ASSUME NEW c, NEW S \in SUBSET stored, Summary(c, S) PROVE Summary(c, S)'
  BY <1>2, <1>4 DEF Summary
<1>5. \A b \in DOMAIN candles : Summary(candles[b], TicksOf(b))'
  <2>. TAKE b \in DOMAIN candles
  <2>. DEFINE S == TicksOf(b)
  <2>1. S \in SUBSET stored /\ Summary(candles[b], S)
    BY DEF TicksOf, CandlesSumUp
  <2>2. Summary(candles[b], TicksOf(b)) /\ b \in Buckets
    BY DEF CandlesSumUp
  <2>3. \A i \in TicksOf(b) : feed'[i] = feed[i]
    BY <1>2 DEF TicksOf
  <2>. QED BY <2>2, <2>3, <1>3 DEF Summary
<1>. QED BY <1>1, <1>3, <1>5 DEF CandlesSumUp

\* The candles take the new ticks of a batch, each of them once.
LEMMA IngestSumsUp ==
    ASSUME Shape, CandlesSumUp, NEW h \in Handlers, Ingest(h)
    PROVE  CandlesSumUp'
<1>. DEFINE f == Fresh(handler[h].batch)
            new(b) == {i \in f : Bucket(i) = b}
            touched == {Bucket(i) : i \in f}
<1>1. /\ f \subseteq DOMAIN feed /\ f \cap stored = {} /\ stored' = stored \cup f
      /\ candles' = Aggregated(f) /\ feed' = feed
  BY DEF Ingest, Fresh, ToSet, Shape
<1>. HIDE DEF f
<1>2. stored \subseteq DOMAIN feed /\ Buckets' = Buckets /\ touched \subseteq Buckets
  <2>1. stored \subseteq DOMAIN feed
    BY DEF Shape
  <2>2. touched \subseteq Buckets
    BY <1>1, BucketTypes
  <2>. QED BY <2>1, <2>2 DEF Buckets
<1>3. \A i : Bucket(i)' = Bucket(i)
  BY <1>1 DEF Bucket
<1>4. \A b : TicksOf(b)' = TicksOf(b) \cup new(b)
  BY <1>1, <1>3 DEF TicksOf
<1>5. \A c, S : Summary(c, S)' <=> Summary(c, S)
  BY <1>1 DEF Summary
<1>6. /\ DOMAIN candles' = DOMAIN candles \cup touched
      /\ \A b \in DOMAIN candles \cup touched :
           candles'[b] = IF b \notin touched THEN candles[b]
                         ELSE IF b \in DOMAIN candles THEN Upserted(candles[b], Built(new(b)))
                         ELSE Built(new(b))
  BY <1>1 DEF Aggregated
<1>7. \A b : b \in touched <=> new(b) # {}
  OBVIOUS
<1>8. \A b : new(b) \in SUBSET DOMAIN feed /\ TicksOf(b) \in SUBSET DOMAIN feed /\ TicksOf(b) \cap new(b) = {}
  BY <1>1, <1>2 DEF TicksOf
<1>9. /\ DOMAIN candles \subseteq Buckets
      /\ \A b \in Buckets : b \in DOMAIN candles <=> TicksOf(b) # {}
      /\ \A b \in DOMAIN candles : Summary(candles[b], TicksOf(b))
  BY DEF CandlesSumUp
<1>. HIDE DEF touched, new
<1>10. \A b \in Buckets : b \in DOMAIN candles' <=> TicksOf(b)' # {}
  BY <1>4, <1>6, <1>7, <1>9
<1>11. ASSUME NEW b \in DOMAIN candles' PROVE Summary(candles'[b], TicksOf(b) \cup new(b))
  <2>1. CASE b \notin touched
    <3>1. new(b) = {} /\ b \in DOMAIN candles /\ candles'[b] = candles[b]
      BY <2>1, <1>6, <1>7, <1>11
    <3>. QED BY <3>1, <1>9
  <2>2. CASE b \in touched /\ b \notin DOMAIN candles
    <3>1. new(b) # {} /\ candles'[b] = Built(new(b)) /\ TicksOf(b) = {}
      BY <2>2, <1>2, <1>6, <1>7, <1>9
    <3>2. Summary(Built(new(b)), new(b))
      BY <3>1, <1>8, BuiltIsSummary
    <3>. QED BY <3>1, <3>2
  <2>3. CASE b \in touched /\ b \in DOMAIN candles
    <3>1. new(b) # {} /\ candles'[b] = Upserted(candles[b], Built(new(b))) /\ TicksOf(b) # {}
          /\ Summary(candles[b], TicksOf(b))
      BY <2>3, <1>2, <1>6, <1>7, <1>9
    <3>2. Summary(Built(new(b)), new(b))
      BY <3>1, <1>8, BuiltIsSummary
    <3>. QED BY <3>1, <3>2, <1>8, UpsertedIsSummary
  <2>. QED BY <2>1, <2>2, <2>3
<1>12. \A b \in DOMAIN candles' : Summary(candles[b], TicksOf(b))'
  BY <1>4, <1>5, <1>11
<1>13. DOMAIN candles' \subseteq Buckets
  BY <1>2, <1>6, <1>9
<1>. QED BY <1>2, <1>10, <1>12, <1>13 DEF CandlesSumUp

\* Only a poll, an answer, a new tick and the passing of time touch what is neither
\* the tables nor the requests; what does not ingest leaves table and candles alone.
LEMMA OnlyIngestStores ==
    ASSUME Shape, [Next]_vars, \A h \in Handlers : ~ Ingest(h)
    PROVE  /\ UNCHANGED <<stored, candles>>
           /\ DOMAIN feed \subseteq DOMAIN feed' /\ \A i \in DOMAIN feed : feed'[i] = feed[i]
<1>1. CASE NewTick
  <2>1. DOMAIN feed \subseteq DOMAIN feed' /\ \A i \in DOMAIN feed : feed'[i] = feed[i]
    BY <1>1, NewTickAppends
  <2>. QED BY <1>1, <2>1 DEF NewTick
<1>2. CASE Pass \/ Poll \/ PollAfterSwitch \/ RestartBridge \/ Timeout
  BY <1>2 DEF Pass, Poll, PollAfterSwitch, RestartBridge, Timeout
<1>3. ASSUME NEW h \in Handlers, Post(h) \/ Serve(h) \/ AnswerWithoutFallback(h) \/ StrategyFails(h)
      PROVE  UNCHANGED <<stored, candles, feed>>
  BY <1>3 DEF Post, Serve, AnswerWithoutFallback, StrategyFails, Answer, RunStrategy, Retire,
              ReadAlerts, CommitAlert, PushAlert
<1>4. ASSUME NEW b \in Buckets, RunFallback(b) PROVE UNCHANGED <<stored, candles, feed>>
  BY <1>4 DEF RunFallback
<1>5. CASE BeginCancel \/ CommitCancel \/ Crash \/ UNCHANGED vars
  BY <1>5 DEF BeginCancel, CommitCancel, Crash, vars
<1>. QED BY <1>1, <1>2, <1>3, <1>4, <1>5 DEF Next

\* Every step keeps the candles summed up.
LEMMA SumUpIsKept == Shape /\ CandlesSumUp /\ [Next]_vars => CandlesSumUp'
<1>. SUFFICES ASSUME Shape, CandlesSumUp, [Next]_vars PROVE CandlesSumUp'
  OBVIOUS
<1>1. CASE \E h \in Handlers : Ingest(h)
  BY <1>1, IngestSumsUp
<1>2. CASE \A h \in Handlers : ~ Ingest(h)
  BY <1>2, OnlyIngestStores, QuietForCandles
<1>. QED BY <1>1, <1>2

\* The types hold in every reachable state.
THEOREM FeedIsWellShaped == Spec => []Shape
<1>1. Init => Shape
  BY InitShape
<1>2. Shape /\ [Next]_vars => Shape'
  BY ShapeIsKept
<1>. QED BY <1>1, <1>2, PTL DEF Spec

\* The candles sum up their ticks in every reachable state.
LEMMA CandlesSumUpAlways == Spec => []CandlesSumUp
<1>1. Init => CandlesSumUp
  BY DEF Init, CandlesSumUp, TicksOf
<1>. QED BY <1>1, SumUpIsKept, FeedIsWellShaped, PTL DEF Spec

\* Whatever is lost, repeated or restarted, a candle is the candle of the ticks in
\* the table, each counted once (CandlesAreTheirTicks).
THEOREM CandlesCountOnce == Spec => []CandlesAreTheirTicks
<1>1. ASSUME Shape, CandlesSumUp PROVE CandlesAreTheirTicks
  <2>1. ASSUME NEW b \in Buckets, TicksOf(b) # {}
        PROVE  /\ TicksOf(b) \in SUBSET DOMAIN feed
               /\ b \in DOMAIN candles /\ Summary(candles[b], TicksOf(b))
    BY <1>1, <2>1 DEF CandlesSumUp, TicksOf, Shape
  <2>2. ASSUME NEW b \in Buckets, TicksOf(b) # {}
        PROVE  LET all == Built(TicksOf(b))
               IN /\ b \in DOMAIN candles
                  /\ candles[b].count = Cardinality(TicksOf(b))
                  /\ candles[b].high = all.high /\ candles[b].low = all.low
                  /\ candles[b].first = all.first /\ candles[b].last = all.last
                  /\ \E i \in TicksOf(b) : feed[i].t = all.first /\ Price(i) = candles[b].open
                  /\ \E i \in TicksOf(b) : feed[i].t = all.last /\ Price(i) = candles[b].close
    BY <1>1, <2>1, <2>2, SummaryIsCandle
  <2>. QED BY <2>2 DEF CandlesAreTheirTicks, TicksOf
<1>. QED BY <1>1, FeedIsWellShaped, CandlesSumUpAlways, PTL

----------------------------------------------------------------------------
(* The alert.                                                              *)

Armed == alert = [status |-> "ACTIVE", deleted |-> FALSE]

Deciding(h) == handler[h].at \in {"reading", "push"}

\* One request at most has decided to notify, the alert is no longer armed when the
\* decision is committed, and is never armed again.
OneDecides ==
  /\ alert \in [status : {"ACTIVE", "TRIGGERED", "CANCELLED"}, deleted : BOOLEAN]
  /\ pushes \in {0, 1}
  /\ \A g, h \in Handlers : Deciding(g) /\ Deciding(h) => g = h
  /\ \A h \in Handlers : Deciding(h) => pushes = 0
  /\ \A h \in Handlers : handler[h].at = "push" => ~ Armed
  /\ pushes = 1 => ~ Armed

\* A step that leaves the alert alone, of a handler that decides nothing.
LEMMA QuietStep ==
    ASSUME Shape, OneDecides, NEW h \in Handlers, NEW r, Moved(h, r),
           r.at \notin {"reading", "push"}, UNCHANGED <<alert, pushes>>
    PROVE  OneDecides'
<1>1. \A g \in Handlers : /\ Deciding(g)' => Deciding(g)
                          /\ (handler[g].at = "push")' => handler[g].at = "push"
  <2>. TAKE g \in Handlers
  <2>1. CASE g = h
    BY <2>1 DEF Moved, Deciding
  <2>2. CASE g # h
    BY <2>2 DEF Moved, Deciding
  <2>. QED BY <2>1, <2>2
<1>2. Armed' <=> Armed
  BY DEF Armed
<1>. QED BY <1>1, <1>2 DEF OneDecides

\* An answer leaves the alert alone and keeps the new ticks with the request.
LEMMA AnsweringIsQuiet ==
    ASSUME Shape, NEW h \in Handlers, Answer(h) \/ AnswerWithoutFallback(h)
    PROVE  /\ UNCHANGED <<alert, cancelling, pushes>>
           /\ \E r \in Request :
                /\ Moved(h, r) /\ r.at \in {"strategy", "alerts", "free"}
                /\ handler[h].fresh # {} => r.at # "free" /\ r.fresh = handler[h].fresh
<1>1. PICK enqueued \in BOOLEAN : AnswerWith(h, NewestBucket(handler[h].fresh), enqueued)
  BY DEF Answer, AnswerWithoutFallback
<1>. DEFINE b == NewestBucket(handler[h].fresh)
            r == [at |-> "strategy", batch |-> handler[h].batch, fresh |-> handler[h].fresh,
                  bucket |-> IF enqueued THEN b ELSE None]
<1>0. handler[h] \in Request /\ b \in Buckets \cup {None}
  <2>1. handler[h].fresh \in SUBSET DOMAIN feed
    BY DEF Shape
  <2>2. b \in Buckets \cup {None}
    BY <2>1, NewestBucketOf
  <2>. QED BY <2>2 DEF Shape
<1>2. \/ Moved(h, r)
      \/ handler[h].fresh # {} /\ Moved(h, At(h, "alerts"))
      \/ handler[h].fresh = {} /\ Moved(h, Free)
  BY <1>1, AnswerSteps
<1>. HIDE DEF b
<1>3. r \in Request /\ r.at = "strategy" /\ r.fresh = handler[h].fresh
  BY <1>0 DEF Request, Points
<1>. HIDE DEF r
<1>4. At(h, "alerts") \in Request /\ At(h, "alerts").at = "alerts" /\ At(h, "alerts").fresh = handler[h].fresh
  BY <1>0 DEF At, Request, Points
<1>5. \E q \in Request :
                /\ Moved(h, q) /\ q.at \in {"strategy", "alerts", "free"}
                /\ handler[h].fresh # {} => q.at # "free" /\ q.fresh = handler[h].fresh
  <2>1. CASE Moved(h, r)
    BY <2>1, <1>3
  <2>2. CASE handler[h].fresh # {} /\ Moved(h, At(h, "alerts"))
    BY <2>2, <1>4
  <2>3. CASE handler[h].fresh = {} /\ Moved(h, Free)
    BY <2>3, FreeIsRequest
  <2>. QED BY <1>2, <2>1, <2>2, <2>3
<1>. QED BY <1>5 DEF Answer, AnswerWithoutFallback, alerting

\* Every step leaves at most one request deciding.
LEMMA OneDecidesIsKept == Shape /\ OneDecides /\ [Next]_vars => OneDecides'
<1>. SUFFICES ASSUME Shape, OneDecides, [Next]_vars PROVE OneDecides'
  OBVIOUS
<1>1. CASE UNCHANGED <<handler, alert, pushes>>
  BY <1>1 DEF OneDecides, Deciding, Armed
<1>2. CASE NewTick \/ Pass \/ Poll \/ PollAfterSwitch \/ RestartBridge \/ Timeout \/ BeginCancel
           \/ UNCHANGED vars \/ \E b \in Buckets : RunFallback(b)
  BY <1>1, <1>2 DEF NewTick, Pass, Poll, PollAfterSwitch, RestartBridge, Timeout, BeginCancel,
                    RunFallback, vars, alerting
<1>3. CASE CommitCancel
  <2>1. handler' = handler /\ pushes' = pushes /\ alert'.deleted = TRUE
        /\ alert' \in [status : {"ACTIVE", "TRIGGERED", "CANCELLED"}, deleted : BOOLEAN]
    BY <1>3 DEF CommitCancel, OneDecides
  <2>2. ~ Armed'
    BY <2>1 DEF Armed
  <2>. QED BY <2>1, <2>2 DEF OneDecides, Deciding
<1>4. CASE Crash
  <2>1. \A h \in Handlers : handler'[h] = Free
    BY <1>4 DEF Crash
  <2>2. \A h \in Handlers : ~ Deciding(h)' /\ handler'[h].at # "push"
    BY <2>1, FreeIsRequest DEF Deciding
  <2>3. UNCHANGED <<alert, pushes>>
    BY <1>4 DEF Crash
  <2>. QED BY <2>2, <2>3 DEF OneDecides, Armed
<1>5. ASSUME NEW h \in Handlers,
             Post(h) \/ Ingest(h) \/ RunStrategy(h) \/ StrategyFails(h) \/ Retire(h)
      PROVE  OneDecides'
  <2>1. UNCHANGED <<alert, pushes>>
    BY <1>5 DEF Post, Ingest, RunStrategy, StrategyFails, Retire, alerting
  <2>2. \E r : Moved(h, r) /\ r.at \in {"received", "stored", "retire", "alerts"}
    <3>1. CASE Post(h)
      <4>. DEFINE r == [at |-> "received", batch |-> Batch, fresh |-> {}, bucket |-> None]
      <4>1. Moved(h, r) /\ r.at = "received"
        BY <3>1, HandlerSteps
      <4>. HIDE DEF r
      <4>. QED BY <4>1
    <3>2. CASE Ingest(h)
      <4>. DEFINE r == [at |-> "stored", batch |-> handler[h].batch,
                        fresh |-> Fresh(handler[h].batch), bucket |-> handler[h].bucket]
      <4>1. Moved(h, r) /\ r.at = "stored"
        BY <3>2, HandlerSteps
      <4>. HIDE DEF r
      <4>. QED BY <4>1
    <3>3. At(h, "retire").at = "retire" /\ At(h, "alerts").at = "alerts"
      BY DEF At
    <3>4. CASE RunStrategy(h) \/ StrategyFails(h) \/ Retire(h)
      BY <3>3, <3>4, HandlerSteps
    <3>. QED BY <1>5, <3>1, <3>2, <3>4
  <2>. QED BY <2>1, <2>2, QuietStep
<1>6. ASSUME NEW h \in Handlers, Answer(h) \/ AnswerWithoutFallback(h) PROVE OneDecides'
  BY <1>6, AnsweringIsQuiet, QuietStep
<1>7. ASSUME NEW h \in Handlers, ReadAlerts(h) PROVE OneDecides'
  <2>1. UNCHANGED <<alert, pushes>>
    BY <1>7 DEF ReadAlerts, alerting
  <2>2. CASE Moved(h, Free)
    BY <2>1, <2>2, FreeIsRequest, QuietStep
  <2>3. CASE ~ Moved(h, Free)
    <3>1. Armed /\ \A g \in Handlers : handler[g].at # "reading"
      <4>1. handler' = [handler EXCEPT ![h] = Free] => Moved(h, Free)
        BY MovedBy, FreeIsRequest
      <4>. QED BY <1>7, <2>3, <4>1 DEF ReadAlerts, LoopFree, Armed, Shape
    <3>2. pushes = 0 /\ \A g \in Handlers : ~ Deciding(g)
      BY <3>1 DEF OneDecides, Deciding
    <3>3. Moved(h, At(h, "reading"))
      BY <1>7, <2>3, HandlerSteps
    <3>4. \A g \in Handlers : g # h => handler'[g] = handler[g]
      BY <3>3 DEF Moved
    <3>5. handler'[h].at = "reading"
      BY <3>3 DEF Moved, At
    <3>6. \A g \in Handlers : (Deciding(g)' => g = h) /\ handler'[g].at # "push"
      BY <3>2, <3>4, <3>5 DEF Deciding
    <3>. QED BY <2>1, <3>2, <3>6 DEF OneDecides, Armed
  <2>. QED BY <2>2, <2>3
<1>8. ASSUME NEW h \in Handlers, CommitAlert(h) PROVE OneDecides'
  <2>1. /\ handler[h].at = "reading" /\ pushes' = pushes
        /\ alert' = [alert EXCEPT !.status = "TRIGGERED"]
    BY <1>8 DEF CommitAlert
  <2>2. alert'.status = "TRIGGERED"
        /\ alert' \in [status : {"ACTIVE", "TRIGGERED", "CANCELLED"}, deleted : BOOLEAN]
    BY <2>1 DEF OneDecides
  <2>3. ~ Armed'
    BY <2>2 DEF Armed
  <2>4. Moved(h, At(h, "push"))
    BY <1>8, HandlerSteps
  <2>5. \A g \in Handlers : Deciding(g)' => Deciding(g)
    BY <2>1, <2>4 DEF Moved, Deciding
  <2>. QED BY <2>1, <2>2, <2>3, <2>5 DEF OneDecides
<1>9. ASSUME NEW h \in Handlers, PushAlert(h) PROVE OneDecides'
  <2>1. handler[h].at = "push" /\ pushes' = pushes + 1 /\ alert' = alert
    BY <1>9 DEF PushAlert
  <2>2. pushes = 0 /\ ~ Armed /\ \A g \in Handlers : Deciding(g) => g = h
    BY <2>1 DEF OneDecides, Deciding
  <2>3. Moved(h, Free)
    BY <1>9, HandlerSteps
  <2>4. \A g \in Handlers : ~ Deciding(g)' /\ handler'[g].at # "push"
    BY <2>2, <2>3, FreeIsRequest DEF Moved, Deciding
  <2>. QED BY <2>1, <2>2, <2>4 DEF OneDecides, Armed
<1>. QED BY <1>2, <1>3, <1>4, <1>5, <1>6, <1>7, <1>8, <1>9 DEF Next, Serve

\* A request that still has the newest tick to look at, or has decided.
Looks(h) ==
  \/ /\ handler[h].at \in {"stored", "strategy", "retire", "alerts"}
     /\ Max(stored) \in handler[h].fresh
  \/ handler[h].at = "reading"

Due == alert.status = "ACTIVE" /\ stored # {} /\ Price(Max(stored)) <= Target

\* Undisturbed but for late answers, no alert is missed.
SomeoneLooks ==
  spent.other = 0 =>
    /\ ~ alert.deleted /\ cancelling = "no"
    /\ Due => \E h \in Handlers : Looks(h)

\* A disturbance is counted.
LEMMA Disturbed ==
    ASSUME Shape, NEW kind, Disturb(kind)
    PROVE  /\ kind # "timeout" => spent'.other # 0
           /\ kind = "timeout" => spent'.other = spent.other
<1>0. spent \in [late : Nat, other : Nat] /\ spent.other \in Nat
  BY DEF Shape
<1>1. CASE kind = "timeout"
  <2>1. spent' = [spent EXCEPT !.late = spent.late + 1]
    BY <1>1 DEF Disturb
  <2>. QED BY <2>1, <1>0, <1>1
<1>2. CASE kind # "timeout"
  <2>1. spent' = [spent EXCEPT !.other = spent.other + 1]
    BY <1>2 DEF Disturb
  <2>. QED BY <2>1, <1>0, <1>2
<1>. QED BY <1>1, <1>2

\* A step of a handler that does not lose the newest tick.
LEMMA StillLooks ==
    ASSUME Shape, SomeoneLooks, NEW h \in Handlers, NEW r, Moved(h, r),
           UNCHANGED <<feed, stored, alert, cancelling>>, spent' = spent,
           Looks(h) => /\ r.at \in {"stored", "strategy", "retire", "alerts"}
                       /\ Max(stored) \in r.fresh
    PROVE  SomeoneLooks'
<1>1. Due' <=> Due
  BY DEF Due, Price
<1>2. \A g \in Handlers : Looks(g) => Looks(g)'
  <2>. TAKE g \in Handlers
  <2>1. CASE g = h
    BY <2>1 DEF Moved, Looks
  <2>2. CASE g # h
    BY <2>2 DEF Moved, Looks
  <2>. QED BY <2>1, <2>2
<1>. QED BY <1>1, <1>2 DEF SomeoneLooks

\* Every step keeps a request that is going to look at a price that is due.
LEMMA SomeoneLooksIsKept == Shape /\ OneDecides /\ SomeoneLooks /\ [Next]_vars => SomeoneLooks'
<1>. SUFFICES ASSUME Shape, OneDecides, SomeoneLooks, [Next]_vars PROVE SomeoneLooks'
  OBVIOUS
<1>0. /\ stored \in SUBSET DOMAIN feed /\ \A h \in Handlers : handler[h].fresh \subseteq stored
      /\ handler \in [Handlers -> Request]
  BY DEF Shape
<1>1. CASE UNCHANGED <<feed, handler, stored, alert, cancelling>> /\ spent'.other = spent.other
  BY <1>1 DEF SomeoneLooks, Due, Looks, Price
<1>2. CASE spent'.other # 0
  BY <1>2 DEF SomeoneLooks
<1>3. CASE NewTick
  <2>1. UNCHANGED <<handler, stored, alert, cancelling, spent>>
    BY <1>3 DEF NewTick, alerting
  <2>2. stored # {} => feed'[Max(stored)] = feed[Max(stored)]
    <3>1. stored # {} => Max(stored) \in DOMAIN feed
      BY <1>0, EndsOfTicks
    <3>. QED BY <3>1, <1>3, NewTickAppends
  <2>. QED BY <2>1, <2>2 DEF SomeoneLooks, Due, Looks, Price
<1>4. CASE Pass \/ Poll \/ UNCHANGED vars \/ \E b \in Buckets : RunFallback(b)
  BY <1>1, <1>4 DEF Pass, Poll, vars, alerting, RunFallback
<1>5. CASE Timeout
  BY <1>1, <1>5, Disturbed DEF Timeout, alerting
<1>6. CASE PollAfterSwitch \/ RestartBridge \/ BeginCancel \/ Crash
           \/ \E h \in Handlers : AnswerWithoutFallback(h) \/ StrategyFails(h)
  <2>1. \E kind \in {"account", "bridge", "cancel", "crash", "enqueue", "strategy"} : Disturb(kind)
    BY <1>6 DEF PollAfterSwitch, RestartBridge, BeginCancel, Crash, AnswerWithoutFallback, StrategyFails
  <2>. QED BY <2>1, <1>2, Disturbed
<1>7. CASE CommitCancel
  <2>1. spent' = spent /\ cancelling # "no"
    BY <1>7 DEF CommitCancel
  <2>2. spent.other # 0
    BY <2>1 DEF SomeoneLooks
  <2>. QED BY <1>2, <2>1, <2>2
<1>8. ASSUME NEW h \in Handlers, Post(h) PROVE SomeoneLooks'
  <2>1. UNCHANGED <<feed, stored, alert, cancelling, spent>> /\ handler[h] = Free
    BY <1>8 DEF Post, alerting
  <2>2. ~ Looks(h)
    BY <2>1, FreeIsRequest DEF Looks
  <2>3. \E r : Moved(h, r)
    BY <1>8, HandlerSteps
  <2>. QED BY <2>1, <2>2, <2>3, StillLooks
<1>9. ASSUME NEW h \in Handlers, Ingest(h) PROVE SomeoneLooks'
  <2>. DEFINE f == Fresh(handler[h].batch)
  <2>1. /\ UNCHANGED <<feed, alert, cancelling, spent>> /\ stored' = stored \cup f
        /\ handler[h].at = "received"
    BY <1>9 DEF Ingest, alerting
  <2>2. /\ Moved(h, [at |-> "stored", batch |-> handler[h].batch, fresh |-> f, bucket |-> handler[h].bucket])
        /\ f \in SUBSET DOMAIN feed
    <3>1. f \subseteq DOMAIN feed
      BY DEF Fresh, ToSet, Shape
    <3>. QED BY <3>1, <1>9, HandlerSteps
  <2>. HIDE DEF f
  <2>3. handler'[h].at = "stored" /\ handler'[h].fresh = f /\ \A g \in Handlers : g # h => handler'[g] = handler[g]
    BY <2>2 DEF Moved
  <2>4. CASE stored' # {} /\ Max(stored') \in f
    <3>1. Looks(h)'
      BY <2>3, <2>4 DEF Looks
    <3>. QED BY <2>1, <3>1 DEF SomeoneLooks
  <2>5. CASE stored' # {} /\ Max(stored') \notin f
    <3>1. stored' \in SUBSET DOMAIN feed /\ stored \in SUBSET DOMAIN feed
      BY <2>1, <2>2, <1>0
    <3>2. Max(stored') \in stored' /\ \A i \in stored' : i <= Max(stored')
      BY <3>1, <2>5, EndsOfTicks
    <3>3. Max(stored') \in stored
      BY <3>2, <2>1, <2>5
    <3>4. Max(stored) \in stored /\ \A i \in stored : i <= Max(stored)
      BY <3>1, <3>3, EndsOfTicks
    <3>5. Max(stored) = Max(stored')
      <4>1. Max(stored) <= Max(stored') /\ Max(stored') <= Max(stored)
        BY <3>2, <3>3, <3>4, <2>1
      <4>2. Max(stored) \in Int /\ Max(stored') \in Int
        BY <3>2, <3>4, <3>1, TicksAreFinite
      <4>. QED BY <4>1, <4>2
    <3>6. \A g \in Handlers : Looks(g) => Looks(g)'
      <4>. TAKE g \in Handlers
      <4>1. CASE g = h
        BY <4>1, <2>1 DEF Looks
      <4>2. CASE g # h
        BY <4>2, <2>3, <3>5 DEF Looks
      <4>. QED BY <4>1, <4>2
    <3>7. Due' => Due
      BY <2>1, <3>3, <3>5 DEF Due, Price
    <3>. QED BY <2>1, <3>6, <3>7 DEF SomeoneLooks
  <2>6. CASE stored' = {}
    BY <2>1, <2>6 DEF SomeoneLooks, Due
  <2>. QED BY <2>4, <2>5, <2>6
<1>10. ASSUME NEW h \in Handlers, Answer(h) PROVE SomeoneLooks'
  <2>1. UNCHANGED <<feed, stored, alert, cancelling, spent>> /\ handler[h].at = "stored"
    BY <1>10 DEF Answer, alerting
  <2>2. PICK r \in Request :
          /\ Moved(h, r) /\ r.at \in {"strategy", "alerts", "free"}
          /\ handler[h].fresh # {} => r.at # "free" /\ r.fresh = handler[h].fresh
    BY <1>10, AnsweringIsQuiet
  <2>3. Looks(h) => r.at \in {"strategy", "alerts"} /\ Max(stored) \in r.fresh
    BY <2>1, <2>2 DEF Looks
  <2>. QED BY <2>1, <2>2, <2>3, StillLooks
<1>11. ASSUME NEW h \in Handlers, RunStrategy(h) \/ Retire(h) PROVE SomeoneLooks'
  <2>1. UNCHANGED <<feed, stored, alert, cancelling, spent>> /\ handler[h].at \in {"strategy", "retire"}
    BY <1>11 DEF RunStrategy, Retire, alerting
  <2>2. PICK s \in {"retire", "alerts"} : Moved(h, At(h, s))
    BY <1>11, HandlerSteps
  <2>3. At(h, s).at = s /\ At(h, s).fresh = handler[h].fresh
    BY DEF At
  <2>4. Looks(h) => Max(stored) \in handler[h].fresh
    BY <2>1 DEF Looks
  <2>. QED BY <2>1, <2>2, <2>3, <2>4, StillLooks
<1>12. ASSUME NEW h \in Handlers, ReadAlerts(h) PROVE SomeoneLooks'
  <2>1. /\ UNCHANGED <<feed, stored, alert, cancelling, spent>> /\ handler[h].at = "alerts"
        /\ \A g \in Handlers : handler[g].at # "reading"
    BY <1>12 DEF ReadAlerts, alerting, LoopFree
  <2>2. CASE Moved(h, At(h, "reading"))
    <3>1. Looks(h)'
      BY <2>2 DEF Looks, Moved, At
    <3>. QED BY <2>1, <3>1 DEF SomeoneLooks
  <2>3. CASE ~ Moved(h, At(h, "reading"))
    <3>1. Moved(h, Free)
      BY <1>12, <2>3, HandlerSteps
    <3>2. CASE spent.other = 0 /\ Due /\ Looks(h)
      <4>1. ~ alert.deleted /\ alert.status = "ACTIVE"
        BY <3>2 DEF SomeoneLooks, Due
      <4>2. alert = [status |-> "ACTIVE", deleted |-> FALSE]
        BY <4>1 DEF OneDecides
      <4>3. Max(stored) \in handler[h].fresh
        BY <3>2, <2>1 DEF Looks
      <4>4. CheckedPrice(handler[h].fresh) <= Target
        <5>1. handler[h].fresh \in SUBSET DOMAIN feed /\ handler[h].fresh # {} /\ stored # {}
          BY <1>0, <4>3
        <5>2. Max(handler[h].fresh) \in handler[h].fresh /\ Max(stored) <= Max(handler[h].fresh)
          BY <5>1, <4>3, EndsOfTicks
        <5>3. Max(handler[h].fresh) <= Max(stored) /\ Max(stored) \in Int /\ Max(handler[h].fresh) \in Int
          BY <5>1, <5>2, <1>0, EndsOfTicks, TicksAreFinite
        <5>4. Max(handler[h].fresh) = Max(stored)
          BY <5>2, <5>3
        <5>. QED BY <5>4, <3>2 DEF CheckedPrice, Due
      <4>5. handler' = [handler EXCEPT ![h].at = "reading"]
        BY <1>12, <4>2, <4>4, <1>0 DEF ReadAlerts
      <4>6. Moved(h, At(h, "reading"))
        BY <4>5, MovedTo DEF At, Points
      <4>. QED BY <4>6, <2>3
    <3>3. CASE ~ (spent.other = 0 /\ Due /\ Looks(h))
      <4>1. \A g \in Handlers : g # h /\ Looks(g) => Looks(g)'
        BY <3>1, <2>1 DEF Looks, Moved
      <4>2. Due' <=> Due
        BY <2>1 DEF Due, Price
      <4>. QED BY <3>3, <4>1, <4>2, <2>1 DEF SomeoneLooks
    <3>. QED BY <3>2, <3>3
  <2>. QED BY <2>2, <2>3
<1>13. ASSUME NEW h \in Handlers, CommitAlert(h) PROVE SomeoneLooks'
  <2>1. alert' = [alert EXCEPT !.status = "TRIGGERED"] /\ UNCHANGED <<cancelling, spent>>
    BY <1>13 DEF CommitAlert
  <2>2. alert'.status = "TRIGGERED" /\ alert'.deleted = alert.deleted
    BY <2>1 DEF OneDecides
  <2>. QED BY <2>1, <2>2 DEF SomeoneLooks, Due
<1>14. ASSUME NEW h \in Handlers, PushAlert(h) PROVE SomeoneLooks'
  <2>1. UNCHANGED <<feed, stored, alert, cancelling, spent>> /\ handler[h].at = "push"
    BY <1>14 DEF PushAlert
  <2>2. ~ Looks(h) /\ Moved(h, Free)
    BY <2>1, <1>14, HandlerSteps DEF Looks
  <2>. QED BY <2>1, <2>2, StillLooks
<1>. QED BY <1>3, <1>4, <1>5, <1>6, <1>7, <1>8, <1>9, <1>10, <1>11, <1>12, <1>13, <1>14 DEF Next, Serve

\* However many answers look at the same price, one notification is sent; and no
\* alert stays armed at a price that should have fired it, when nothing but late
\* answers has disturbed the feed (AlertFiresOnceInTime).
THEOREM AlertsFireOnce == Spec => []AlertFiresOnceInTime
<1>1. Init => OneDecides /\ SomeoneLooks
  BY FreeIsRequest DEF Init, OneDecides, SomeoneLooks, Deciding, Armed, Due
<1>2. ASSUME Shape, OneDecides, SomeoneLooks PROVE AlertFiresOnceInTime
  <2>1. pushes <= 1
    BY <1>2 DEF OneDecides
  <2>2. ASSUME Resting, spent.other = 0, stored # {}, alert.status = "ACTIVE"
        PROVE  Price(Max(stored)) > Target
    <3>1. \A h \in Handlers : ~ Looks(h)
      BY <2>2, FreeIsRequest DEF Resting, Looks
    <3>2. ~ (Price(Max(stored)) <= Target)
      BY <1>2, <2>2, <3>1 DEF SomeoneLooks, Due
    <3>3. stored \in SUBSET DOMAIN feed
      BY <1>2 DEF Shape
    <3>4. Price(Max(stored)) \in Int
      BY <1>2, <2>2, <3>3, EndsOfTicks, TickTimes DEF Price
    <3>. QED BY <3>2, <3>4, FeedTypes
  <2>. QED BY <2>1, <2>2 DEF AlertFiresOnceInTime
<1>. QED BY <1>1, <1>2, OneDecidesIsKept, SomeoneLooksIsKept, FeedIsWellShaped, PTL DEF Spec

----------------------------------------------------------------------------
(* The evaluation of a close.                                              *)

\* When an evaluation cannot get lost: no crash between the ticks and their fallback
\* job, and a failed enqueue is not followed by a second failure.
FallbackHolds ==
  /\ "stored" \notin CrashPoints
  /\ MaxSpent <= 1 \/ "enqueue" \notin Kinds \/ ("strategy" \notin Kinds /\ "crash" \notin Kinds)

Seen(b) == \E i \in stored : Bucket(i) = b

Evaluated(b) == \E e \in evaluated : e.newest >= b

\* A task without a fallback job is going to run the strategy.
Alone(h) == handler[h].at = "strategy" /\ handler[h].bucket = None

\* A bucket, or a later one, was evaluated or is going to be.
Secured(b) ==
  \/ Evaluated(b)
  \/ \E c \in Buckets : c >= b /\ job[c] = "PENDING"
  \/ \E h \in Handlers : Alone(h)

\* An answer is going to see the bucket.
Carried(b) ==
  \E h \in Handlers : handler[h].at = "stored" /\ \E i \in handler[h].fresh : Bucket(i) >= b

\* What evaluations, the memory of the trigger, jobs and tasks say of the table.
EvaluationsSeeTicks == \A e \in evaluated : Seen(e.newest)
TicksAreCovered == \A b \in Buckets : Seen(b) => Secured(b) \/ Carried(b)
LastIsSecured == \A b \in Buckets : lastBucket = b => Seen(b) /\ Secured(b)
JobsAreTrue ==
  \A b \in Buckets : /\ job[b] = "COMPLETED" => Evaluated(b)
                     /\ job[b] # "none" => Seen(b)
TasksAreTrue ==
  \A h \in Handlers :
    /\ handler[h].at = "strategy" => handler[h].fresh # {}
    /\ Alone(h) => spent.other >= 1 /\ "enqueue" \in Kinds
    /\ \A b \in Buckets : handler[h].bucket = b =>
         /\ handler[h].at = "strategy" => Seen(b)
         /\ handler[h].at = "retire" => Evaluated(b)

Backed == EvaluationsSeeTicks /\ TicksAreCovered /\ LastIsSecured /\ JobsAreTrue /\ TasksAreTrue

\* Disturbances are only ever counted up.
LEMMA SpentGrows ==
    ASSUME Shape, [Next]_vars
    PROVE  spent.other \in Nat /\ spent'.other \in Nat /\ spent'.other >= spent.other
<1>0. spent \in [late : Nat, other : Nat] /\ spent.other \in Nat
  BY DEF Shape
<1>1. ASSUME NEW kind, Disturb(kind) PROVE spent' \in [late : Nat, other : Nat] /\ spent'.other >= spent.other
  <2>1. CASE kind = "timeout"
    <3>1. spent' = [spent EXCEPT !.late = spent.late + 1]
      BY <1>1, <2>1 DEF Disturb
    <3>. QED BY <3>1, <1>0
  <2>2. CASE kind # "timeout"
    <3>1. spent' = [spent EXCEPT !.other = spent.other + 1]
      BY <1>1, <2>2 DEF Disturb
    <3>. QED BY <3>1, <1>0
  <2>. QED BY <2>1, <2>2
<1>2. CASE spent' = spent
  BY <1>2, <1>0
<1>3. CASE \E kind : Disturb(kind)
  <2>1. PICK kind : Disturb(kind)
    BY <1>3
  <2>2. spent' \in [late : Nat, other : Nat] /\ spent'.other >= spent.other
    BY <2>1, <1>1
  <2>. QED BY <2>2, <1>0
<1>4. spent' = spent \/ \E kind : Disturb(kind)
  <2>1. CASE NewTick \/ Pass \/ Poll \/ PollAfterSwitch \/ RestartBridge \/ Timeout
    BY <2>1 DEF NewTick, Pass, Poll, PollAfterSwitch, RestartBridge, Timeout
  <2>2. CASE \E h \in Handlers : Post(h) \/ Serve(h) \/ AnswerWithoutFallback(h) \/ StrategyFails(h)
    BY <2>2 DEF Post, Serve, AnswerWithoutFallback, StrategyFails, Ingest, Answer, RunStrategy, Retire,
                ReadAlerts, CommitAlert, PushAlert
  <2>3. CASE (\E b \in Buckets : RunFallback(b)) \/ BeginCancel \/ CommitCancel \/ Crash
    BY <2>3 DEF RunFallback, BeginCancel, CommitCancel, Crash
  <2>4. CASE UNCHANGED vars
    BY <2>4 DEF vars
  <2>. QED BY <2>1, <2>2, <2>3, <2>4 DEF Next
<1>. QED BY <1>2, <1>3, <1>4

\* What an evaluation sees as the newest candle is the newest bucket of the table.
LEMMA EvaluationSeesNewest ==
    ASSUME Shape, CandlesSumUp, stored # {}
    PROVE  Seen(Evaluation.newest) /\ \A i \in stored : Evaluation.newest >= Bucket(i)
<1>1. DOMAIN candles \subseteq Buckets /\ \A b \in Buckets : b \in DOMAIN candles <=> TicksOf(b) # {}
  BY DEF CandlesSumUp
<1>2. \A i \in stored : Bucket(i) \in Buckets /\ Bucket(i) \in DOMAIN candles
  <2>. TAKE i \in stored
  <2>1. i \in DOMAIN feed
    BY DEF Shape
  <2>2. Bucket(i) \in Buckets /\ i \in TicksOf(Bucket(i))
    BY <2>1, BucketTypes DEF TicksOf
  <2>. QED BY <2>2, <1>1
<1>3. DOMAIN candles \in SUBSET Int /\ IsFiniteSet(DOMAIN candles) /\ DOMAIN candles # {}
  BY <1>1, <1>2, BucketTypes, FS_Subset
<1>4. Max(DOMAIN candles) \in DOMAIN candles /\ \A b \in DOMAIN candles : b <= Max(DOMAIN candles)
  BY <1>3, MaxIsGreatest
<1>5. Evaluation.newest = Max(DOMAIN candles)
  BY DEF Evaluation
<1>6. TicksOf(Max(DOMAIN candles)) # {}
  BY <1>1, <1>4
<1>7. \A i \in stored : Max(DOMAIN candles) >= Bucket(i)
  BY <1>2, <1>3, <1>4
<1>. QED BY <1>5, <1>6, <1>7 DEF Seen, TicksOf

\* The buckets of what the invariant speaks of.
LEMMA SeenIsBucket ==
    ASSUME Shape, NEW b, Seen(b)
    PROVE  b \in Buckets /\ b \in Nat /\ b # None
  BY BucketTypes DEF Seen, Shape, None

\* A step that leaves the tables alone, and the requests that stand for an evaluation.
LEMMA QuietForBacked ==
    ASSUME Shape, Backed, [Next]_vars, UNCHANGED <<stored, evaluated, job>>, lastBucket' \in {lastBucket, None},
           \A i \in DOMAIN feed : feed'[i] = feed[i],
           \A g \in Handlers :
             handler'[g].at \in {"stored", "strategy", "retire"} \/ handler[g].at = "stored" \/ Alone(g)
                => handler'[g] = handler[g]
    PROVE  Backed'
<1>1. stored \subseteq DOMAIN feed /\ Buckets' = Buckets /\ \A g \in Handlers : handler[g].fresh \subseteq stored
  BY DEF Shape, Buckets
<1>2. \A i \in stored : Bucket(i)' = Bucket(i)
  BY <1>1 DEF Bucket
<1>3. \A b : (Seen(b)' <=> Seen(b)) /\ (Evaluated(b)' <=> Evaluated(b))
  BY <1>2 DEF Seen, Evaluated
<1>4. \A g \in Handlers : Alone(g)' <=> Alone(g)
  <2>. TAKE g \in Handlers
  <2>1. CASE handler'[g] = handler[g]
    BY <2>1 DEF Alone
  <2>2. CASE handler'[g] # handler[g]
    BY <2>2 DEF Alone
  <2>. QED BY <2>1, <2>2
<1>5. ASSUME NEW b, Secured(b) PROVE Secured(b)'
  BY <1>1, <1>3, <1>4, <1>5 DEF Secured
<1>6. ASSUME NEW b, Carried(b) PROVE Carried(b)'
  <2>1. PICK g \in Handlers : handler[g].at = "stored" /\ \E i \in handler[g].fresh : Bucket(i) >= b
    BY <1>6 DEF Carried
  <2>2. handler'[g] = handler[g] /\ handler[g].fresh \subseteq stored
    BY <2>1, <1>1
  <2>. QED BY <2>1, <2>2, <1>2 DEF Carried
<1>7. EvaluationsSeeTicks'
  BY <1>3 DEF Backed, EvaluationsSeeTicks
<1>8. TicksAreCovered'
  BY <1>3, <1>5, <1>6 DEF Backed, TicksAreCovered
<1>9. LastIsSecured'
  <2>1. \A b \in Buckets : b # None
    BY BucketTypes DEF None
  <2>2. \A b \in Buckets : lastBucket' = b => lastBucket = b
    BY <2>1
  <2>. QED BY <1>3, <1>5, <2>2 DEF Backed, LastIsSecured
<1>10. JobsAreTrue'
  BY <1>3 DEF Backed, JobsAreTrue
<1>11. TasksAreTrue'
  <2>1. spent.other \in Nat /\ spent'.other \in Nat /\ spent'.other >= spent.other
    BY SpentGrows
  <2>2. ASSUME NEW g \in Handlers, Alone(g)' PROVE spent'.other >= 1 /\ "enqueue" \in Kinds
    <3>1. Alone(g)
      BY <2>2, <1>4
    <3>2. spent.other >= 1 /\ "enqueue" \in Kinds
      BY <3>1 DEF Backed, TasksAreTrue
    <3>. QED BY <2>1, <3>2
  <2>3. ASSUME NEW g \in Handlers, handler'[g].at \in {"strategy", "retire"}
        PROVE  /\ handler'[g].at = "strategy" => handler'[g].fresh # {}
               /\ \A b \in Buckets : handler'[g].bucket = b =>
                    /\ handler'[g].at = "strategy" => Seen(b)'
                    /\ handler'[g].at = "retire" => Evaluated(b)'
    <3>1. handler'[g] = handler[g]
      BY <2>3
    <3>. QED BY <3>1, <1>3 DEF Backed, TasksAreTrue
  <2>. QED BY <2>2, <2>3 DEF TasksAreTrue
<1>. QED BY <1>7, <1>8, <1>9, <1>10, <1>11 DEF Backed

\* New ticks are carried by the request that stored them.
LEMMA IngestIsBacked ==
    ASSUME Shape, Backed, NEW h \in Handlers, Ingest(h)
    PROVE  Backed'
<1>. DEFINE f == Fresh(handler[h].batch)
            r == [at |-> "stored", batch |-> handler[h].batch, fresh |-> f, bucket |-> handler[h].bucket]
<1>1. /\ handler[h].at = "received" /\ stored' = stored \cup f
      /\ UNCHANGED <<feed, lastBucket, job, evaluated, spent>>
  BY DEF Ingest, trigger
<1>2. Moved(h, r)
  BY HandlerSteps
<1>3. f \subseteq DOMAIN feed
  BY DEF Fresh, ToSet, Shape
<1>. HIDE DEF f
<1>4. /\ handler'[h].at = "stored" /\ handler'[h].fresh = f
      /\ \A g \in Handlers : g # h => handler'[g] = handler[g]
  BY <1>2 DEF Moved
<1>5. \A i : Bucket(i)' = Bucket(i)
  BY <1>1 DEF Bucket
<1>6. \A b : /\ Seen(b) => Seen(b)'
             /\ Evaluated(b)' <=> Evaluated(b)
             /\ Seen(b)' => Seen(b) \/ \E i \in f : Bucket(i) = b
  BY <1>1, <1>5 DEF Seen, Evaluated
<1>7. \A g \in Handlers : Alone(g)' <=> Alone(g)
  <2>. TAKE g \in Handlers
  <2>1. CASE g = h
    BY <2>1, <1>1, <1>4 DEF Alone
  <2>2. CASE g # h
    BY <2>2, <1>4 DEF Alone
  <2>. QED BY <2>1, <2>2
<1>8. ASSUME NEW b, Secured(b) PROVE Secured(b)'
  BY <1>1, <1>6, <1>7, <1>8 DEF Secured
<1>9. ASSUME NEW b, Carried(b) PROVE Carried(b)'
  <2>1. PICK g \in Handlers : handler[g].at = "stored" /\ \E i \in handler[g].fresh : Bucket(i) >= b
    BY <1>9 DEF Carried
  <2>2. handler'[g] = handler[g]
    BY <2>1, <1>1, <1>4
  <2>. QED BY <2>1, <2>2, <1>5 DEF Carried
<1>10. ASSUME NEW b \in Buckets, NEW i \in f, Bucket(i) = b PROVE Carried(b)'
  <2>1. Bucket(i)' >= b
    BY <1>10, <1>5, BucketTypes
  <2>. QED BY <2>1, <1>4 DEF Carried
<1>11. TicksAreCovered'
  BY <1>6, <1>8, <1>9, <1>10 DEF Backed, TicksAreCovered
<1>12. EvaluationsSeeTicks'
  BY <1>1, <1>6 DEF Backed, EvaluationsSeeTicks
<1>13. LastIsSecured'
  BY <1>1, <1>6, <1>8 DEF Backed, LastIsSecured
<1>14. JobsAreTrue'
  BY <1>1, <1>6 DEF Backed, JobsAreTrue
<1>15. TasksAreTrue'
  <2>1. \A g \in Handlers : Alone(g)' => spent'.other >= 1 /\ "enqueue" \in Kinds
    BY <1>1, <1>7 DEF Backed, TasksAreTrue
  <2>2. ASSUME NEW g \in Handlers, handler'[g].at \in {"strategy", "retire"}
        PROVE  /\ handler'[g].at = "strategy" => handler'[g].fresh # {}
               /\ \A b \in Buckets : handler'[g].bucket = b =>
                    /\ handler'[g].at = "strategy" => Seen(b)'
                    /\ handler'[g].at = "retire" => Evaluated(b)'
    <3>1. handler'[g] = handler[g]
      BY <2>2, <1>4
    <3>. QED BY <3>1, <1>6 DEF Backed, TasksAreTrue
  <2>. QED BY <2>1, <2>2 DEF TasksAreTrue
<1>. QED BY <1>11, <1>12, <1>13, <1>14, <1>15 DEF Backed

\* An evaluation secures every bucket that was seen.
LEMMA EvaluationSecures ==
    ASSUME Shape, CandlesSumUp, Backed, stored # {},
           evaluated' = evaluated \cup {Evaluation}, UNCHANGED <<feed, stored>>
    PROVE  /\ \A b : (Seen(b)' <=> Seen(b)) /\ (Evaluated(b) => Evaluated(b)')
           /\ \A b \in Buckets : Seen(b) => Evaluated(b)'
           /\ EvaluationsSeeTicks'
<1>1. \A i : Bucket(i)' = Bucket(i)
  BY DEF Bucket
<1>2. \A b : (Seen(b)' <=> Seen(b)) /\ (Evaluated(b) => Evaluated(b)')
  BY <1>1 DEF Seen, Evaluated
<1>. DEFINE e == Evaluation
<1>3. Seen(e.newest) /\ (\A i \in stored : e.newest >= Bucket(i)) /\ evaluated' = evaluated \cup {e}
  BY EvaluationSeesNewest
<1>. HIDE DEF e
<1>4. \A b \in Buckets : Seen(b) => Evaluated(b)'
  BY <1>3 DEF Seen, Evaluated
<1>5. \A d \in evaluated' : Seen(d.newest)'
  <2>1. \A d \in evaluated' : Seen(d.newest)
    BY <1>3 DEF Backed, EvaluationsSeeTicks
  <2>. QED BY <2>1, <1>1 DEF Seen
<1>. QED BY <1>2, <1>4, <1>5 DEF EvaluationsSeeTicks

\* A task that runs the strategy secures every bucket of the table.
LEMMA RunIsBacked ==
    ASSUME Shape, CandlesSumUp, Backed, NEW h \in Handlers, RunStrategy(h)
    PROVE  Backed'
<1>1. /\ handler[h].at = "strategy" /\ evaluated' = evaluated \cup {Evaluation}
      /\ UNCHANGED <<feed, stored, lastBucket, job, spent>>
  BY DEF RunStrategy
<1>2. stored # {}
  <2>1. handler[h].fresh # {} /\ handler[h].fresh \subseteq stored
    BY <1>1 DEF Backed, TasksAreTrue, Shape
  <2>. QED BY <2>1
<1>3. /\ \A b : (Seen(b)' <=> Seen(b)) /\ (Evaluated(b) => Evaluated(b)')
      /\ \A b \in Buckets : Seen(b) => Evaluated(b)'
      /\ EvaluationsSeeTicks'
  BY <1>1, <1>2, EvaluationSecures
<1>4. Moved(h, At(h, "retire"))
  BY HandlerSteps
<1>5. /\ handler'[h].at = "retire" /\ handler'[h].bucket = handler[h].bucket
      /\ \A g \in Handlers : g # h => handler'[g] = handler[g]
  BY <1>4 DEF Moved, At
<1>6. TicksAreCovered' /\ LastIsSecured'
  BY <1>1, <1>3 DEF Backed, TicksAreCovered, LastIsSecured, Secured
<1>7. JobsAreTrue'
  BY <1>1, <1>3 DEF Backed, JobsAreTrue
<1>8. TasksAreTrue'
  <2>1. ASSUME NEW g \in Handlers, g # h
        PROVE  /\ handler'[g].at = "strategy" => handler'[g].fresh # {}
               /\ Alone(g)' => spent'.other >= 1 /\ "enqueue" \in Kinds
               /\ \A b \in Buckets : handler'[g].bucket = b =>
                    /\ handler'[g].at = "strategy" => Seen(b)'
                    /\ handler'[g].at = "retire" => Evaluated(b)'
    <3>1. handler'[g] = handler[g] /\ spent' = spent
      BY <2>1, <1>1, <1>5
    <3>. QED BY <3>1, <1>3 DEF Backed, TasksAreTrue, Alone
  <2>2. \A b \in Buckets : handler'[h].bucket = b => Evaluated(b)'
    BY <1>1, <1>3, <1>5 DEF Backed, TasksAreTrue
  <2>3. ~ Alone(h)' /\ handler'[h].at # "strategy"
    BY <1>5 DEF Alone
  <2>. QED BY <2>1, <2>2, <2>3 DEF TasksAreTrue
<1>. QED BY <1>3, <1>6, <1>7, <1>8 DEF Backed

\* A fallback job does the same.
LEMMA FallbackIsBacked ==
    ASSUME Shape, CandlesSumUp, Backed, NEW c \in Buckets, RunFallback(c)
    PROVE  Backed'
<1>1. /\ job[c] = "PENDING" /\ evaluated' = evaluated \cup {Evaluation}
      /\ job' = [job EXCEPT ![c] = "COMPLETED"]
      /\ UNCHANGED <<feed, stored, handler, lastBucket, spent>>
  BY DEF RunFallback
<1>2. Seen(c) /\ stored # {}
  BY <1>1 DEF Backed, JobsAreTrue, Seen
<1>3. /\ \A b : (Seen(b)' <=> Seen(b)) /\ (Evaluated(b) => Evaluated(b)')
      /\ \A b \in Buckets : Seen(b) => Evaluated(b)'
      /\ EvaluationsSeeTicks'
  BY <1>1, <1>2, EvaluationSecures
<1>4. TicksAreCovered' /\ LastIsSecured'
  BY <1>1, <1>3 DEF Backed, TicksAreCovered, LastIsSecured, Secured
<1>5. job \in [Buckets -> {"none", "PENDING", "COMPLETED"}]
  BY DEF Shape
<1>6. JobsAreTrue'
  <2>1. \A b \in Buckets : job'[b] = IF b = c THEN "COMPLETED" ELSE job[b]
    BY <1>1, <1>5
  <2>. QED BY <2>1, <1>2, <1>3 DEF Backed, JobsAreTrue
<1>7. TasksAreTrue'
  BY <1>1, <1>3 DEF Backed, TasksAreTrue, Alone
<1>. QED BY <1>3, <1>4, <1>6, <1>7 DEF Backed

\* The fallback job is retired by the task that has run the strategy.
LEMMA RetireIsBacked ==
    ASSUME Shape, Backed, NEW h \in Handlers, Retire(h)
    PROVE  Backed'
<1>1. /\ handler[h].at = "retire" /\ job' = Retired(handler[h].bucket)
      /\ UNCHANGED <<feed, stored, lastBucket, evaluated, spent>>
  BY DEF Retire
<1>2. Moved(h, At(h, "alerts"))
  BY HandlerSteps
<1>3. /\ handler'[h].at = "alerts"
      /\ \A g \in Handlers : g # h => handler'[g] = handler[g]
  BY <1>2 DEF Moved, At
<1>4. \A i : Bucket(i)' = Bucket(i)
  BY <1>1 DEF Bucket
<1>5. \A b : (Seen(b)' <=> Seen(b)) /\ (Evaluated(b)' <=> Evaluated(b))
  BY <1>1, <1>4 DEF Seen, Evaluated
<1>6. \A g \in Handlers : Alone(g)' <=> Alone(g)
  <2>. TAKE g \in Handlers
  <2>1. CASE g = h
    BY <2>1, <1>1, <1>3 DEF Alone
  <2>2. CASE g # h
    BY <2>2, <1>3 DEF Alone
  <2>. QED BY <2>1, <2>2
<1>7. \A c \in Buckets : job'[c] = job[c] \/ (job[c] = "PENDING" /\ job'[c] = "COMPLETED" /\ Evaluated(c))
  <2>. TAKE c \in Buckets
  <2>1. job \in [Buckets -> {"none", "PENDING", "COMPLETED"}]
    BY DEF Shape
  <2>2. CASE handler[h].bucket = c
    <3>1. Evaluated(c)
      BY <2>2, <1>1 DEF Backed, TasksAreTrue
    <3>. QED BY <1>1, <2>1, <2>2, <3>1 DEF Retired
  <2>3. CASE handler[h].bucket # c
    BY <1>1, <2>1, <2>3 DEF Retired
  <2>. QED BY <2>2, <2>3
<1>8. ASSUME NEW b \in Buckets, Secured(b) PROVE Secured(b)'
  <2>1. CASE Evaluated(b) \/ \E g \in Handlers : Alone(g)
    BY <2>1, <1>5, <1>6 DEF Secured
  <2>2. ASSUME NEW c \in Buckets, c >= b, job[c] = "PENDING" PROVE Secured(b)'
    <3>1. CASE job'[c] = job[c]
      BY <2>2, <3>1 DEF Secured
    <3>2. CASE Evaluated(c)
      <4>1. PICK e \in evaluated : e.newest >= c
        BY <3>2 DEF Evaluated
      <4>2. e.newest \in Nat
        BY SeenIsBucket DEF Backed, EvaluationsSeeTicks
      <4>3. e.newest >= b
        BY <4>1, <4>2, <2>2, BucketTypes
      <4>. QED BY <4>3, <1>1 DEF Secured, Evaluated
    <3>. QED BY <3>1, <3>2, <1>7
  <2>. QED BY <2>1, <2>2, <1>8 DEF Secured
<1>9. ASSUME NEW b, Carried(b) PROVE Carried(b)'
  <2>1. PICK g \in Handlers : handler[g].at = "stored" /\ \E i \in handler[g].fresh : Bucket(i) >= b
    BY <1>9 DEF Carried
  <2>2. handler'[g] = handler[g]
    BY <2>1, <1>1, <1>3
  <2>. QED BY <2>1, <2>2, <1>4 DEF Carried
<1>10. TicksAreCovered'
  BY <1>5, <1>8, <1>9 DEF Backed, TicksAreCovered
<1>11. EvaluationsSeeTicks'
  BY <1>1, <1>5 DEF Backed, EvaluationsSeeTicks
<1>12. LastIsSecured'
  BY <1>1, <1>5, <1>8 DEF Backed, LastIsSecured
<1>13. JobsAreTrue'
  BY <1>5, <1>7 DEF Backed, JobsAreTrue
<1>14. TasksAreTrue'
  <2>1. ASSUME NEW g \in Handlers, g # h
        PROVE  /\ handler'[g].at = "strategy" => handler'[g].fresh # {}
               /\ Alone(g)' => spent'.other >= 1 /\ "enqueue" \in Kinds
               /\ \A b \in Buckets : handler'[g].bucket = b =>
                    /\ handler'[g].at = "strategy" => Seen(b)'
                    /\ handler'[g].at = "retire" => Evaluated(b)'
    <3>1. handler'[g] = handler[g] /\ spent' = spent
      BY <2>1, <1>1, <1>3
    <3>. QED BY <3>1, <1>5 DEF Backed, TasksAreTrue, Alone
  <2>2. ~ Alone(h)' /\ handler'[h].at = "alerts"
    BY <1>3 DEF Alone
  <2>. QED BY <2>1, <2>2 DEF TasksAreTrue
<1>. QED BY <1>10, <1>11, <1>12, <1>13, <1>14 DEF Backed

\* An evaluation of a later bucket stands for the earlier ones.
LEMMA EvaluatedBelow ==
    ASSUME Shape, Backed, NEW b \in Buckets, NEW c \in Buckets, b <= c, Evaluated(c)
    PROVE  Evaluated(b)
<1>1. PICK e \in evaluated : e.newest >= c
  BY DEF Evaluated
<1>2. e.newest \in Nat
  BY SeenIsBucket DEF Backed, EvaluationsSeeTicks
<1>3. e.newest >= b
  BY <1>1, <1>2, BucketTypes
<1>. QED BY <1>3 DEF Evaluated

\* An answer hands the newest bucket it carries to a task and to a fallback job, unless
\* an earlier answer has done so.
LEMMA AnswerIsBacked ==
    ASSUME Shape, Backed, [Next]_vars, NEW h \in Handlers, Answer(h) \/ AnswerWithoutFallback(h)
    PROVE  Backed'
<1>. DEFINE n == NewestBucket(handler[h].fresh)
<1>1. PICK enqueued \in BOOLEAN :
        /\ AnswerWith(h, n, enqueued)
        /\ ~ enqueued => Disturb("enqueue")
  BY DEF Answer, AnswerWithoutFallback
<1>2. /\ handler[h].at = "stored"
      /\ UNCHANGED <<feed, stored, evaluated>>
  BY DEF Answer, AnswerWithoutFallback
<1>3. handler[h].fresh \in SUBSET DOMAIN feed /\ handler[h].fresh \subseteq stored
  BY DEF Shape
<1>4. /\ \A i \in handler[h].fresh : Bucket(i) <= n
      /\ handler[h].fresh # {} => \E i \in handler[h].fresh : n = Bucket(i)
  BY <1>3, NewestBucketOf
<1>. DEFINE k == IF enqueued THEN n ELSE None
            r == [at |-> "strategy", batch |-> handler[h].batch, fresh |-> handler[h].fresh, bucket |-> k]
<1>5. \/ /\ handler[h].fresh # {} /\ n > lastBucket /\ n \in Buckets
         /\ lastBucket' = n
         /\ job' = IF enqueued /\ job[n] = "none" THEN [job EXCEPT ![n] = "PENDING"] ELSE job
         /\ Moved(h, r)
      \/ /\ handler[h].fresh # {} /\ n <= lastBucket
         /\ UNCHANGED <<lastBucket, job>>
         /\ Moved(h, At(h, "alerts"))
      \/ /\ handler[h].fresh = {}
         /\ UNCHANGED <<lastBucket, job>>
         /\ Moved(h, Free)
  BY <1>1, AnswerSteps
<1>. HIDE DEF n, k
<1>6. \A i : Bucket(i)' = Bucket(i)
  BY <1>2 DEF Bucket
<1>7. \A b : (Seen(b)' <=> Seen(b)) /\ (Evaluated(b)' <=> Evaluated(b))
  BY <1>2, <1>6 DEF Seen, Evaluated
<1>8. \A g \in Handlers : g # h => handler'[g] = handler[g]
  BY <1>5 DEF Moved
<1>9. \A g \in Handlers : Alone(g) => g # h /\ Alone(g)'
  BY <1>2, <1>8 DEF Alone
<1>10. job \in [Buckets -> {"none", "PENDING", "COMPLETED"}] /\ Buckets \subseteq Nat
       /\ lastBucket \in Buckets \cup {None}
  BY BucketTypes DEF Shape
<1>11. \A c \in Buckets : \/ job'[c] = job[c]
                          \/ c = n /\ job[c] = "none" /\ job'[c] = "PENDING" /\ handler[h].fresh # {}
  BY <1>5, <1>10
<1>12. \A b : Secured(b) => Secured(b)'
  <2>1. \A c \in Buckets : job[c] = "PENDING" => job'[c] = "PENDING"
    BY <1>11
  <2>. QED BY <2>1, <1>7, <1>9 DEF Secured
<1>13. ASSUME handler[h].fresh # {}, NEW b \in Buckets, b <= n PROVE Secured(b)'
  <2>0. n \in Buckets
    BY <1>13, <1>3, <1>4, BucketTypes
  <2>1. CASE lastBucket' = n /\ Moved(h, r) /\ enqueued
           /\ job' = IF enqueued /\ job[n] = "none" THEN [job EXCEPT ![n] = "PENDING"] ELSE job
    <3>1. job'[n] = "PENDING" \/ (job[n] = "COMPLETED")
      BY <2>0, <2>1, <1>10
    <3>2. CASE job'[n] = "PENDING"
      BY <3>2, <2>0, <1>10, <1>13 DEF Secured
    <3>3. CASE job[n] = "COMPLETED"
      <4>1. Evaluated(n)
        BY <3>3, <2>0 DEF Backed, JobsAreTrue
      <4>2. Evaluated(b)
        BY <4>1, <2>0, <1>13, EvaluatedBelow
      <4>. QED BY <4>2, <1>7 DEF Secured
    <3>. QED BY <3>1, <3>2, <3>3
  <2>2. CASE Moved(h, r) /\ ~ enqueued
    <3>1. Alone(h)'
      BY <2>2 DEF Moved, Alone, k
    <3>. QED BY <3>1 DEF Secured
  <2>3. CASE n <= lastBucket
    <3>1. lastBucket \in Buckets /\ lastBucket >= b
      BY <2>0, <2>3, <1>10, <1>13 DEF None
    <3>2. PICK c \in Buckets : c = lastBucket /\ c >= b
      BY <3>1
    <3>3. Secured(c)
      BY <3>2 DEF Backed, LastIsSecured
    <3>4. Secured(b)
      <4>1. CASE Evaluated(c)
        <5>1. b <= c
          BY <3>2, <1>10
        <5>2. Evaluated(b)
          BY <4>1, <5>1, EvaluatedBelow
        <5>. QED BY <5>2 DEF Secured
      <4>2. CASE \E d \in Buckets : d >= c /\ job[d] = "PENDING"
        <5>1. PICK d \in Buckets : d >= c /\ job[d] = "PENDING"
          BY <4>2
        <5>2. d >= b
          BY <5>1, <3>2, <1>10
        <5>. QED BY <5>1, <5>2 DEF Secured
      <4>3. CASE \E g \in Handlers : Alone(g)
        BY <4>3 DEF Secured
      <4>. QED BY <3>3, <4>1, <4>2, <4>3 DEF Secured
    <3>. QED BY <3>4, <1>12
  <2>. QED BY <1>5, <1>13, <2>1, <2>2, <2>3
<1>14. ASSUME NEW b \in Buckets, Carried(b) PROVE Secured(b)' \/ Carried(b)'
  <2>1. PICK g \in Handlers : handler[g].at = "stored" /\ \E i \in handler[g].fresh : Bucket(i) >= b
    BY <1>14 DEF Carried
  <2>2. CASE g # h
    <3>1. handler'[g] = handler[g]
      BY <2>2, <1>8
    <3>. QED BY <2>1, <3>1, <1>6 DEF Carried
  <2>3. CASE g = h
    <3>1. PICK i \in handler[h].fresh : Bucket(i) >= b
      BY <2>1, <2>3
    <3>2. Bucket(i) \in Buckets /\ n \in Buckets
      BY <3>1, <1>3, <1>4, BucketTypes
    <3>3. b <= n
      <4>1. Bucket(i) <= n
        BY <3>1, <1>4
      <4>2. Bucket(i) \in Nat /\ n \in Nat /\ b \in Nat
        BY <3>2, <1>10
      <4>. QED BY <4>1, <4>2, <3>1
    <3>. QED BY <3>1, <3>3, <1>13
  <2>. QED BY <2>2, <2>3
<1>15. TicksAreCovered'
  BY <1>7, <1>12, <1>14 DEF Backed, TicksAreCovered
<1>16. EvaluationsSeeTicks'
  BY <1>2, <1>7 DEF Backed, EvaluationsSeeTicks
<1>17. handler[h].fresh # {} => \A b \in Buckets : n = b => Seen(b)
  BY <1>3, <1>4 DEF Seen
<1>18. LastIsSecured'
  <2>. SUFFICES ASSUME NEW b \in Buckets, lastBucket' = b PROVE Seen(b)' /\ Secured(b)'
    BY DEF LastIsSecured
  <2>1. CASE lastBucket = b
    BY <2>1, <1>7, <1>12 DEF Backed, LastIsSecured
  <2>2. CASE handler[h].fresh # {} /\ n = b
    <3>1. b <= n
      BY <2>2, <1>10
    <3>. QED BY <2>2, <3>1, <1>7, <1>13, <1>17
  <2>. QED BY <2>1, <2>2, <1>5
<1>19. JobsAreTrue'
  BY <1>7, <1>11, <1>17 DEF Backed, JobsAreTrue
<1>20. TasksAreTrue'
  <2>0. spent.other \in Nat /\ spent'.other \in Nat /\ spent'.other >= spent.other
    BY SpentGrows
  <2>1. ASSUME NEW g \in Handlers, g # h
        PROVE  /\ handler'[g].at = "strategy" => handler'[g].fresh # {}
               /\ Alone(g)' => spent'.other >= 1 /\ "enqueue" \in Kinds
               /\ \A b \in Buckets : handler'[g].bucket = b =>
                    /\ handler'[g].at = "strategy" => Seen(b)'
                    /\ handler'[g].at = "retire" => Evaluated(b)'
    <3>1. handler'[g] = handler[g]
      BY <2>1, <1>8
    <3>2. Alone(g)' => Alone(g)
      BY <3>1 DEF Alone
    <3>3. Alone(g) => spent.other >= 1 /\ "enqueue" \in Kinds
      BY DEF Backed, TasksAreTrue
    <3>. QED BY <3>1, <3>2, <3>3, <2>0, <1>7 DEF Backed, TasksAreTrue
  <2>2. CASE Moved(h, r) /\ handler[h].fresh # {} /\ n \in Buckets
    <3>1. handler'[h].at = "strategy" /\ handler'[h].fresh = handler[h].fresh /\ handler'[h].bucket = k
      BY <2>2 DEF Moved
    <3>2. \A b \in Buckets : k = b => n = b
      BY <1>10 DEF k, None
    <3>3. Alone(h)' => ~ enqueued
      BY <3>1, <2>2, <1>10 DEF Alone, k, None
    <3>4. ~ enqueued => spent'.other >= 1 /\ "enqueue" \in Kinds
      <4>1. SUFFICES ASSUME ~ enqueued PROVE spent'.other # 0 /\ "enqueue" \in Kinds
        BY <2>0
      <4>. QED BY <4>1, <1>1, Disturbed DEF Disturb
    <3>. QED BY <2>1, <2>2, <3>1, <3>2, <3>3, <3>4, <1>7, <1>17 DEF TasksAreTrue
  <2>3. CASE handler'[h].at \in {"alerts", "free"}
    BY <2>1, <2>3 DEF TasksAreTrue, Alone
  <2>4. (Moved(h, At(h, "alerts")) \/ Moved(h, Free)) => handler'[h].at \in {"alerts", "free"}
    BY FreeIsRequest DEF Moved, At
  <2>. QED BY <2>2, <2>3, <2>4, <1>5
<1>. QED BY <1>15, <1>16, <1>18, <1>19, <1>20 DEF Backed

\* No step leaves a close without an evaluation, task or job.
LEMMA BackedIsKept ==
    ASSUME FallbackHolds, Shape, CandlesSumUp, Backed, [Next]_vars
    PROVE  Backed'
<1>0. \A i \in DOMAIN feed : feed' = feed => feed'[i] = feed[i]
  OBVIOUS
<1>1. CASE NewTick
  <2>1. \A i \in DOMAIN feed : feed'[i] = feed[i]
    BY <1>1, NewTickAppends
  <2>. QED BY <1>1, <2>1, QuietForBacked DEF NewTick, trigger
<1>2. CASE Pass \/ Poll \/ PollAfterSwitch \/ RestartBridge \/ Timeout
  BY <1>2, QuietForBacked DEF Pass, Poll, PollAfterSwitch, RestartBridge, Timeout, trigger
<1>3. CASE BeginCancel \/ CommitCancel \/ UNCHANGED vars
  BY <1>3, QuietForBacked DEF BeginCancel, CommitCancel, vars, trigger
<1>4. ASSUME NEW h \in Handlers, NEW r, Moved(h, r), r.at \notin {"stored", "strategy", "retire"},
             handler[h].at # "stored", ~ Alone(h), UNCHANGED <<feed, stored, evaluated, job, lastBucket>>
      PROVE  Backed'
  <2>1. \A g \in Handlers :
          handler'[g].at \in {"stored", "strategy", "retire"} \/ handler[g].at = "stored" \/ Alone(g)
             => handler'[g] = handler[g]
    <3>. TAKE g \in Handlers
    <3>1. CASE g = h
      BY <3>1, <1>4 DEF Moved
    <3>2. CASE g # h
      BY <3>2, <1>4 DEF Moved
    <3>. QED BY <3>1, <3>2
  <2>. QED BY <2>1, <1>4, QuietForBacked
<1>5. ASSUME NEW h \in Handlers, Post(h) PROVE Backed'
  <2>. DEFINE r == [at |-> "received", batch |-> Batch, fresh |-> {}, bucket |-> None]
  <2>1. Moved(h, r) /\ r.at = "received"
    BY <1>5, HandlerSteps
  <2>. HIDE DEF r
  <2>2. UNCHANGED <<feed, stored, evaluated, job, lastBucket>> /\ handler[h].at = "free"
    BY <1>5, FreeIsRequest DEF Post, trigger
  <2>. QED BY <2>1, <2>2, <1>4 DEF Alone
<1>6. ASSUME NEW h \in Handlers, ReadAlerts(h) \/ CommitAlert(h) \/ PushAlert(h) PROVE Backed'
  <2>1. UNCHANGED <<feed, stored, evaluated, job, lastBucket>> /\ handler[h].at \in {"alerts", "reading", "push"}
    BY <1>6 DEF ReadAlerts, CommitAlert, PushAlert, trigger
  <2>2. Moved(h, At(h, "reading")) \/ Moved(h, At(h, "push")) \/ Moved(h, Free)
    BY <1>6, HandlerSteps
  <2>3. At(h, "reading").at = "reading" /\ At(h, "push").at = "push"
    BY DEF At
  <2>. QED BY <2>1, <2>2, <2>3, <1>4, FreeIsRequest DEF Alone
<1>7. ASSUME NEW h \in Handlers, Alone(h) PROVE ~ Disturb("strategy") /\ ~ Disturb("crash")
  <2>1. spent.other >= 1 /\ "enqueue" \in Kinds /\ spent.other \in Nat
    BY <1>7, SpentGrows DEF Backed, TasksAreTrue
  <2>2. ASSUME MaxSpent <= 1 PROVE ~ (spent.other < MaxSpent)
    BY <2>1, <2>2, FeedTypes
  <2>3. \A kind \in {"strategy", "crash"} : Disturb(kind) => kind \in Kinds /\ spent.other < MaxSpent
    <3>. TAKE kind \in {"strategy", "crash"}
    <3>1. kind # "timeout"
      OBVIOUS
    <3>. QED BY <3>1 DEF Disturb, Shape
  <2>. QED BY <2>1, <2>2, <2>3 DEF FallbackHolds
<1>8. ASSUME NEW h \in Handlers, StrategyFails(h) PROVE Backed'
  <2>1. UNCHANGED <<feed, stored, evaluated, job, lastBucket>> /\ handler[h].at = "strategy" /\ Disturb("strategy")
    BY <1>8 DEF StrategyFails, trigger
  <2>2. ~ Alone(h)
    BY <2>1, <1>7
  <2>3. Moved(h, At(h, "alerts")) /\ At(h, "alerts").at = "alerts"
    BY <1>8, HandlerSteps DEF At
  <2>. QED BY <2>1, <2>2, <2>3, <1>4
<1>9. CASE Crash
  <2>1. /\ Disturb("crash") /\ \A h \in Handlers : handler[h].at \in CrashPoints \cup {"free"}
        /\ handler' = [h \in Handlers |-> Free] /\ lastBucket' = None
        /\ UNCHANGED <<feed, stored, evaluated, job>>
    BY <1>9 DEF Crash
  <2>2. \A g \in Handlers : handler[g].at # "stored" /\ ~ Alone(g) /\ handler'[g].at = "free"
    BY <2>1, <1>7, FreeIsRequest DEF FallbackHolds
  <2>. QED BY <2>1, <2>2, QuietForBacked
<1>10. ASSUME NEW h \in Handlers,
              Ingest(h) \/ Answer(h) \/ AnswerWithoutFallback(h) \/ RunStrategy(h) \/ Retire(h)
       PROVE  Backed'
  BY <1>10, IngestIsBacked, AnswerIsBacked, RunIsBacked, RetireIsBacked
<1>11. ASSUME NEW b \in Buckets, RunFallback(b) PROVE Backed'
  BY <1>11, FallbackIsBacked
<1>. QED BY <1>1, <1>2, <1>3, <1>5, <1>6, <1>8, <1>9, <1>10, <1>11 DEF Next, Serve

\* The close that the newest stored tick made is evaluated when all work is done, over
\* any crash but one between the ticks and their fallback job, and any single failure
\* of the task or of its job (CloseIsEvaluated).
THEOREM ClosesAreEvaluated ==
    ASSUME FallbackHolds
    PROVE  Spec => []CloseIsEvaluated
<1>1. Init => Backed
  BY FreeIsRequest, BucketTypes, InitShape
     DEF Init, Backed, EvaluationsSeeTicks, TicksAreCovered, LastIsSecured, JobsAreTrue, TasksAreTrue,
         Seen, Alone, None
<1>2. Shape /\ CandlesSumUp /\ Backed /\ [Next]_vars => Backed'
  BY BackedIsKept
<1>3. ASSUME Shape, Backed PROVE CloseIsEvaluated
  <2>. SUFFICES ASSUME Resting, stored # {}
                PROVE  \E e \in evaluated : e.newest = NewestBucket(stored)
    BY DEF CloseIsEvaluated
  <2>1. stored \in SUBSET DOMAIN feed
    BY <1>3 DEF Shape
  <2>2. PICK i \in stored : NewestBucket(stored) = Bucket(i)
    BY <1>3, <2>1, NewestBucketOf
  <2>3. PICK b \in Buckets : b = Bucket(i)
    BY <1>3, <2>1, BucketTypes
  <2>4. Seen(b)
    BY <2>3 DEF Seen
  <2>5. Secured(b) \/ Carried(b)
    BY <1>3, <2>4 DEF Backed, TicksAreCovered
  <2>6. \A h \in Handlers : handler[h].at = "free"
    BY FreeIsRequest DEF Resting
  <2>7. \A c \in Buckets : job[c] # "PENDING"
    BY DEF Resting
  <2>8. Evaluated(b)
    BY <2>5, <2>6, <2>7 DEF Secured, Carried, Alone
  <2>9. PICK e \in evaluated : e.newest >= b
    BY <2>8 DEF Evaluated
  <2>10. PICK j \in stored : e.newest = Bucket(j)
    BY <1>3 DEF Backed, EvaluationsSeeTicks, Seen
  <2>11. e.newest <= NewestBucket(stored)
    BY <1>3, <2>1, <2>10, NewestBucketOf
  <2>12. e.newest \in Nat /\ b \in Nat
    BY <1>3, <2>1, <2>10, BucketTypes
  <2>13. e.newest = b
    BY <2>2, <2>3, <2>9, <2>11, <2>12
  <2>. QED BY <2>2, <2>3, <2>13
<1>. QED BY <1>1, <1>2, <1>3, FeedIsWellShaped, CandlesSumUpAlways, PTL DEF Spec

----------------------------------------------------------------------------
(* The order of the ticks.                                                 *)

\* When ticks arrive in the order of their time: the history is not behind the latest
\* tick, and no bridge starts again, or it does so early enough for the first poll
\* before it and for its lookback to have found everything.  A bridge that starts again
\* and reads further back than the first poll did brings ticks of closed candles.
InStep ==
  /\ HistoryLag = FALSE
  /\ "bridge" \in Kinds => MaxTime <= FirstPoll /\ MaxTime <= Lookback

Older(i, j) == feed[i].t < feed[j].t

Holds(s, i) == \E p \in DOMAIN s : s[p] = i

\* A tick that came before the first poll could see it; no poll will read it any more.
Lost(i) ==
  /\ i \notin stored /\ ~ Holds(buffer, i)
  /\ feed[i].t < clock - FirstPoll
  /\ collector.seen # None /\ feed[i].t < collector.seen

Gone(i) == i \in stored \/ Lost(i)

\* What is older than a tick of the queue is stored, lost, or ahead of it.
Ordered(s) ==
  \A p \in DOMAIN s : \A i \in DOMAIN feed :
    Older(i, s[p]) => Gone(i) \/ \E q \in DOMAIN s : q < p /\ s[q] = i

Kept(i) == i \in stored \/ Holds(buffer, i)

\* What the collector knows, the requests and the sender hold is still on its way or in the table.
NothingBeforeFirst == collector.seen = None => stored = {} /\ DOMAIN buffer = {}
KnownIsKept == \A i \in collector.known : Kept(i)
SeenIsKept == collector.seen # None => \E k \in DOMAIN feed : Kept(k) /\ feed[k].t = collector.seen
BatchesAreKept ==
  \A h \in Handlers : \A p \in DOMAIN handler[h].batch :
    /\ handler[h].at = "received" => Kept(handler[h].batch[p])
    /\ handler[h].at = "stored" => handler[h].batch[p] \in stored
PostIsOut ==
  post # Idle =>
    /\ post.to \in Handlers /\ handler[post.to].at \in {"received", "stored"}
    /\ post.n <= Len(buffer)
    /\ \A p \in DOMAIN buffer : p <= post.n => Holds(handler[post.to].batch, buffer[p])

\* The queue, the batches and the table are in order.
BufferIsOrdered == Ordered(buffer)
BatchesAreOrdered == \A h \in Handlers : handler[h].at = "received" => Ordered(handler[h].batch)
TableIsOrdered == \A j \in stored : \A i \in DOMAIN feed : Older(i, j) => Gone(i)

Flow ==
  /\ NothingBeforeFirst /\ KnownIsKept /\ SeenIsKept /\ BatchesAreKept /\ PostIsOut
  /\ BufferIsOrdered /\ BatchesAreOrdered /\ TableIsOrdered

\* An evaluation at a time when its newest candle was current.
ClosedStayTrue ==
  \A e \in evaluated : \A b \in DOMAIN e.closed :
    /\ b \in DOMAIN candles
    /\ e.newest >= e.at => b < e.newest /\ Seen(e.newest) /\ candles[b] = e.closed[b]

\* Older ticks come first in the feed.
LEMMA OlderIsBefore ==
    ASSUME Shape, NEW i \in DOMAIN feed, NEW j \in DOMAIN feed, Older(i, j)
    PROVE  i < j
<1>1. feed[i].t \in Int /\ feed[j].t \in Int /\ i \in Nat /\ j \in Nat
  BY TickTimes
<1>2. j <= i => feed[j].t <= feed[i].t
  BY DEF Shape
<1>. QED BY <1>1, <1>2 DEF Older

\* The ticks the queues and the table name.
LEMMA NamedTicks ==
    ASSUME Shape
    PROVE  /\ \A p \in DOMAIN buffer : buffer[p] \in DOMAIN feed
           /\ \A h \in Handlers : \A p \in DOMAIN handler[h].batch : handler[h].batch[p] \in DOMAIN feed
           /\ stored \subseteq DOMAIN feed /\ collector.known \subseteq DOMAIN feed
           /\ clock \in Int /\ FirstPoll \in Int /\ Lookback \in Int /\ collector.seen \in Int
  BY FeedTypes DEF Shape

\* A step that leaves the queues alone keeps what is gone and what is in order.
LEMMA QuietFlow ==
    ASSUME Shape, Flow, UNCHANGED <<feed, collector, buffer, stored>>,
           clock' \in Int, clock' >= clock, post' \in {post, Idle},
           \A g \in Handlers : handler'[g].at \in {"received", "stored"} => handler'[g] = handler[g],
           post' # Idle => handler' = handler \/ handler'[post.to] = handler[post.to]
    PROVE  Flow'
<1>1. \A i \in DOMAIN feed : Gone(i) => Gone(i)'
  <2>1. \A i \in DOMAIN feed : feed[i].t \in Int
    BY TickTimes
  <2>. QED BY <2>1, NamedTicks DEF Gone, Lost, Holds
<1>2. \A i : Kept(i)' <=> Kept(i)
  BY DEF Kept, Holds
<1>3. NothingBeforeFirst' /\ KnownIsKept' /\ SeenIsKept'
  BY <1>2 DEF Flow, NothingBeforeFirst, KnownIsKept, SeenIsKept
<1>4. BatchesAreKept'
  <2>. SUFFICES ASSUME NEW g \in Handlers, NEW p \in DOMAIN handler'[g].batch,
                       handler'[g].at \in {"received", "stored"}
                PROVE  (/\ handler[g].at = "received" => Kept(handler[g].batch[p])
                        /\ handler[g].at = "stored" => handler[g].batch[p] \in stored)'
    BY DEF BatchesAreKept
  <2>1. handler'[g] = handler[g]
    OBVIOUS
  <2>. QED BY <2>1 DEF Flow, BatchesAreKept, Kept, Holds
<1>5. PostIsOut'
  <2>1. CASE post' = post /\ post # Idle
    <3>1. post.to \in Handlers /\ handler'[post.to] = handler[post.to]
      BY <2>1 DEF Flow, PostIsOut
    <3>. QED BY <2>1, <3>1 DEF Flow, PostIsOut, Holds
  <2>2. CASE post' = Idle
    BY <2>2 DEF PostIsOut, Idle
  <2>. QED BY <2>1, <2>2
<1>6. BufferIsOrdered'
  BY <1>1, NamedTicks DEF Flow, BufferIsOrdered, Ordered, Older
<1>7. BatchesAreOrdered'
  <2>. SUFFICES ASSUME NEW g \in Handlers, handler'[g].at = "received"
                PROVE  Ordered(handler[g].batch)'
    BY DEF BatchesAreOrdered
  <2>1. handler'[g] = handler[g] /\ Ordered(handler[g].batch)
    BY DEF Flow, BatchesAreOrdered
  <2>. QED BY <2>1, <1>1, NamedTicks DEF Ordered, Older
<1>8. TableIsOrdered'
  BY <1>1, NamedTicks DEF Flow, TableIsOrdered, Older
<1>. QED BY <1>3, <1>4, <1>5, <1>6, <1>7, <1>8 DEF Flow

\* A new tick is older than none.
LEMMA NewTickFlows ==
    ASSUME Shape, Flow, NewTick
    PROVE  Flow'
<1>1. /\ DOMAIN feed' = DOMAIN feed \cup {Len(feed) + 1}
      /\ \A i \in DOMAIN feed : feed'[i] = feed[i]
      /\ feed'[Len(feed) + 1].t = clock
  BY NewTickAppends
<1>2. UNCHANGED <<clock, collector, buffer, post, handler, stored>>
  BY DEF NewTick, bridge
<1>3. /\ \A p \in DOMAIN buffer : buffer[p] \in DOMAIN feed
      /\ \A h \in Handlers : \A p \in DOMAIN handler[h].batch : handler[h].batch[p] \in DOMAIN feed
      /\ stored \subseteq DOMAIN feed
      /\ \A i \in DOMAIN feed : feed[i].t \in Int /\ feed[i].t <= clock
      /\ clock \in Int
  BY NamedTicks, TickTimes
<1>4. \A i \in DOMAIN feed : Gone(i) => Gone(i)'
  BY <1>1, <1>2 DEF Gone, Lost, Holds
<1>5. \A j \in DOMAIN feed, i \in DOMAIN feed' : Older(i, j)' => i \in DOMAIN feed /\ Older(i, j)
  <2>. SUFFICES ASSUME NEW j \in DOMAIN feed, NEW i \in DOMAIN feed', feed'[i].t < feed'[j].t
                PROVE  i \in DOMAIN feed /\ feed[i].t < feed[j].t
    BY DEF Older
  <2>1. CASE i \in DOMAIN feed
    BY <2>1, <1>1
  <2>2. CASE i = Len(feed) + 1
    BY <2>2, <1>1, <1>3
  <2>. QED BY <2>1, <2>2, <1>1
<1>6. ASSUME NEW s, \A p \in DOMAIN s : s[p] \in DOMAIN feed, Ordered(s) PROVE Ordered(s)'
  <2>. SUFFICES ASSUME NEW p \in DOMAIN s, NEW i \in DOMAIN feed', Older(i, s[p])'
                PROVE  Gone(i)' \/ \E q \in DOMAIN s : q < p /\ s[q] = i
    BY DEF Ordered
  <2>1. s[p] \in DOMAIN feed
    BY <1>6
  <2>2. PICK j \in DOMAIN feed : j = s[p]
    BY <2>1
  <2>3. Older(i, j)'
    BY <2>2
  <2>4. i \in DOMAIN feed /\ Older(i, j)
    BY <2>3, <1>5
  <2>. QED BY <2>2, <2>4, <1>4, <1>6 DEF Ordered
<1>7. BufferIsOrdered'
  <2>1. PICK s : s = buffer
    OBVIOUS
  <2>2. Ordered(s) /\ \A p \in DOMAIN s : s[p] \in DOMAIN feed
    BY <2>1, <1>3 DEF Flow, BufferIsOrdered
  <2>3. Ordered(s)'
    BY <2>2, <1>6
  <2>. QED BY <2>1, <2>3, <1>2 DEF BufferIsOrdered, Ordered
<1>8. BatchesAreOrdered'
  <2>. SUFFICES ASSUME NEW g \in Handlers, handler[g].at = "received"
                PROVE  Ordered(handler[g].batch)'
    BY <1>2 DEF BatchesAreOrdered
  <2>1. PICK s : s = handler[g].batch
    OBVIOUS
  <2>2. Ordered(s) /\ \A p \in DOMAIN s : s[p] \in DOMAIN feed
    BY <2>1, <1>3 DEF Flow, BatchesAreOrdered
  <2>3. Ordered(s)'
    BY <2>2, <1>6
  <2>. QED BY <2>1, <2>3, <1>2 DEF Ordered
<1>9. TableIsOrdered'
  <2>. SUFFICES ASSUME NEW j \in stored, NEW i \in DOMAIN feed', Older(i, j)' PROVE Gone(i)'
    BY <1>2 DEF TableIsOrdered
  <2>1. i \in DOMAIN feed /\ Older(i, j)
    BY <1>3, <1>5
  <2>. QED BY <2>1, <1>4 DEF Flow, TableIsOrdered
<1>10. NothingBeforeFirst' /\ KnownIsKept' /\ SeenIsKept' /\ BatchesAreKept' /\ PostIsOut'
  <2>1. \A i : Kept(i)' <=> Kept(i)
    BY <1>2 DEF Kept, Holds
  <2>2. NothingBeforeFirst' /\ KnownIsKept' /\ PostIsOut'
    BY <1>2, <2>1 DEF Flow, NothingBeforeFirst, KnownIsKept, PostIsOut, Holds
  <2>3. BatchesAreKept'
    BY <1>2 DEF Flow, BatchesAreKept, Kept, Holds
  <2>4. SeenIsKept'
    BY <1>1, <1>2, <2>1 DEF Flow, SeenIsKept
  <2>. QED BY <2>2, <2>3, <2>4
<1>. QED BY <1>7, <1>8, <1>9, <1>10 DEF Flow

\* A request takes the beginning of the buffer.
LEMMA PostFlows ==
    ASSUME Shape, Flow, NEW h \in Handlers, Post(h)
    PROVE  Flow'
<1>1. /\ post' = [to |-> h, n |-> Len(Batch)] /\ handler[h] = Free
      /\ UNCHANGED <<clock, feed, collector, buffer, stored>>
  BY DEF Post
<1>. DEFINE r == [at |-> "received", batch |-> Batch, fresh |-> {}, bucket |-> None]
<1>2. Moved(h, r)
  BY HandlerSteps
<1>3. /\ Len(Batch) \in Nat /\ DOMAIN Batch = 1..Len(Batch) /\ Len(Batch) <= Len(buffer)
      /\ \A p \in 1..Len(Batch) : Batch[p] = buffer[p] /\ p \in DOMAIN buffer
      /\ DOMAIN buffer = 1..Len(buffer) /\ Len(buffer) \in Nat
  <2>1. DOMAIN buffer = 1..Len(buffer) /\ Len(buffer) \in Nat
    BY DEF Shape
  <2>. QED BY <2>1, BatchOf
<1>4. PICK s : s = Batch
  OBVIOUS
<1>5. /\ handler'[h].at = "received" /\ handler'[h].batch = s
      /\ \A g \in Handlers : g # h => handler'[g] = handler[g]
  BY <1>2, <1>4 DEF Moved
<1>. HIDE DEF r
<1>6. \A i : (Kept(i)' <=> Kept(i)) /\ (Gone(i)' <=> Gone(i))
  BY <1>1 DEF Kept, Gone, Lost, Holds
<1>7. NothingBeforeFirst' /\ KnownIsKept' /\ SeenIsKept'
  BY <1>1, <1>6 DEF Flow, NothingBeforeFirst, KnownIsKept, SeenIsKept
<1>8. BufferIsOrdered' /\ TableIsOrdered'
  BY <1>1, <1>6 DEF Flow, BufferIsOrdered, Ordered, TableIsOrdered, Older
<1>9. BatchesAreKept'
  <2>. SUFFICES ASSUME NEW g \in Handlers, NEW p \in DOMAIN handler'[g].batch
                PROVE  (/\ handler[g].at = "received" => Kept(handler[g].batch[p])
                        /\ handler[g].at = "stored" => handler[g].batch[p] \in stored)'
    BY DEF BatchesAreKept
  <2>1. CASE g = h
    <3>1. p \in DOMAIN buffer /\ s[p] = buffer[p]
      BY <2>1, <1>3, <1>4, <1>5
    <3>. QED BY <2>1, <3>1, <1>1, <1>5 DEF Kept, Holds
  <2>2. CASE g # h
    <3>1. handler'[g] = handler[g]
      BY <2>2, <1>5
    <3>. QED BY <3>1, <1>1 DEF Flow, BatchesAreKept, Kept, Holds
  <2>. QED BY <2>1, <2>2
<1>10. PostIsOut'
  <2>1. post'.to = h /\ post'.n = Len(Batch)
    BY <1>1
  <2>2. \A p \in DOMAIN buffer : p <= Len(Batch) => Holds(s, buffer[p])
    <3>. SUFFICES ASSUME NEW p \in 1..Len(buffer), p <= Len(Batch) PROVE Holds(s, buffer[p])
      BY <1>3
    <3>1. p \in 1..Len(Batch)
      BY <1>3
    <3>. QED BY <3>1, <1>3, <1>4 DEF Holds
  <2>3. \A p \in DOMAIN buffer : p <= Len(Batch) => Holds(handler[h].batch, buffer[p])'
    BY <2>2, <1>1, <1>5 DEF Holds
  <2>4. post'.n <= Len(buffer')
    BY <2>1, <1>1, <1>3
  <2>. QED BY <2>1, <2>3, <2>4, <1>1, <1>5 DEF PostIsOut, Holds
<1>11. BatchesAreOrdered'
  <2>. SUFFICES ASSUME NEW g \in Handlers, handler'[g].at = "received"
                PROVE  Ordered(handler[g].batch)'
    BY DEF BatchesAreOrdered
  <2>1. CASE g = h
    <3>1. Ordered(s)
      <4>. SUFFICES ASSUME NEW p \in DOMAIN s, NEW i \in DOMAIN feed, Older(i, s[p]), ~ Gone(i)
                    PROVE  \E q \in DOMAIN s : q < p /\ s[q] = i
        BY DEF Ordered
      <4>1. p \in DOMAIN buffer /\ s[p] = buffer[p] /\ p \in 1..Len(Batch)
        BY <1>3, <1>4
      <4>2. PICK q \in DOMAIN buffer : q < p /\ buffer[q] = i
        BY <4>1 DEF Flow, BufferIsOrdered, Ordered
      <4>3. q \in 1..Len(Batch)
        BY <4>1, <4>2, <1>3
      <4>. QED BY <4>2, <4>3, <1>3, <1>4
    <3>. QED BY <2>1, <3>1, <1>1, <1>5, <1>6 DEF Ordered, Older
  <2>2. CASE g # h
    <3>1. handler'[g] = handler[g]
      BY <2>2, <1>5
    <3>2. Ordered(handler[g].batch)
      BY <3>1 DEF Flow, BatchesAreOrdered
    <3>. QED BY <3>1, <3>2, <1>1, <1>6 DEF Ordered, Older
  <2>. QED BY <2>1, <2>2
<1>. QED BY <1>7, <1>8, <1>9, <1>10, <1>11 DEF Flow

\* What a request stores was in order, and what was lost is not in it.
LEMMA IngestFlows ==
    ASSUME Shape, Flow, NEW h \in Handlers, Ingest(h)
    PROVE  Flow'
<1>1. /\ handler[h].at = "received" /\ stored' = stored \cup Fresh(handler[h].batch)
      /\ UNCHANGED <<clock, feed, collector, buffer, post>>
  BY DEF Ingest, bridge
<1>2. PICK s : s = handler[h].batch
  OBVIOUS
<1>3. \A i : i \in stored' <=> i \in stored \/ Holds(s, i)
  BY <1>1, <1>2 DEF Fresh, ToSet, Holds
<1>4. /\ handler'[h].at = "stored" /\ handler'[h].batch = s
      /\ \A g \in Handlers : g # h => handler'[g] = handler[g]
  <2>. DEFINE r == [at |-> "stored", batch |-> handler[h].batch,
                    fresh |-> Fresh(handler[h].batch), bucket |-> handler[h].bucket]
  <2>1. Moved(h, r) /\ r.at = "stored" /\ r.batch = s
    BY <1>2, HandlerSteps
  <2>. HIDE DEF r
  <2>. QED BY <2>1 DEF Moved
<1>5. \A i : Holds(s, i) => Kept(i)
  BY <1>1, <1>2 DEF Flow, BatchesAreKept, Holds
<1>6. \A i : (Kept(i) => Kept(i)') /\ (Gone(i) => Gone(i)')
  BY <1>1, <1>3, <1>5 DEF Kept, Gone, Lost, Holds
<1>7. KnownIsKept' /\ SeenIsKept'
  BY <1>1, <1>6 DEF Flow, KnownIsKept, SeenIsKept
<1>8. NothingBeforeFirst'
  BY <1>1, <1>3, <1>5 DEF Flow, NothingBeforeFirst, Kept, Holds
<1>9. BatchesAreKept'
  <2>. SUFFICES ASSUME NEW g \in Handlers, NEW p \in DOMAIN handler'[g].batch
                PROVE  (/\ handler[g].at = "received" => Kept(handler[g].batch[p])
                        /\ handler[g].at = "stored" => handler[g].batch[p] \in stored)'
    BY DEF BatchesAreKept
  <2>1. CASE g = h
    <3>1. Holds(s, s[p])
      BY <2>1, <1>4 DEF Holds
    <3>. QED BY <2>1, <3>1, <1>3, <1>4
  <2>2. CASE g # h
    <3>1. handler'[g] = handler[g]
      BY <2>2, <1>4
    <3>. QED BY <3>1, <1>1, <1>3 DEF Flow, BatchesAreKept, Kept, Holds
  <2>. QED BY <2>1, <2>2
<1>10. PostIsOut'
  <2>1. post # Idle => handler'[post.to].at \in {"received", "stored"}
                       /\ handler'[post.to].batch = handler[post.to].batch
    <3>1. CASE post.to = h
      BY <3>1, <1>2, <1>4
    <3>2. CASE post.to # h
      BY <3>2, <1>4 DEF Flow, PostIsOut
    <3>. QED BY <3>1, <3>2
  <2>. QED BY <2>1, <1>1 DEF Flow, PostIsOut, Holds, Idle
<1>11. BufferIsOrdered'
  BY <1>1, <1>6 DEF Flow, BufferIsOrdered, Ordered, Older
<1>12. BatchesAreOrdered'
  <2>. SUFFICES ASSUME NEW g \in Handlers, handler'[g].at = "received"
                PROVE  Ordered(handler[g].batch)'
    BY DEF BatchesAreOrdered
  <2>1. handler'[g] = handler[g] /\ Ordered(handler[g].batch)
    BY <1>4 DEF Flow, BatchesAreOrdered
  <2>. QED BY <2>1, <1>1, <1>6 DEF Ordered, Older
<1>13. TableIsOrdered'
  <2>. SUFFICES ASSUME NEW j \in stored', NEW i \in DOMAIN feed, Older(i, j) PROVE Gone(i)'
    BY <1>1 DEF TableIsOrdered, Older
  <2>1. CASE j \in stored
    BY <2>1, <1>6 DEF Flow, TableIsOrdered
  <2>2. CASE Holds(s, j)
    <3>1. PICK p \in DOMAIN s : s[p] = j
      BY <2>2 DEF Holds
    <3>2. Gone(i) \/ Holds(s, i)
      BY <3>1, <1>1, <1>2 DEF Flow, BatchesAreOrdered, Ordered, Holds
    <3>. QED BY <3>2, <1>3, <1>6 DEF Gone
  <2>. QED BY <2>1, <2>2, <1>3
<1>. QED BY <1>7, <1>8, <1>9, <1>10, <1>11, <1>12, <1>13 DEF Flow

\* An answer takes from the buffer what is in the table.
LEMMA AnswerFlows ==
    ASSUME Shape, Flow, NEW h \in Handlers, Answer(h) \/ AnswerWithoutFallback(h)
    PROVE  Flow'
<1>1. /\ handler[h].at = "stored" /\ Answered(h)
      /\ UNCHANGED <<clock, feed, collector, stored>>
  BY DEF Answer, AnswerWithoutFallback
<1>2. PICK r \in Request : Moved(h, r) /\ r.at \in {"strategy", "alerts", "free"}
  BY AnsweringIsQuiet
<1>3. /\ handler'[h].at \notin {"received", "stored"}
      /\ \A g \in Handlers : g # h => handler'[g] = handler[g]
  BY <1>2 DEF Moved
<1>4. CASE post.to # h
  <2>1. UNCHANGED <<buffer, post>> /\ clock \in Int
    BY <1>1, <1>4, NamedTicks DEF Answered
  <2>2. post' # Idle => handler'[post.to] = handler[post.to]
    BY <2>1, <1>3, <1>4 DEF Flow, PostIsOut
  <2>. QED BY <1>1, <1>3, <2>1, <2>2, QuietFlow
<1>5. CASE post.to = h
  <2>1. buffer' = SubSeq(buffer, post.n + 1, Len(buffer)) /\ post' = Idle
    BY <1>1, <1>5 DEF Answered
  <2>2. buffer \in Seq(Nat) /\ post.n \in Nat /\ DOMAIN buffer = 1..Len(buffer) /\ Len(buffer) \in Nat
    BY DEF Shape
  <2>3. /\ DOMAIN buffer' = 1..Len(buffer')
        /\ Len(buffer') = IF post.n <= Len(buffer) THEN Len(buffer) - post.n ELSE 0
        /\ \A p \in 1..Len(buffer') : p + post.n \in DOMAIN buffer /\ buffer'[p] = buffer[p + post.n]
    <3>0. PICK n, rest : n = post.n /\ rest = buffer'
      OBVIOUS
    <3>1. n \in Nat /\ rest = SubSeq(buffer, n + 1, Len(buffer)) /\ buffer \in Seq(Nat)
      BY <2>1, <2>2, <3>0
    <3>2. /\ DOMAIN rest = 1..Len(rest)
          /\ Len(rest) = IF n <= Len(buffer) THEN Len(buffer) - n ELSE 0
      BY <3>1, Rest
    <3>3. \A p \in 1..Len(rest) : p + n \in DOMAIN buffer /\ rest[p] = buffer[p + n]
      BY <3>1, Rest
    <3>. QED BY <3>0, <3>2, <3>3
  <2>4. \A p \in DOMAIN buffer : p <= post.n => buffer[p] \in stored
    <3>. SUFFICES ASSUME NEW p \in DOMAIN buffer, p <= post.n PROVE buffer[p] \in stored
      OBVIOUS
    <3>1. CASE post = Idle
      <4>1. post.n = 0
        BY <3>1 DEF Idle
      <4>. QED BY <4>1, <2>2
    <3>2. CASE post # Idle
      <4>1. Holds(handler[h].batch, buffer[p])
        BY <3>2, <1>5 DEF Flow, PostIsOut
      <4>. QED BY <4>1, <1>1 DEF Flow, BatchesAreKept, Holds
    <3>. QED BY <3>1, <3>2
  <2>5. \A p \in DOMAIN buffer : p > post.n => p - post.n \in DOMAIN buffer' /\ buffer'[p - post.n] = buffer[p]
    <3>. SUFFICES ASSUME NEW p \in 1..Len(buffer), p > post.n
                  PROVE  p - post.n \in DOMAIN buffer' /\ buffer'[p - post.n] = buffer[p]
      BY <2>2
    <3>1. p - post.n \in 1..Len(buffer') /\ (p - post.n) + post.n = p
      BY <2>2, <2>3
    <3>. QED BY <3>1, <2>3
  <2>6. \A i : Holds(buffer', i) => Holds(buffer, i)
    BY <2>3 DEF Holds
  <2>7. \A i : Holds(buffer, i) => i \in stored \/ Holds(buffer', i)
    <3>. SUFFICES ASSUME NEW p \in DOMAIN buffer PROVE buffer[p] \in stored \/ Holds(buffer', buffer[p])
      BY DEF Holds
    <3>1. p \in Nat
      BY <2>2
    <3>. QED BY <3>1, <2>2, <2>4, <2>5 DEF Holds
  <2>8. \A i : (Kept(i)' <=> Kept(i)) /\ (Gone(i) => Gone(i)')
    BY <1>1, <2>6, <2>7 DEF Kept, Gone, Lost, Holds
  <2>9. KnownIsKept' /\ SeenIsKept' /\ NothingBeforeFirst'
    <3>1. DOMAIN buffer = {} => DOMAIN buffer' = {}
      BY <2>2, <2>3
    <3>. QED BY <3>1, <1>1, <2>8 DEF Flow, KnownIsKept, SeenIsKept, NothingBeforeFirst
  <2>10. PostIsOut'
    BY <2>1 DEF PostIsOut, Idle
  <2>11. BatchesAreKept'
    <3>. SUFFICES ASSUME NEW g \in Handlers, NEW p \in DOMAIN handler'[g].batch,
                         handler'[g].at \in {"received", "stored"}
                  PROVE  (/\ handler[g].at = "received" => Kept(handler[g].batch[p])
                          /\ handler[g].at = "stored" => handler[g].batch[p] \in stored)'
      BY DEF BatchesAreKept
    <3>1. handler'[g] = handler[g]
      BY <1>3
    <3>2. PICK i : i = handler[g].batch[p]
      OBVIOUS
    <3>3. (handler[g].at = "received" => Kept(i)) /\ (handler[g].at = "stored" => i \in stored)
      BY <3>1, <3>2 DEF Flow, BatchesAreKept
    <3>4. Kept(i) => Kept(i)'
      BY <2>8
    <3>. QED BY <3>1, <3>2, <3>3, <3>4, <1>1 DEF Kept, Holds
  <2>12. BufferIsOrdered'
    <3>. SUFFICES ASSUME NEW p \in DOMAIN buffer', NEW i \in DOMAIN feed, Older(i, buffer'[p])
                  PROVE  Gone(i)' \/ \E q \in DOMAIN buffer' : q < p /\ buffer'[q] = i
      BY <1>1 DEF BufferIsOrdered, Ordered, Older
    <3>1. p \in 1..Len(buffer') /\ p + post.n \in DOMAIN buffer /\ buffer'[p] = buffer[p + post.n]
      BY <2>3
    <3>2. Gone(i) \/ \E q \in DOMAIN buffer : q < p + post.n /\ buffer[q] = i
      BY <3>1 DEF Flow, BufferIsOrdered, Ordered
    <3>3. ASSUME NEW q \in DOMAIN buffer, q < p + post.n, buffer[q] = i
          PROVE  Gone(i)' \/ \E k \in DOMAIN buffer' : k < p /\ buffer'[k] = i
      <4>1. q \in Nat /\ p \in Nat
        BY <2>2, <3>1
      <4>2. CASE q <= post.n
        BY <4>2, <3>3, <2>4, <1>1 DEF Gone
      <4>3. CASE q > post.n
        <5>1. q - post.n \in DOMAIN buffer' /\ buffer'[q - post.n] = i /\ q - post.n < p
          BY <4>1, <4>3, <3>3, <2>2, <2>5
        <5>. QED BY <5>1
      <4>. QED BY <4>1, <4>2, <4>3, <2>2
    <3>. QED BY <3>2, <3>3, <2>8
  <2>13. BatchesAreOrdered'
    <3>. SUFFICES ASSUME NEW g \in Handlers, handler'[g].at = "received"
                  PROVE  Ordered(handler[g].batch)'
      BY DEF BatchesAreOrdered
    <3>1. handler'[g] = handler[g] /\ Ordered(handler[g].batch)
      BY <1>3 DEF Flow, BatchesAreOrdered
    <3>. QED BY <3>1, <1>1, <2>8 DEF Ordered, Older
  <2>14. TableIsOrdered'
    BY <1>1, <2>8 DEF Flow, TableIsOrdered, Older
  <2>. QED BY <2>9, <2>10, <2>11, <2>12, <2>13, <2>14 DEF Flow
<1>. QED BY <1>4, <1>5

\* What a poll adds to a queue and to what the collector knows.
Adds(since, seen, known, queue, new) ==
  /\ \A i : Holds(new, i) <=> i \in DOMAIN feed \ known /\ (feed[i].t >= since \/ i = Len(feed))
  /\ \A p, q \in DOMAIN new : p < q => new[p] < new[q]
  /\ Len(buffer') = Len(queue) + Len(new) /\ DOMAIN buffer' = 1..(Len(queue) + Len(new))
  /\ \A p \in DOMAIN queue : buffer'[p] = queue[p] /\ p \in DOMAIN buffer'
  /\ \A p \in DOMAIN new : /\ buffer'[Len(queue) + p] = new[p]
                           /\ Len(queue) + p \in DOMAIN buffer'
  /\ \A i : i \in collector'.known <=> i \in known \/ Holds(new, i)
  /\ DOMAIN new = {} => collector'.seen = seen
  /\ DOMAIN new # {} => \E k \in DOMAIN feed : /\ Holds(new, k) /\ collector'.seen = feed[k].t
                                              /\ \A i : Holds(new, i) => i <= k

\* A poll adds the ticks in their order, when the history is not behind.
LEMMA CollectAdds ==
    ASSUME Shape, HistoryLag = FALSE, NEW since \in Int, NEW seen \in Int, NEW known \in SUBSET DOMAIN feed,
           NEW queue \in Seq(Nat), Collect(since, seen, known, queue)
    PROVE  \E new \in Seq(Nat) : Adds(since, seen, known, queue, new)
<1>0. DOMAIN feed = 1..Len(feed) /\ Len(feed) \in Nat /\ \A i \in DOMAIN feed : feed[i].t \in Int
  BY TickTimes
<1>1. PICK history \in {Len(feed)} :
        LET new == Collected(since, known, history)
        IN /\ buffer' = queue \o new
           /\ collector' = [seen  |-> IF new = <<>> THEN seen ELSE feed[Last(new)].t,
                            known |-> known \cup ToSet(new)]
  BY DEF Collect
<1>2. PICK new : new = Collected(since, known, history)
  OBVIOUS
<1>3. /\ new \in Seq(Nat) /\ new \in Seq(DOMAIN feed)
      /\ \A p \in DOMAIN new : /\ new[p] \in DOMAIN feed \ known
                               /\ \/ new[p] <= history /\ feed[new[p]].t >= since
                                  \/ new[p] = Len(feed)
      /\ \A i \in DOMAIN feed \ known :
           (i <= history /\ feed[i].t >= since) \/ i = Len(feed) => \E p \in DOMAIN new : new[p] = i
      /\ \A p, q \in DOMAIN new : p < q => new[p] < new[q]
  BY <1>2, CollectedIsOrdered
<1>4. /\ buffer' = queue \o new
      /\ collector' = [seen  |-> IF new = <<>> THEN seen ELSE feed[Last(new)].t,
                       known |-> known \cup ToSet(new)]
  BY <1>1, <1>2
<1>5. \A i : Holds(new, i) <=> i \in DOMAIN feed \ known /\ (feed[i].t >= since \/ i = Len(feed))
  <2>1. \A i \in DOMAIN feed : i <= history
    BY <1>0
  <2>. QED BY <2>1, <1>3 DEF Holds
<1>6. Len(new) \in Nat /\ DOMAIN new = 1..Len(new) /\ Len(queue) \in Nat /\ DOMAIN queue = 1..Len(queue)
  BY <1>3
<1>7. /\ Len(buffer') = Len(queue) + Len(new) /\ DOMAIN buffer' = 1..(Len(queue) + Len(new))
      /\ \A i \in 1..(Len(queue) + Len(new)) :
           buffer'[i] = IF i <= Len(queue) THEN queue[i] ELSE new[i - Len(queue)]
  BY <1>3, <1>4, ConcatProperties
<1>8. \A p \in DOMAIN queue : buffer'[p] = queue[p] /\ p \in DOMAIN buffer'
  BY <1>6, <1>7
<1>9. ASSUME NEW p \in DOMAIN new PROVE buffer'[Len(queue) + p] = new[p] /\ Len(queue) + p \in DOMAIN buffer'
  <2>1. /\ Len(queue) + p \in 1..(Len(queue) + Len(new)) /\ ~ (Len(queue) + p <= Len(queue))
        /\ (Len(queue) + p) - Len(queue) = p
    BY <1>6, <1>9
  <2>. QED BY <2>1, <1>7
<1>10. \A i : i \in collector'.known <=> i \in known \/ Holds(new, i)
  BY <1>4 DEF ToSet, Holds
<1>11. DOMAIN new = {} => collector'.seen = seen
  <2>1. DOMAIN new = {} => new = << >>
    BY <1>6, <1>3
  <2>. QED BY <2>1, <1>4
<1>12. ASSUME DOMAIN new # {}
       PROVE  \E k \in DOMAIN feed : /\ Holds(new, k) /\ collector'.seen = feed[k].t
                                     /\ \A i : Holds(new, i) => i <= k
  <2>1. Len(new) \in DOMAIN new /\ new # << >>
    BY <1>12, <1>6
  <2>2. new[Len(new)] \in DOMAIN feed /\ Holds(new, new[Len(new)]) /\ collector'.seen = feed[new[Len(new)]].t
    BY <2>1, <1>3, <1>4 DEF Holds, Last
  <2>3. \A p \in DOMAIN new : new[p] <= new[Len(new)]
    <3>. TAKE p \in DOMAIN new
    <3>1. new[p] \in Nat /\ new[Len(new)] \in Nat
      BY <2>1, <1>3, <1>6
    <3>2. CASE p = Len(new)
      BY <3>1, <3>2
    <3>3. CASE p # Len(new)
      <4>1. p < Len(new)
        BY <3>3, <1>6
      <4>2. new[p] < new[Len(new)]
        BY <4>1, <2>1, <1>3
      <4>. QED BY <4>2, <3>1
    <3>. QED BY <3>2, <3>3
  <2>. QED BY <2>2, <2>3 DEF Holds
<1>. QED BY <1>3, <1>5, <1>7, <1>8, <1>9, <1>10, <1>11, <1>12 DEF Adds

\* The requests and the table, when a poll keeps what is kept and what is gone.
LEMMA PolledFlow ==
    ASSUME Shape, Flow, UNCHANGED <<feed, handler, stored>>,
           \A i \in DOMAIN feed : (Kept(i) => Kept(i)') /\ (Gone(i) => Gone(i)'),
           (NothingBeforeFirst /\ KnownIsKept /\ SeenIsKept /\ PostIsOut /\ BufferIsOrdered)'
    PROVE  Flow'
<1>1. BatchesAreKept'
  <2>. SUFFICES ASSUME NEW g \in Handlers, NEW p \in DOMAIN handler[g].batch
                PROVE  (/\ handler[g].at = "received" => Kept(handler[g].batch[p])
                        /\ handler[g].at = "stored" => handler[g].batch[p] \in stored)'
    BY DEF BatchesAreKept
  <2>1. PICK i : i = handler[g].batch[p]
    OBVIOUS
  <2>2. i \in DOMAIN feed /\ (handler[g].at = "received" => Kept(i)) /\ (handler[g].at = "stored" => i \in stored)
    BY <2>1, NamedTicks DEF Flow, BatchesAreKept
  <2>3. handler[g].at = "received" => Kept(i)'
    BY <2>2
  <2>. QED BY <2>1, <2>2, <2>3 DEF Kept, Holds
<1>2. BatchesAreOrdered'
  <2>. SUFFICES ASSUME NEW g \in Handlers, handler[g].at = "received"
                PROVE  Ordered(handler[g].batch)'
    BY DEF BatchesAreOrdered
  <2>1. Ordered(handler[g].batch)
    BY DEF Flow, BatchesAreOrdered
  <2>. QED BY <2>1 DEF Ordered, Older
<1>3. TableIsOrdered'
  BY DEF Flow, TableIsOrdered, Older
<1>. QED BY <1>1, <1>2, <1>3 DEF Flow

\* A poll goes on where the last one stopped; on another account it starts anew, and
\* what it does not reach is lost for good.
LEMMA PollFlows ==
    ASSUME Shape, Flow, HistoryLag = FALSE, NEW seen, NEW known,
           Collect(Since(seen), seen, known, buffer), UNCHANGED <<clock, feed, post, handler, stored>>,
           (seen = collector.seen /\ known = collector.known) \/ (seen = None /\ known = {})
    PROVE  Flow'
<1>1. PICK since \in Int : since = Since(seen)
  BY NamedTicks DEF Since
<1>2. seen \in Int /\ known \in SUBSET DOMAIN feed /\ buffer \in Seq(Nat) /\ None \in Int
  BY NamedTicks DEF None, Shape
<1>3a. PICK new \in Seq(Nat) : Adds(since, seen, known, buffer, new)
  BY <1>1, <1>2, CollectAdds
<1>3. /\ \A i : Holds(new, i) <=> i \in DOMAIN feed \ known /\ (feed[i].t >= since \/ i = Len(feed))
      /\ \A p, q \in DOMAIN new : p < q => new[p] < new[q]
      /\ Len(buffer') = Len(buffer) + Len(new) /\ DOMAIN buffer' = 1..(Len(buffer) + Len(new))
      /\ \A p \in DOMAIN buffer : buffer'[p] = buffer[p] /\ p \in DOMAIN buffer'
      /\ \A p \in DOMAIN new : /\ buffer'[Len(buffer) + p] = new[p]
                               /\ Len(buffer) + p \in DOMAIN buffer'
      /\ \A i : i \in collector'.known <=> i \in known \/ Holds(new, i)
      /\ DOMAIN new = {} => collector'.seen = seen
      /\ DOMAIN new # {} => \E k \in DOMAIN feed : /\ Holds(new, k) /\ collector'.seen = feed[k].t
                                                  /\ \A i : Holds(new, i) => i <= k
  BY <1>3a DEF Adds
<1>4. /\ DOMAIN feed = 1..Len(feed) /\ Len(feed) \in Nat
      /\ \A i \in DOMAIN feed : feed[i].t \in Nat
      /\ \A i, j \in DOMAIN feed : i <= j => feed[i].t <= feed[j].t
      /\ clock \in Int /\ FirstPoll \in Int
  <2>1. \A i \in DOMAIN feed : feed[i].t \in 0..MaxTime
    BY TickTimes
  <2>2. \A i \in DOMAIN feed : feed[i].t \in Nat
    BY <2>1, FeedTypes
  <2>. QED BY <2>2, TickTimes, NamedTicks DEF Shape
<1>5. /\ Len(buffer) \in Nat /\ DOMAIN buffer = 1..Len(buffer) /\ Len(new) \in Nat /\ DOMAIN new = 1..Len(new)
      /\ \A p \in DOMAIN buffer : buffer[p] \in DOMAIN feed
      /\ stored \subseteq DOMAIN feed
  BY <1>2, NamedTicks
<1>6. \A i : Holds(buffer', i) <=> Holds(buffer, i) \/ Holds(new, i)
  <2>1. ASSUME NEW p \in DOMAIN buffer' PROVE Holds(buffer, buffer'[p]) \/ Holds(new, buffer'[p])
    <3>1. p \in 1..(Len(buffer) + Len(new))
      BY <1>3
    <3>2. CASE p \in 1..Len(buffer)
      BY <3>2, <1>3, <1>5 DEF Holds
    <3>3. CASE p > Len(buffer)
      <4>1. p - Len(buffer) \in DOMAIN new /\ Len(buffer) + (p - Len(buffer)) = p
        BY <3>1, <3>3, <1>5
      <4>. QED BY <4>1, <1>3 DEF Holds
    <3>. QED BY <3>1, <3>2, <3>3, <1>5
  <2>2. ASSUME NEW p \in DOMAIN buffer PROVE Holds(buffer', buffer[p])
    BY <1>3 DEF Holds
  <2>3. ASSUME NEW p \in DOMAIN new PROVE Holds(buffer', new[p])
    BY <1>3 DEF Holds
  <2>. QED BY <2>1, <2>2, <2>3 DEF Holds
<1>7. \A i : (Holds(new, i) => Kept(i)') /\ (Kept(i) => Kept(i)')
  BY <1>6 DEF Kept
<1>8. \A i : Holds(new, i) => i \in DOMAIN feed /\ collector'.seen # None /\ feed[i].t <= collector'.seen
  <2>. TAKE i
  <2>. HAVE Holds(new, i)
  <2>1. DOMAIN new # {}
    BY DEF Holds
  <2>2. PICK k \in DOMAIN feed : collector'.seen = feed[k].t /\ i <= k
    BY <1>3, <2>1
  <2>3. i \in DOMAIN feed
    BY <1>3
  <2>. QED BY <2>2, <2>3, <1>4 DEF None
<1>9. DOMAIN feed # {} /\ Len(feed) \notin known => Holds(new, Len(feed))
  BY <1>3, <1>4
<1>10. collector.seen # None =>
         /\ \E x \in DOMAIN feed : Kept(x) /\ feed[x].t = collector.seen
         /\ collector.seen \in Nat /\ collector'.seen # None /\ collector'.seen >= collector.seen
  <2>. HAVE collector.seen # None
  <2>1. PICK x \in DOMAIN feed : Kept(x) /\ feed[x].t = collector.seen
    BY DEF Flow, SeenIsKept
  <2>2. collector.seen \in Nat /\ x <= Len(feed) /\ Len(feed) \in DOMAIN feed /\ feed[x].t <= feed[Len(feed)].t
    BY <2>1, <1>4
  <2>3. CASE Holds(new, Len(feed))
    <3>1. collector'.seen # None /\ feed[Len(feed)].t <= collector'.seen /\ collector'.seen \in Nat
      <4>1. DOMAIN new # {}
        BY <2>3 DEF Holds
      <4>. QED BY <2>3, <4>1, <1>3, <1>4, <1>8
    <3>. QED BY <3>1, <2>1, <2>2, <1>4
  <2>4. CASE ~ Holds(new, Len(feed))
    <3>1. Len(feed) \in known /\ seen = collector.seen /\ known = collector.known
      BY <2>2, <2>4, <1>9
    <3>2. since = seen
      BY <3>1, <1>1 DEF Since
    <3>3. CASE DOMAIN new = {}
      BY <3>1, <3>3, <2>1, <2>2, <1>3
    <3>4. CASE DOMAIN new # {}
      <4>1. PICK k \in DOMAIN feed : Holds(new, k) /\ collector'.seen = feed[k].t
        BY <3>4, <1>3
      <4>2. feed[k].t >= since
        BY <4>1, <2>4, <1>3
      <4>. QED BY <4>1, <4>2, <3>1, <3>2, <2>1, <2>2, <1>4 DEF None
    <3>. QED BY <3>3, <3>4
  <2>. QED BY <2>1, <2>2, <2>3, <2>4
<1>11. since = clock - FirstPoll \/ (since = collector.seen /\ collector.seen # None)
  BY <1>1 DEF Since
<1>12. \A i \in DOMAIN feed : Gone(i) => Gone(i)'
  <2>. SUFFICES ASSUME NEW i \in DOMAIN feed, Lost(i) PROVE Lost(i)'
    BY DEF Gone
  <2>1. /\ i \notin stored /\ ~ Holds(buffer, i) /\ feed[i].t < clock - FirstPoll
        /\ collector.seen # None /\ feed[i].t < collector.seen
    BY DEF Lost
  <2>2. PICK x \in DOMAIN feed : feed[x].t = collector.seen
    BY <2>1, <1>10
  <2>3. collector.seen \in Nat /\ collector'.seen # None /\ collector'.seen >= collector.seen
    BY <2>1, <1>10
  <2>4. i # Len(feed) /\ ~ (feed[i].t >= since)
    <3>1. feed[i].t \in Nat /\ feed[i].t < feed[x].t /\ x <= Len(feed) /\ Len(feed) \in DOMAIN feed
      BY <2>1, <2>2, <1>4
    <3>2. i # Len(feed)
      BY <3>1, <2>2, <1>4
    <3>3. ~ (feed[i].t >= since)
      BY <3>1, <2>1, <2>3, <1>4, <1>11
    <3>. QED BY <3>2, <3>3
  <2>5. ~ Holds(new, i) /\ ~ Holds(buffer', i)
    BY <2>1, <2>4, <1>3, <1>6
  <2>6. feed[i].t < collector'.seen
    <3>1. DOMAIN new = {} => collector'.seen \in Int
      BY <1>2, <1>3
    <3>2. DOMAIN new # {} => collector'.seen \in Int
      BY <1>3, <1>4
    <3>3. collector'.seen \in Int /\ feed[i].t \in Nat
      BY <3>1, <3>2, <1>4
    <3>. QED BY <3>3, <2>1, <2>3
  <2>. QED BY <2>1, <2>3, <2>5, <2>6 DEF Lost
<1>13. NothingBeforeFirst'
  <2>. SUFFICES ASSUME collector'.seen = None PROVE stored = {} /\ DOMAIN buffer' = {}
    BY DEF NothingBeforeFirst
  <2>1. \A i : ~ Holds(new, i)
    BY <1>8
  <2>2. DOMAIN new = {} /\ Len(new) = 0
    <3>1. ASSUME NEW p \in DOMAIN new PROVE FALSE
      BY <2>1 DEF Holds
    <3>2. ~ (1 <= Len(new))
      BY <3>1, <1>5
    <3>. QED BY <3>1, <3>2, <1>5
  <2>3. collector.seen = None
    BY <1>10
  <2>4. stored = {} /\ DOMAIN buffer = {}
    BY <2>3 DEF Flow, NothingBeforeFirst
  <2>. QED BY <2>2, <2>4, <1>3, <1>5
<1>14. KnownIsKept'
  <2>1. \A i \in known : Kept(i)
    BY DEF Flow, KnownIsKept
  <2>. QED BY <2>1, <1>3, <1>7 DEF KnownIsKept
<1>15. SeenIsKept'
  <2>. SUFFICES ASSUME collector'.seen # None
                PROVE  \E k \in DOMAIN feed : Kept(k)' /\ feed[k].t = collector'.seen
    BY DEF SeenIsKept
  <2>1. CASE DOMAIN new # {}
    BY <2>1, <1>3, <1>7
  <2>2. CASE DOMAIN new = {}
    <3>1. seen # None /\ seen = collector.seen /\ collector'.seen = collector.seen
      BY <2>2, <1>3
    <3>. QED BY <3>1, <1>7, <1>10
  <2>. QED BY <2>1, <2>2
<1>16. PostIsOut'
  <2>. SUFFICES ASSUME post # Idle
                PROVE  /\ post.to \in Handlers /\ handler[post.to].at \in {"received", "stored"}
                       /\ post.n <= Len(buffer')
                       /\ \A p \in DOMAIN buffer' : p <= post.n => Holds(handler[post.to].batch, buffer'[p])
    BY DEF PostIsOut, Holds, Idle
  <2>1. /\ post.to \in Handlers /\ handler[post.to].at \in {"received", "stored"}
        /\ post.n <= Len(buffer)
        /\ \A p \in DOMAIN buffer : p <= post.n => Holds(handler[post.to].batch, buffer[p])
    BY DEF Flow, PostIsOut
  <2>2. post.n \in Nat
    BY DEF Shape
  <2>3. ASSUME NEW p \in DOMAIN buffer', p <= post.n PROVE p \in DOMAIN buffer
    <3>1. p \in 1..(Len(buffer) + Len(new))
      BY <1>3
    <3>. QED BY <3>1, <2>1, <2>2, <2>3, <1>5
  <2>4. post.n <= Len(buffer')
    BY <2>1, <2>2, <1>3, <1>5
  <2>. QED BY <2>1, <2>3, <2>4, <1>3
<1>17. ASSUME NEW p \in DOMAIN new, NEW i \in DOMAIN feed, Older(i, new[p])
       PROVE  Gone(i)' \/ \E q \in DOMAIN buffer' : q < Len(buffer) + p /\ buffer'[q] = i
  <2>1. PICK j \in DOMAIN feed : j = new[p] /\ Holds(new, j)
    BY <1>3, <1>17 DEF Holds
  <2>2. i < j /\ feed[i].t < feed[j].t /\ feed[i].t \in Nat /\ feed[j].t \in Nat
    BY <2>1, <1>4, <1>17, OlderIsBefore DEF Older
  <2>3. ASSUME NEW q \in DOMAIN new, new[q] = i
        PROVE  Len(buffer) + q \in DOMAIN buffer' /\ Len(buffer) + q < Len(buffer) + p /\ buffer'[Len(buffer) + q] = i
    <3>1. p \in Nat /\ q \in Nat /\ Len(buffer) \in Nat
      BY <1>5
    <3>2. ~ (p < q)
      <4>1. p < q => j < i
        BY <2>1, <2>3, <1>3
      <4>. QED BY <4>1, <2>2, <1>4
    <3>3. p # q
      BY <2>1, <2>2, <2>3, <1>4
    <3>. QED BY <3>1, <3>2, <3>3, <2>3, <1>3
  <2>4. ASSUME NEW q \in DOMAIN buffer, buffer[q] = i
        PROVE  q \in DOMAIN buffer' /\ q < Len(buffer) + p /\ buffer'[q] = i
    <3>1. q <= Len(buffer) /\ p \in Nat /\ p >= 1 /\ q \in Nat /\ Len(buffer) \in Nat
      BY <1>5
    <3>. QED BY <3>1, <2>4, <1>3
  <2>5. ASSUME i \notin stored, ~ Holds(new, i), ~ Holds(buffer, i) PROVE Gone(i)'
    <3>1. ~ Kept(i)
      BY <2>5 DEF Kept
    <3>2. i \notin known
      BY <3>1 DEF Flow, KnownIsKept
    <3>3. ~ (feed[i].t >= since)
      BY <3>2, <2>5, <1>3
    <3>4. CASE since = clock - FirstPoll
      <4>1. collector'.seen # None /\ feed[j].t <= collector'.seen
        BY <2>1, <1>8
      <4>2. DOMAIN new # {}
        BY <1>17
      <4>3. collector'.seen \in Nat
        BY <4>2, <1>3, <1>4
      <4>4. feed[i].t < collector'.seen /\ feed[i].t < clock - FirstPoll
        <5>1. feed[i].t < collector'.seen
          BY <4>1, <4>3, <2>2
        <5>2. feed[i].t < clock - FirstPoll
          BY <3>3, <3>4, <2>2, <1>4
        <5>. QED BY <5>1, <5>2
      <4>5. ~ Holds(buffer', i)
        BY <2>5, <1>6
      <4>. QED BY <4>1, <4>4, <4>5, <2>5 DEF Gone, Lost
    <3>5. CASE since = collector.seen /\ collector.seen # None
      <4>1. PICK x \in DOMAIN feed : Kept(x) /\ feed[x].t = since
        BY <3>5, <1>10
      <4>2. Older(i, x)
        BY <4>1, <3>3, <1>4 DEF Older
      <4>3. Gone(i)
        <5>1. CASE x \in stored
          BY <5>1, <4>2 DEF Flow, TableIsOrdered
        <5>2. CASE Holds(buffer, x)
          BY <5>2, <4>2, <2>5 DEF Flow, BufferIsOrdered, Ordered, Holds
        <5>. QED BY <5>1, <5>2, <4>1 DEF Kept
      <4>. QED BY <4>3, <1>12
    <3>. QED BY <3>4, <3>5, <1>11
  <2>6. i \in stored => Gone(i)'
    BY DEF Gone
  <2>. QED BY <2>3, <2>4, <2>5, <2>6 DEF Holds
<1>18. BufferIsOrdered'
  <2>. SUFFICES ASSUME NEW p \in DOMAIN buffer', NEW i \in DOMAIN feed, Older(i, buffer'[p])
                PROVE  Gone(i)' \/ \E q \in DOMAIN buffer' : q < p /\ buffer'[q] = i
    BY DEF BufferIsOrdered, Ordered, Older
  <2>1. p \in 1..(Len(buffer) + Len(new))
    BY <1>3
  <2>2. CASE p \in 1..Len(buffer)
    <3>1. p \in DOMAIN buffer /\ Older(i, buffer[p])
      BY <2>2, <1>3, <1>5
    <3>2. Gone(i) \/ \E q \in DOMAIN buffer : q < p /\ buffer[q] = i
      BY <3>1 DEF Flow, BufferIsOrdered, Ordered
    <3>. QED BY <3>2, <1>3, <1>12
  <2>3. CASE p > Len(buffer)
    <3>1. PICK r \in DOMAIN new : p = Len(buffer) + r
      <4>1. p - Len(buffer) \in DOMAIN new /\ Len(buffer) + (p - Len(buffer)) = p
        BY <2>1, <2>3, <1>5
      <4>. QED BY <4>1
    <3>2. Older(i, new[r])
      BY <3>1, <1>3
    <3>. QED BY <3>1, <3>2, <1>17
  <2>. QED BY <2>1, <2>2, <2>3, <1>5
<1>. QED BY <1>7, <1>12, <1>13, <1>14, <1>15, <1>16, <1>18, PolledFlow

\* A bridge that starts again finds everything within its lookback.
LEMMA RestartFlows ==
    ASSUME InStep, Shape, Flow, RestartBridge
    PROVE  Flow'
<1>1. PICK since \in Int : since = clock - Lookback
  BY NamedTicks
<1>2. /\ Collect(since, None, {}, << >>) /\ post' = Idle /\ UNCHANGED <<clock, feed, handler, stored>>
      /\ HistoryLag = FALSE /\ MaxTime <= FirstPoll /\ MaxTime <= Lookback
  BY <1>1 DEF RestartBridge, Disturb, InStep
<1>3. PICK seen \in Int, known \in SUBSET DOMAIN feed, queue \in Seq(Nat) :
        seen = None /\ known = {} /\ queue = << >>
  <2>1. None \in Int /\ {} \in SUBSET DOMAIN feed /\ << >> \in Seq(Nat)
    BY DEF None
  <2>. QED BY <2>1
<1>4a. PICK new \in Seq(Nat) : Adds(since, seen, known, queue, new)
  BY <1>1, <1>2, <1>3, CollectAdds
<1>4. /\ \A i : Holds(new, i) <=> i \in DOMAIN feed \ known /\ (feed[i].t >= since \/ i = Len(feed))
      /\ \A p, q \in DOMAIN new : p < q => new[p] < new[q]
      /\ Len(buffer') = Len(queue) + Len(new) /\ DOMAIN buffer' = 1..(Len(queue) + Len(new))
      /\ \A p \in DOMAIN queue : buffer'[p] = queue[p] /\ p \in DOMAIN buffer'
      /\ \A p \in DOMAIN new : /\ buffer'[Len(queue) + p] = new[p]
                               /\ Len(queue) + p \in DOMAIN buffer'
      /\ \A i : i \in collector'.known <=> i \in known \/ Holds(new, i)
      /\ DOMAIN new = {} => collector'.seen = seen
      /\ DOMAIN new # {} => \E k \in DOMAIN feed : /\ Holds(new, k) /\ collector'.seen = feed[k].t
                                                  /\ \A i : Holds(new, i) => i <= k
  BY <1>4a DEF Adds
<1>5. /\ Len(new) \in Nat /\ DOMAIN new = 1..Len(new) /\ Len(queue) = 0
      /\ clock \in 0..MaxTime /\ stored \subseteq DOMAIN feed
      /\ \A p \in DOMAIN buffer : buffer[p] \in DOMAIN feed
  BY <1>3, NamedTicks DEF Shape
<1>6. DOMAIN buffer' = DOMAIN new /\ \A p \in DOMAIN new : p \in Nat /\ buffer'[p] = new[p]
  <2>1. DOMAIN buffer' = DOMAIN new
    BY <1>4, <1>5
  <2>2. \A p \in DOMAIN new : p \in Nat /\ 0 + p = p
    BY <1>5
  <2>. QED BY <2>1, <2>2, <1>4, <1>5
<1>7. \A i \in DOMAIN feed : feed[i].t \in Nat /\ feed[i].t >= since /\ ~ (feed[i].t < clock - FirstPoll)
  <2>. TAKE i \in DOMAIN feed
  <2>1. feed[i].t \in 0..MaxTime /\ MaxTime \in Nat /\ FirstPoll \in Nat /\ Lookback \in Nat
    BY TickTimes, FeedTypes
  <2>. QED BY <2>1, <1>1, <1>2, <1>5
<1>8. \A i : Holds(new, i) <=> i \in DOMAIN feed
  BY <1>3, <1>4, <1>7
<1>9. \A i : Holds(buffer', i) <=> i \in DOMAIN feed
  BY <1>6, <1>8 DEF Holds
<1>10. \A i \in DOMAIN feed : ~ Lost(i) /\ Kept(i)' /\ (Gone(i) => Gone(i)')
  BY <1>2, <1>7, <1>9 DEF Lost, Kept, Gone
<1>11. KnownIsKept' /\ PostIsOut'
  BY <1>2, <1>3, <1>4, <1>8, <1>10 DEF KnownIsKept, PostIsOut, Idle
<1>12. NothingBeforeFirst' /\ SeenIsKept'
  <2>1. CASE DOMAIN new = {}
    <3>1. \A i : i \notin DOMAIN feed
      BY <2>1, <1>8 DEF Holds
    <3>2. stored' = {} /\ DOMAIN buffer' = {} /\ collector'.seen = None
      BY <2>1, <3>1, <1>2, <1>3, <1>4, <1>5, <1>6
    <3>. QED BY <3>2 DEF NothingBeforeFirst, SeenIsKept
  <2>2. CASE DOMAIN new # {}
    <3>1. PICK k \in DOMAIN feed : collector'.seen = feed[k].t
      BY <2>2, <1>4
    <3>. QED BY <3>1, <1>2, <1>7, <1>10 DEF NothingBeforeFirst, SeenIsKept, None
  <2>. QED BY <2>1, <2>2
<1>13. BufferIsOrdered'
  <2>. SUFFICES ASSUME NEW p \in DOMAIN buffer', NEW i \in DOMAIN feed, Older(i, buffer'[p])
                PROVE  \E q \in DOMAIN buffer' : q < p /\ buffer'[q] = i
    BY <1>2 DEF BufferIsOrdered, Ordered, Older
  <2>1. buffer'[p] = new[p] /\ new[p] \in DOMAIN feed /\ p \in DOMAIN new
    BY <1>6, <1>8 DEF Holds
  <2>2. i < new[p]
    BY <2>1, OlderIsBefore
  <2>3. PICK q \in DOMAIN new : new[q] = i
    BY <1>8 DEF Holds
  <2>4. i \in Nat /\ new[p] \in Nat /\ p \in Nat /\ q \in Nat
    BY <2>1, <2>3, <1>6, TickTimes
  <2>5. ~ (p < q) /\ p # q
    <3>1. p < q => new[p] < i
      BY <2>1, <2>3, <1>4
    <3>. QED BY <3>1, <2>2, <2>3, <2>4
  <2>. QED BY <2>3, <2>4, <2>5, <1>6
<1>. QED BY <1>2, <1>10, <1>11, <1>12, <1>13, PolledFlow

\* The order of the ticks holds in every step.
LEMMA FlowIsKept ==
    ASSUME InStep, Shape, Flow, [Next]_vars
    PROVE  Flow'
<1>0. clock \in Int
  BY NamedTicks
<1>1. CASE NewTick
  BY <1>1, NewTickFlows
<1>2. CASE Poll
  BY <1>2, PollFlows DEF Poll, InStep
<1>3. CASE PollAfterSwitch
  BY <1>3, PollFlows DEF PollAfterSwitch, InStep
<1>4. CASE RestartBridge
  BY <1>4, RestartFlows
<1>5. CASE Pass
  <2>1. UNCHANGED <<feed, collector, buffer, stored, post, handler>> /\ clock' = clock + 1
    BY <1>5 DEF Pass, bridge
  <2>2. clock' \in Int /\ clock' >= clock
    BY <2>1, <1>0
  <2>. QED BY <2>1, <2>2, QuietFlow
<1>6. CASE Timeout
  BY <1>6, <1>0, QuietFlow DEF Timeout
<1>7. CASE BeginCancel \/ CommitCancel \/ UNCHANGED vars
  BY <1>7, <1>0, QuietFlow DEF BeginCancel, CommitCancel, vars, bridge
<1>8. CASE Crash
  <2>1. \A g \in Handlers : handler'[g].at = "free"
    BY <1>8, FreeIsRequest DEF Crash
  <2>. QED BY <2>1, <1>8, <1>0, QuietFlow DEF Crash
<1>9. ASSUME NEW b \in Buckets, RunFallback(b) PROVE Flow'
  BY <1>9, <1>0, QuietFlow DEF RunFallback, bridge
<1>10. ASSUME NEW h \in Handlers,
              Post(h) \/ Ingest(h) \/ Answer(h) \/ AnswerWithoutFallback(h)
       PROVE  Flow'
  BY <1>10, PostFlows, IngestFlows, AnswerFlows
<1>11. ASSUME NEW h \in Handlers, NEW r, Moved(h, r), r.at \notin {"received", "stored"},
              handler[h].at \notin {"received", "stored"},
              UNCHANGED <<clock, feed, bridge, stored>>
       PROVE  Flow'
  <2>1. \A g \in Handlers : handler'[g].at \in {"received", "stored"} => handler'[g] = handler[g]
    BY <1>11 DEF Moved
  <2>2. post # Idle => post.to # h /\ handler'[post.to] = handler[post.to]
    BY <1>11 DEF Flow, PostIsOut, Moved
  <2>. QED BY <2>1, <2>2, <1>0, <1>11, QuietFlow DEF bridge
<1>12. ASSUME NEW h \in Handlers,
              \/ RunStrategy(h) \/ StrategyFails(h) \/ Retire(h)
              \/ ReadAlerts(h) \/ CommitAlert(h) \/ PushAlert(h)
       PROVE  Flow'
  <2>1. /\ handler[h].at \in {"strategy", "retire", "alerts", "reading", "push"}
        /\ UNCHANGED <<clock, feed, bridge, stored>>
    BY <1>12 DEF RunStrategy, StrategyFails, Retire, ReadAlerts, CommitAlert, PushAlert
  <2>2. PICK r : Moved(h, r) /\ r.at \notin {"received", "stored"}
    <3>1. \A s \in {"retire", "alerts", "reading", "push"} : At(h, s).at \notin {"received", "stored"}
      BY DEF At
    <3>2. Free.at \notin {"received", "stored"}
      BY FreeIsRequest
    <3>3. \/ \E s \in {"retire", "alerts", "reading", "push"} : Moved(h, At(h, s))
          \/ Moved(h, Free)
      BY <1>12, HandlerSteps
    <3>. QED BY <3>1, <3>2, <3>3
  <2>. QED BY <2>1, <2>2, <1>11
<1>. QED BY <1>1, <1>2, <1>3, <1>4, <1>5, <1>6, <1>7, <1>8, <1>9, <1>10, <1>12 DEF Next, Serve

\* A step that leaves the tables and the evaluations alone.
LEMMA QuietForClosed ==
    ASSUME Shape, ClosedStayTrue, UNCHANGED <<stored, candles, evaluated>>,
           \A i \in DOMAIN feed : feed'[i] = feed[i]
    PROVE  ClosedStayTrue'
<1>1. \A b : Seen(b) => Seen(b)'
  BY NamedTicks DEF Seen, Bucket
<1>. QED BY <1>1 DEF ClosedStayTrue

\* A request brings nothing to a candle that is older than a tick of the table.
LEMMA IngestLeavesClosed ==
    ASSUME Shape, Flow, ClosedStayTrue, CandlesSumUp, NEW h \in Handlers, Ingest(h)
    PROVE  ClosedStayTrue'
<1>. DEFINE f == Fresh(handler[h].batch)
            touched == {Bucket(i) : i \in f}
<1>1. /\ handler[h].at = "received" /\ f \subseteq DOMAIN feed /\ f \cap stored = {}
      /\ stored' = stored \cup f /\ candles' = Aggregated(f) /\ UNCHANGED <<feed, evaluated>>
  BY DEF Ingest, Fresh, ToSet, Shape, trigger
<1>2. \A i \in f : Kept(i)
  BY <1>1 DEF Fresh, ToSet, Flow, BatchesAreKept
<1>. HIDE DEF f
<1>3. /\ DOMAIN candles' = DOMAIN candles \cup touched
      /\ \A b \in DOMAIN candles \ touched : candles'[b] = candles[b]
  BY <1>1 DEF Aggregated
<1>4. \A b : Seen(b) => Seen(b)'
  BY <1>1 DEF Seen, Bucket
<1>5. ASSUME NEW b, NEW newest, Seen(newest), b < newest PROVE b \notin touched
  <2>. SUFFICES ASSUME NEW i \in f, Bucket(i) = b PROVE FALSE
    OBVIOUS
  <2>1. PICK j \in stored : Bucket(j) = newest
    BY <1>5 DEF Seen
  <2>2. i \in DOMAIN feed /\ j \in DOMAIN feed /\ feed[i].t \in Int /\ feed[j].t \in Int
    BY <2>1, <1>1, NamedTicks, TickTimes
  <2>3. feed[i].t \div Bar < feed[j].t \div Bar
    BY <2>1, <1>5 DEF Bucket
  <2>4. feed[i].t < feed[j].t
    BY <2>2, <2>3 DEF Bar
  <2>5. Gone(i) /\ i \notin stored
    BY <2>1, <2>2, <2>4, <1>1 DEF Older, Flow, TableIsOrdered
  <2>. QED BY <2>5, <1>2 DEF Gone, Lost, Kept
<1>. HIDE DEF touched
<1>. QED BY <1>1, <1>3, <1>4, <1>5 DEF ClosedStayTrue

\* An evaluation sees what is there.
LEMMA EvaluationIsTrue ==
    ASSUME Shape, ClosedStayTrue, CandlesSumUp, UNCHANGED <<feed, stored, candles>>,
           evaluated' = evaluated \cup {Evaluation}
    PROVE  ClosedStayTrue'
<1>1. \A b : Seen(b) => Seen(b)'
  BY DEF Seen, Bucket
<1>2. ASSUME NEW b \in DOMAIN Evaluation.closed, Evaluation.newest >= Evaluation.at
      PROVE  b < Evaluation.newest /\ Seen(Evaluation.newest)
  <2>1. b \in DOMAIN candles /\ (b + 1) * Bar <= clock /\ Evaluation.at = clock \div Bar
    BY <1>2 DEF Evaluation, ClosedCandles
  <2>2. b \in Nat /\ clock \in Int /\ TicksOf(b) # {}
    BY <2>1, BucketTypes, NamedTicks DEF CandlesSumUp
  <2>3. Seen(Evaluation.newest)
    BY <2>2, EvaluationSeesNewest DEF TicksOf
  <2>4. Evaluation.newest \in Nat
    BY <2>3, SeenIsBucket
  <2>5. b < clock \div Bar /\ clock \div Bar \in Int
    BY <2>1, <2>2 DEF Bar
  <2>. QED BY <2>1, <2>2, <2>3, <2>4, <2>5, <1>2
<1>3. \A b \in DOMAIN Evaluation.closed : b \in DOMAIN candles /\ Evaluation.closed[b] = candles[b]
  BY DEF Evaluation, ClosedCandles
<1>4. PICK e : e = Evaluation
  OBVIOUS
<1>5. evaluated' = evaluated \cup {e} /\ candles' = candles
  BY <1>4
<1>6. \A b \in DOMAIN e.closed :
        /\ b \in DOMAIN candles /\ candles[b] = e.closed[b]
        /\ e.newest >= e.at => b < e.newest /\ Seen(e.newest)
  BY <1>2, <1>3, <1>4
<1>. QED BY <1>1, <1>5, <1>6 DEF ClosedStayTrue

\* What was evaluated as closed stays as it was, in every step.
LEMMA ClosedAreKept ==
    ASSUME Shape, Flow, ClosedStayTrue, CandlesSumUp, [Next]_vars
    PROVE  ClosedStayTrue'
<1>1. CASE \E h \in Handlers : Ingest(h)
  BY <1>1, IngestLeavesClosed
<1>2. CASE \E h \in Handlers : RunStrategy(h)
  BY <1>2, EvaluationIsTrue DEF RunStrategy
<1>3. CASE \E b \in Buckets : RunFallback(b)
  BY <1>3, EvaluationIsTrue DEF RunFallback
<1>4. CASE /\ \A h \in Handlers : ~ Ingest(h) /\ ~ RunStrategy(h)
           /\ \A b \in Buckets : ~ RunFallback(b)
  <2>1. UNCHANGED <<stored, candles>> /\ \A i \in DOMAIN feed : feed'[i] = feed[i]
    BY <1>4, OnlyIngestStores
  <2>2. evaluated' = evaluated
    <3>1. CASE NewTick \/ Pass \/ Poll \/ PollAfterSwitch \/ RestartBridge \/ Timeout
      BY <3>1 DEF NewTick, Pass, Poll, PollAfterSwitch, RestartBridge, Timeout, trigger
    <3>2. CASE BeginCancel \/ CommitCancel \/ Crash \/ UNCHANGED vars
      BY <3>2 DEF BeginCancel, CommitCancel, Crash, vars, trigger
    <3>3. ASSUME NEW h \in Handlers, Post(h) \/ Serve(h) \/ AnswerWithoutFallback(h) \/ StrategyFails(h)
          PROVE  evaluated' = evaluated
      BY <3>3, <1>4 DEF Post, Serve, AnswerWithoutFallback, StrategyFails, Answer, Retire,
                        ReadAlerts, CommitAlert, PushAlert, trigger
    <3>. QED BY <3>1, <3>2, <3>3, <1>4 DEF Next
  <2>. QED BY <2>1, <2>2, QuietForClosed
<1>. QED BY <1>1, <1>2, <1>3, <1>4

\* While the history keeps up with the latest tick, and no bridge starts again or it finds
\* everything within its lookback, a candle that was evaluated as closed while its successor
\* was current does not change any more, over late answers, repeated batches, crashes of the
\* API and account switches (EvaluatedCandlesAreFinal).
THEOREM ClosedCandlesAreFinal ==
    ASSUME InStep
    PROVE  Spec => []EvaluatedCandlesAreFinal
<1>1. Init => Flow /\ ClosedStayTrue
  BY FreeIsRequest DEF Init, Flow, ClosedStayTrue, NothingBeforeFirst, KnownIsKept, SeenIsKept, BatchesAreKept,
       PostIsOut, BufferIsOrdered, BatchesAreOrdered, TableIsOrdered, Ordered, Older
<1>2. Shape /\ Flow /\ [Next]_vars => Flow'
  BY FlowIsKept
<1>3. Shape /\ Flow /\ ClosedStayTrue /\ CandlesSumUp /\ [Next]_vars => ClosedStayTrue'
  BY ClosedAreKept
<1>4. ClosedStayTrue => EvaluatedCandlesAreFinal
  BY DEF ClosedStayTrue, EvaluatedCandlesAreFinal
<1>. QED BY <1>1, <1>2, <1>3, <1>4, FeedIsWellShaped, CandlesSumUpAlways, PTL DEF Spec

=============================================================================
