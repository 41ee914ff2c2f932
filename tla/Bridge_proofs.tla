----------------------------- MODULE Bridge_proofs -----------------------------
(***************************************************************************)
(* What holds of the bridge's own two components, which share no state.    *)
(*                                                                         *)
(* The access coordinator, for any finite set of threads and any nesting:  *)
(* AccessTypeOK, DepthIsOwners and NoLeakedWaiter are together inductive;  *)
(* mutual exclusion follows from DepthIsOwners.                            *)
(*                                                                         *)
(* The tick buffer, for any sizes, any number of ticks and accounts, and   *)
(* whether the buffer overflows during a post or not:                      *)
(*                                                                         *)
(*   BufferTypeOK   the types, and the bound on the buffer;                *)
(*   TicksAreTheirs a tick is stored under the account that produced it;   *)
(*   OrderIsKept    ticks arrive in the order they were collected, but     *)
(*                  for those an overflow dropped.                         *)
(*                                                                         *)
(* An overflow may drop ticks of the batch that is being posted.  The      *)
(* order survives it because the batch is still older than whatever else   *)
(* is queued, which is what BatchIsOldest says.  A request that timed out  *)
(* may be stored after newer ticks, and the order survives that because    *)
(* the queued ticks of such a batch stay at the front, within one batch's  *)
(* length and of one account (LateIsInFront), so that every later batch    *)
(* takes all of them along (LateIsResent): what the sender has answered    *)
(* has arrived, and what it has not is still queued, or was dropped.       *)
(***************************************************************************)
EXTENDS MT5Access, TickBuffer, FiniteSetTheorems, TLAPS

-----------------------------------------------------------------------------
(* The access coordinator.                                                 *)

(***************************************************************************)
(* The inductive invariant: what the coordinator's three fields say of the *)
(* call stacks of all the threads.                                         *)
(***************************************************************************)
AccessInv == AccessTypeOK /\ DepthIsOwners /\ NoLeakedWaiter

(***************************************************************************)
(* Parking an order thread adds it to the set the counter counts.          *)
(***************************************************************************)
LEMMA ParkedOrdersGrow ==
  ASSUME AccessTypeOK, NoLeakedWaiter,
         NEW t \in Threads, NEW p \in Priorities,
         parked[t] = "none",
         parked' = [parked EXCEPT ![t] = p],
         waitingOrders' = waitingOrders + (IF p = "order" THEN 1 ELSE 0)
  PROVE  waitingOrders' = Cardinality(ParkedOrders')
<1>1. IsFiniteSet(ParkedOrders)
  BY ThreadsAssumption, FS_Subset DEF ParkedOrders
<1>2. t \notin ParkedOrders
  BY DEF ParkedOrders
<1>3. CASE p = "order"
  <2>1. ParkedOrders' = ParkedOrders \cup {t}
    BY <1>3 DEF ParkedOrders, AccessTypeOK
  <2> QED
    BY <1>1, <1>2, <1>3, <2>1, FS_AddElement DEF NoLeakedWaiter
<1>4. CASE p # "order"
  <2>1. ParkedOrders' = ParkedOrders
    BY <1>4 DEF ParkedOrders, AccessTypeOK
  <2> QED
    BY <1>4, <2>1 DEF NoLeakedWaiter, AccessTypeOK
<1> QED
  BY <1>3, <1>4

(***************************************************************************)
(* A parked thread that wakes leaves the set the counter counts.           *)
(***************************************************************************)
LEMMA ParkedOrdersShrink ==
  ASSUME AccessTypeOK, NoLeakedWaiter,
         NEW t \in Threads,
         parked' = [parked EXCEPT ![t] = "none"],
         waitingOrders' = waitingOrders - (IF parked[t] = "order" THEN 1 ELSE 0)
  PROVE  /\ waitingOrders' = Cardinality(ParkedOrders')
         /\ waitingOrders' \in Nat
<1>1. IsFiniteSet(ParkedOrders) /\ Cardinality(ParkedOrders) \in Nat
  BY ThreadsAssumption, FS_Subset, FS_CardinalityType DEF ParkedOrders
<1>2. ParkedOrders' = ParkedOrders \ {t}
  BY DEF ParkedOrders, AccessTypeOK
<1>3. IsFiniteSet(ParkedOrders') /\ Cardinality(ParkedOrders') \in Nat
  <2>1. IsFiniteSet(ParkedOrders')
    BY <1>1, <1>2, FS_RemoveElement
  <2> QED
    BY <2>1, FS_CardinalityType
<1>4. t \in ParkedOrders <=> parked[t] = "order"
  BY DEF ParkedOrders
<1>5. Cardinality(ParkedOrders')
        = IF parked[t] = "order" THEN Cardinality(ParkedOrders) - 1
                                 ELSE Cardinality(ParkedOrders)
  BY <1>1, <1>2, <1>4, FS_RemoveElement
<1>6. waitingOrders = Cardinality(ParkedOrders)
  BY DEF NoLeakedWaiter
<1> QED
  BY <1>1, <1>3, <1>5, <1>6

LEMMA InitInv == AccessInit => AccessInv
<1> SUFFICES ASSUME AccessInit PROVE AccessInv
  OBVIOUS
<1>1. AccessTypeOK
  BY DEF AccessInit, AccessTypeOK
<1>2. DepthIsOwners
  BY ThreadsAssumption DEF AccessInit, DepthIsOwners
<1>3. NoLeakedWaiter
  <2>1. ParkedOrders = {}
    BY DEF AccessInit, ParkedOrders
  <2> QED
    BY <2>1, FS_EmptySet DEF AccessInit, NoLeakedWaiter
<1> QED
  BY <1>1, <1>2, <1>3 DEF AccessInv

LEMMA NextInv == AccessInv /\ [AccessNext]_accessVars => AccessInv'
<1> SUFFICES ASSUME AccessInv, [AccessNext]_accessVars PROVE AccessInv'
  OBVIOUS
<1> USE ThreadsAssumption
<1>1. ASSUME NEW t \in Threads, Reenter(t) PROVE AccessInv'
  <2>1. AccessTypeOK'
    BY <1>1 DEF AccessInv, Reenter, AccessTypeOK
  <2>2. DepthIsOwners'
    BY <1>1 DEF AccessInv, Reenter, AccessTypeOK, DepthIsOwners
  <2>3. NoLeakedWaiter'
    BY <1>1 DEF AccessInv, Reenter, AccessTypeOK, DepthIsOwners, NoLeakedWaiter, ParkedOrders
  <2> QED
    BY <2>1, <2>2, <2>3 DEF AccessInv
<1>2. ASSUME NEW t \in Threads, NEW p \in Priorities, Acquire(t, p) PROVE AccessInv'
  <2>1. AccessTypeOK'
    BY <1>2 DEF AccessInv, Acquire, Take, AccessTypeOK
  <2>2. DepthIsOwners'
    BY <1>2 DEF AccessInv, Acquire, Take, MayTake, AccessTypeOK, DepthIsOwners
  <2>3. NoLeakedWaiter'
    BY <1>2 DEF AccessInv, Acquire, Take, AccessTypeOK, NoLeakedWaiter, ParkedOrders
  <2> QED
    BY <2>1, <2>2, <2>3 DEF AccessInv
<1>3. ASSUME NEW t \in Threads, NEW p \in Priorities, Park(t, p) PROVE AccessInv'
  <2>1. AccessTypeOK'
    BY <1>3 DEF AccessInv, Park, AccessTypeOK
  <2>2. DepthIsOwners'
    BY <1>3 DEF AccessInv, Park, DepthIsOwners
  <2>3. waitingOrders' = Cardinality(ParkedOrders')
    BY <1>3, ParkedOrdersGrow DEF AccessInv, Park
  <2>4. \A u \in Threads : parked'[u] # "none" => inside'[u] = 0
    BY <1>3 DEF AccessInv, Park, AccessTypeOK, DepthIsOwners, NoLeakedWaiter
  <2> QED
    BY <2>1, <2>2, <2>3, <2>4 DEF AccessInv, NoLeakedWaiter
<1>4. ASSUME NEW t \in Threads, Wake(t) PROVE AccessInv'
  <2>1. /\ waitingOrders' = Cardinality(ParkedOrders')
        /\ waitingOrders' \in Nat
    BY <1>4, ParkedOrdersShrink DEF AccessInv, Wake
  <2>2. AccessTypeOK'
    BY <1>4, <2>1 DEF AccessInv, Wake, Take, AccessTypeOK
  <2>3. DepthIsOwners'
    BY <1>4 DEF AccessInv, Wake, Take, MayTake, AccessTypeOK, DepthIsOwners
  <2>4. \A u \in Threads : parked'[u] # "none" => inside'[u] = 0
    BY <1>4 DEF AccessInv, Wake, Take, AccessTypeOK, NoLeakedWaiter
  <2> QED
    BY <2>1, <2>2, <2>3, <2>4 DEF AccessInv, NoLeakedWaiter
<1>5. ASSUME NEW t \in Threads, Release(t) PROVE AccessInv'
  <2>1. depth \in Nat /\ depth > 0
    BY <1>5 DEF AccessInv, Release, AccessTypeOK, DepthIsOwners
  <2>2. AccessTypeOK'
    BY <1>5, <2>1 DEF AccessInv, Release, AccessTypeOK
  <2>3. DepthIsOwners'
    BY <1>5, <2>1 DEF AccessInv, Release, AccessTypeOK, DepthIsOwners
  <2>4. NoLeakedWaiter'
    BY <1>5, <2>1 DEF AccessInv, Release, AccessTypeOK, DepthIsOwners, NoLeakedWaiter, ParkedOrders
  <2> QED
    BY <2>2, <2>3, <2>4 DEF AccessInv
<1>6. ASSUME UNCHANGED accessVars PROVE AccessInv'
  BY <1>6 DEF AccessInv, accessVars, AccessTypeOK, DepthIsOwners, NoLeakedWaiter, ParkedOrders
<1> QED
  BY <1>1, <1>2, <1>3, <1>4, <1>5, <1>6 DEF AccessNext, Step

(***************************************************************************)
(* The coordinator's fields always describe the call stacks: the count of  *)
(* waiting orders never leaks and the depth is the owner's nesting.        *)
(***************************************************************************)
THEOREM CoordinatorConsistent == AccessSpec => [](AccessTypeOK /\ DepthIsOwners /\ NoLeakedWaiter)
<1>1. AccessInv => AccessTypeOK /\ DepthIsOwners /\ NoLeakedWaiter
  BY DEF AccessInv
<1> QED
  BY InitInv, NextInv, <1>1, PTL DEF AccessSpec

(***************************************************************************)
(* At most one thread is inside an acquire() block and no waiter is counted*)
(* for good, for any number of threads, priorities and nested blocks.      *)
(***************************************************************************)
THEOREM TerminalIsExclusive == AccessSpec => []OneAtATime
<1>1. AccessInv => OneAtATime
  BY DEF AccessInv, DepthIsOwners, MutualExclusion, OneAtATime
<1> QED
  BY InitInv, NextInv, <1>1, PTL DEF AccessSpec
-----------------------------------------------------------------------------
(* The tick buffer.                                                        *)

\* What is left of a sequence when its first e elements are dropped.
LEMMA RestOfSeq ==
    ASSUME NEW S, NEW s \in Seq(S), NEW e \in 0..Len(s)
    PROVE  /\ SubSeq(s, 1 + e, Len(s)) \in Seq(S)
           /\ Len(SubSeq(s, 1 + e, Len(s))) = Len(s) - e
           /\ \A i \in 1..(Len(s) - e) : SubSeq(s, 1 + e, Len(s))[i] = s[i + e]
<1>1. Len(s) \in Nat /\ 1 + e \in 1..(Len(s) + 1)
  OBVIOUS
<1>2. SubSeq(s, 1 + e, Len(s)) \in Seq(S)
  BY <1>1
<1>3. Len(SubSeq(s, 1 + e, Len(s))) = Len(s) - e
  BY <1>1
<1>4. \A i \in 1..(Len(s) - e) : SubSeq(s, 1 + e, Len(s))[i] = s[i + e]
  BY <1>1, <1>3
<1> QED  BY <1>2, <1>3, <1>4

\* Ticks wait in the order in which they were collected.
QueueInOrder ==
    /\ \A i \in 1..Len(buffer) : buffer[i].id <= count
    /\ \A i, j \in 1..Len(buffer) : i < j => buffer[i].id < buffer[j].id

\* A batch belongs to one account and has ticks that were collected.
IsBatch(b) ==
    /\ Len(b) >= 1
    /\ \A i \in 1..Len(b) : b[i].id <= count /\ b[i].account = b[1].account

\* Ticks of a sequence are in the batch or newer than all of it.
OlderThan(b, ticks) ==
    \A i \in 1..Len(b), j \in 1..Len(ticks) :
       ticks[j].id \in Ids(b) \/ b[i].id < ticks[j].id

\* The queued ticks of a batch are within what the next batch would take.
IsInFront(b) ==
    \A j \in 1..Len(buffer) : buffer[j].id \in Ids(b) =>
       j <= BatchMax /\ \A i \in 1..j : buffer[i].account = buffer[1].account

\* What is under way belongs to one account, is older than the rest of the queue
\* and is at its front.
BatchIsOldest ==
    /\ sending.stage # "idle" =>
          IsBatch(sending.batch) /\ OlderThan(sending.batch, buffer) /\ IsInFront(sending.batch)
    /\ \A b \in late : IsBatch(b) /\ OlderThan(b, buffer) /\ IsInFront(b)

\* What the sender posts takes along whatever is queued of the batches it gave up.
LateIsResent ==
    sending.stage # "idle" => \A b \in late :
       /\ OlderThan(b, sending.batch)
       /\ \A j \in 1..Len(buffer) : buffer[j].id \in Ids(b) => buffer[j].id \in Ids(sending.batch)

\* The ticks of a batch the sender gave up are stored, queued or dropped.
LateIsAccounted ==
    /\ sending.stage = "answered" => Ids(sending.batch) \subseteq Arrived
    /\ sending.stage # "idle" => Ids(sending.batch) \subseteq Arrived \cup Queued \cup overflow
    /\ \A b \in late : Ids(b) \subseteq Arrived \cup Queued \cup overflow

\* What has arrived is older than what is queued or posted and has not.
ArrivedIsOlder ==
    \A a \in Arrived :
        /\ a \in Nat /\ a <= count
        /\ \A j \in 1..Len(buffer) : buffer[j].id \in Arrived \/ a < buffer[j].id
        /\ sending.stage # "idle" =>
              \A i \in 1..Len(sending.batch) :
                 sending.batch[i].id \in Arrived \/ a < sending.batch[i].id

IInv == /\ TypeOK /\ QueueInOrder /\ BatchIsOldest /\ LateIsResent /\ LateIsAccounted
        /\ ArrivedIsOlder /\ TicksKeepTheirAccount

-----------------------------------------------------------------------------
LEMMA RestingType ==
  /\ <<>> \in Seq(Tick) /\ Len(<<>>) = 0
  /\ Resting \in [stage : Stage, batch : Seq(Tick), attempt : 0..MaxPosts]
  /\ Resting.stage = "idle"
<1>1. <<>> \in Seq(Tick) /\ Len(<<>>) = 0
  OBVIOUS
<1>2. 0 \in 0..MaxPosts
  BY SizesAssumption
<1> QED  BY <1>1, <1>2 DEF Resting, Stage

\* Init and the steps that leave the ticks alone.
LEMMA InitIInv == Init => IInv
<1> SUFFICES ASSUME Init PROVE IInv
  OBVIOUS
<1>1. TypeOK
  <2>1. buffer \in Seq(Tick) /\ Len(buffer) <= MaxBuffer
    BY RestingType, SizesAssumption DEF Init
  <2>2. /\ sending \in [stage : Stage, batch : Seq(Tick), attempt : 0..MaxPosts]
        /\ late \subseteq Seq(Tick)
    BY RestingType DEF Init
  <2>3. {up, due, forced, stopping} \subseteq BOOLEAN
    BY DEF Init
  <2>4. dropped \in Nat /\ count \in 0..MaxTicks
    BY SizesAssumption DEF Init
  <2>5. overflow \subseteq 1..count /\ received \subseteq [tick : Tick, account : Accounts]
    BY DEF Init
  <2> QED  BY <2>1, <2>2, <2>3, <2>4, <2>5 DEF TypeOK
<1>2. QueueInOrder /\ BatchIsOldest /\ LateIsResent /\ LateIsAccounted
  BY RestingType DEF Init, QueueInOrder, BatchIsOldest, LateIsResent, LateIsAccounted
<1>3. ArrivedIsOlder /\ TicksKeepTheirAccount
  BY DEF Init, ArrivedIsOlder, TicksKeepTheirAccount, Arrived
<1> QED  BY <1>1, <1>2, <1>3 DEF IInv

LEMMA QuietKeeps ==
  ASSUME IInv, Flush \/ Stop \/ IntervalPasses \/ Leave \/ UNCHANGED vars
  PROVE  IInv'
<1>1. /\ UNCHANGED <<buffer, sending, late, dropped, count, overflow, received>>
      /\ {up', due', forced', stopping'} \subseteq BOOLEAN
  BY DEF IInv, TypeOK, Flush, Stop, IntervalPasses, Leave, vars, senderVars
<1>2. TypeOK'
  BY <1>1 DEF IInv, TypeOK
<1>3. QueueInOrder' /\ BatchIsOldest' /\ LateIsResent'
  BY <1>1 DEF IInv, QueueInOrder, BatchIsOldest, LateIsResent, IsBatch, OlderThan, IsInFront
<1>4. LateIsAccounted' /\ ArrivedIsOlder' /\ TicksKeepTheirAccount'
  BY <1>1 DEF IInv, LateIsAccounted, Queued, ArrivedIsOlder, TicksKeepTheirAccount, Arrived
<1> QED  BY <1>2, <1>3, <1>4 DEF IInv

\* add_many appends newer ticks and drops from the front.
LEMMA AddManyKeeps ==
  ASSUME IInv, NEW n \in 1..MaxPoll, NEW a \in Accounts, AddMany(n, a)
  PROVE  IInv'
<1> DEFINE all == buffer \o Polled(n, a)
           excess == Excess(all)
<1>1. /\ buffer \in Seq(Tick) /\ Len(buffer) \in Nat /\ Len(buffer) <= MaxBuffer
      /\ count \in 0..MaxTicks /\ count + n <= MaxTicks
      /\ n \in Nat /\ MaxTicks \in Nat /\ MaxBuffer \in Nat
  BY SizesAssumption DEF IInv, TypeOK, AddMany
<1>2. /\ Polled(n, a) \in Seq(Tick) /\ Len(Polled(n, a)) = n
      /\ \A i \in 1..n : Polled(n, a)[i] = [id |-> count + i, account |-> a]
  BY <1>1 DEF Polled, Tick
<1>3. /\ all \in Seq(Tick) /\ Len(all) = Len(buffer) + n
      /\ \A i \in 1..Len(buffer) : all[i] = buffer[i]
      /\ \A i \in (Len(buffer) + 1)..Len(all) : all[i].id = count + (i - Len(buffer))
  BY <1>1, <1>2
<1>4. /\ excess \in 0..Len(all)
      /\ Len(all) - excess <= MaxBuffer /\ Len(all) - excess \in Nat
  <2>1. excess = IF Len(all) > MaxBuffer THEN Len(all) - MaxBuffer ELSE 0
    BY DEF Excess
  <2>2. Len(all) \in Nat
    BY <1>1, <1>3
  <2> HIDE DEF all, excess
  <2> QED  BY <2>1, <2>2, <1>1
<1>5. /\ buffer' \in Seq(Tick) /\ Len(buffer') = Len(all) - excess
      /\ \A i \in 1..Len(buffer') : buffer'[i] = all[i + excess]
  <2>1. buffer' = SubSeq(all, 1 + excess, Len(all))
    BY DEF AddMany
  <2> HIDE DEF all, excess
  <2>2. all \in Seq(Tick) /\ excess \in 0..Len(all)
    BY <1>3, <1>4
  <2>3. /\ SubSeq(all, 1 + excess, Len(all)) \in Seq(Tick)
        /\ Len(SubSeq(all, 1 + excess, Len(all))) = Len(all) - excess
        /\ \A i \in 1..(Len(all) - excess) : SubSeq(all, 1 + excess, Len(all))[i] = all[i + excess]
    BY <2>2, RestOfSeq, Zenon
  <2> QED  BY <2>1, <2>3, Zenon
<1>6. /\ \A i \in 1..Len(buffer) : buffer[i].id \in 1..count
      /\ \A i, j \in 1..Len(buffer) : i < j => buffer[i].id < buffer[j].id
  <2>1. \A i \in 1..Len(buffer) : buffer[i].id \in 1..MaxTicks
    <3> SUFFICES ASSUME NEW i \in 1..Len(buffer) PROVE buffer[i].id \in 1..MaxTicks
      OBVIOUS
    <3>1. buffer[i] \in Tick
      BY <1>1
    <3> QED  BY <3>1 DEF Tick
  <2> QED  BY <2>1, <1>1 DEF IInv, QueueInOrder
<1>7. \A i \in 1..Len(all) : \/ i \in 1..Len(buffer) /\ all[i] = buffer[i]
                             \/ all[i].id \in (count + 1)..(count + n)
  <2> HIDE DEF all
  <2> QED  BY <1>1, <1>3
<1>8. \A i, j \in 1..Len(all) : i < j => all[i].id < all[j].id
  <2> HIDE DEF all
  <2> SUFFICES ASSUME NEW i \in 1..Len(all), NEW j \in 1..Len(all), i < j
               PROVE  all[i].id < all[j].id
    OBVIOUS
  <2>1. CASE j <= Len(buffer)
    BY <2>1, <1>1, <1>3, <1>6
  <2>2. CASE j > Len(buffer) /\ i <= Len(buffer)
    BY <2>2, <1>1, <1>3, <1>6
  <2>3. CASE i > Len(buffer)
    BY <2>3, <1>1, <1>3
  <2> QED  BY <2>1, <2>2, <2>3, <1>1, <1>3
<1>9. \A j \in 1..Len(buffer') : \/ \E k \in 1..Len(buffer) : buffer'[j] = buffer[k]
                                 \/ buffer'[j].id \in (count + 1)..(count + n)
  <2> HIDE DEF all, excess
  <2> QED  BY <1>3, <1>4, <1>5, <1>7
<1>10. QueueInOrder'
  <2> HIDE DEF all, excess
  <2>1. count' = count + n
    BY DEF AddMany
  <2>2. \A i \in 1..Len(buffer') : buffer'[i].id <= count + n
    <3> SUFFICES ASSUME NEW i \in 1..Len(buffer') PROVE buffer'[i].id <= count + n
      OBVIOUS
    <3>1. CASE \E k \in 1..Len(buffer) : buffer'[i] = buffer[k]
      BY <3>1, <1>1, <1>6
    <3>2. CASE buffer'[i].id \in (count + 1)..(count + n)
      BY <3>2, <1>1
    <3> QED  BY <3>1, <3>2, <1>9
  <2>3. \A i, j \in 1..Len(buffer') : i < j => buffer'[i].id < buffer'[j].id
    <3> SUFFICES ASSUME NEW i \in 1..Len(buffer'), NEW j \in 1..Len(buffer'), i < j
                 PROVE  buffer'[i].id < buffer'[j].id
      OBVIOUS
    <3>1. /\ i + excess \in 1..Len(all) /\ j + excess \in 1..Len(all)
          /\ i + excess < j + excess
      BY <1>3, <1>4, <1>5
    <3> QED  BY <3>1, <1>5, <1>8
  <2> QED  BY <2>1, <2>2, <2>3 DEF QueueInOrder
<1>11. TypeOK'
  <2> HIDE DEF all, excess
  <2>1. /\ overflow' = overflow \cup {all[i].id : i \in 1..excess}
        /\ dropped' = dropped + excess /\ count' = count + n
        /\ UNCHANGED <<sending, late, up, due, received, forced, stopping>>
    BY DEF AddMany, senderVars, all, excess
  <2>2. \A i \in 1..excess : all[i].id \in 1..(count + n)
    <3> SUFFICES ASSUME NEW i \in 1..excess PROVE all[i].id \in 1..(count + n)
      OBVIOUS
    <3>1. i \in 1..Len(all)
      BY <1>3, <1>4
    <3> QED  BY <3>1, <1>1, <1>6, <1>7
  <2>3. overflow' \subseteq 1..count'
    <3>1. overflow \subseteq 1..count
      BY DEF IInv, TypeOK
    <3> SUFFICES ASSUME NEW x \in overflow' PROVE x \in 1..(count + n)
      BY <2>1
    <3>2. CASE x \in overflow
      BY <3>1, <3>2, <1>1
    <3>3. CASE x \in {all[i].id : i \in 1..excess}
      BY <3>3, <2>2
    <3> QED  BY <3>2, <3>3, <2>1
  <2>4. dropped' \in Nat /\ count' \in 0..MaxTicks
    BY <2>1, <1>1, <1>4, <1>3 DEF IInv, TypeOK
  <2> QED  BY <2>1, <2>3, <2>4, <1>4, <1>5, <1>1 DEF IInv, TypeOK
<1>12. UNCHANGED <<sending, late, received>> /\ count' = count + n
  BY DEF AddMany, senderVars
<1>13. ASSUME NEW b \in Seq(Tick), IsBatch(b), OlderThan(b, buffer), IsInFront(b)
       PROVE  IsBatch(b)' /\ OlderThan(b, buffer)' /\ IsInFront(b)'
  <2> HIDE DEF all, excess
  <2>1. \A i \in 1..Len(b) : b[i].id \in 1..count
    <3> SUFFICES ASSUME NEW i \in 1..Len(b) PROVE b[i].id \in 1..count
      OBVIOUS
    <3>1. b[i] \in Tick
      BY <1>13
    <3> QED  BY <3>1, <1>1, <1>13 DEF Tick, IsBatch
  <2>2. IsBatch(b)'
    BY <2>1, <1>1, <1>12, <1>13 DEF IsBatch
  <2>3. ASSUME NEW i \in 1..Len(b), NEW j \in 1..Len(buffer')
        PROVE  buffer'[j].id \in Ids(b) \/ b[i].id < buffer'[j].id
    <3>1. CASE \E k \in 1..Len(buffer) : buffer'[j] = buffer[k]
      <4>1. PICK k \in 1..Len(buffer) : buffer'[j] = buffer[k]
        BY <3>1
      <4>2. buffer[k].id \in Ids(b) \/ b[i].id < buffer[k].id
        BY <1>13 DEF OlderThan
      <4> QED  BY <4>1, <4>2
    <3>2. CASE buffer'[j].id \in (count + 1)..(count + n)
      BY <3>2, <2>1, <1>1
    <3> QED  BY <3>1, <3>2, <1>9
  <2>4. OlderThan(b, buffer)'
    BY <2>3 DEF OlderThan
  <2>5. ASSUME NEW j \in 1..Len(buffer'), buffer'[j].id \in Ids(b)
        PROVE  j <= BatchMax /\ \A i \in 1..j : buffer'[i].account = buffer'[1].account
    <3>1. buffer'[j].id \in 1..count
      BY <2>1, <2>5 DEF Ids
    <3>2. j + excess \in 1..Len(all) /\ buffer'[j] = all[j + excess]
      BY <1>3, <1>4, <1>5
    <3>3. j + excess \in 1..Len(buffer) /\ all[j + excess] = buffer[j + excess]
      BY <3>1, <3>2, <1>1, <1>7
    <3>4. /\ j + excess <= BatchMax
          /\ \A i \in 1..(j + excess) : buffer[i].account = buffer[1].account
      BY <3>2, <3>3, <2>5, <1>13 DEF IsInFront
    <3>5. ASSUME NEW i \in 1..j
          PROVE  i + excess \in 1..(j + excess) /\ buffer'[i] = buffer[i + excess]
      <4>1. excess \in Nat /\ j \in Nat /\ i \in Nat /\ Len(buffer') \in Nat
        BY <1>3, <1>4, <1>5, <1>1
      <4>2. i + excess \in 1..(j + excess) /\ i + excess \in 1..Len(buffer) /\ i \in 1..Len(buffer')
        BY <4>1, <3>3, <1>1
      <4> QED  BY <4>2, <1>3, <1>5
    <3>6. \A i \in 1..j : buffer'[i].account = buffer[1].account
      BY <3>4, <3>5
    <3>7. j <= BatchMax /\ 1 \in 1..j
      BY <3>4, <1>3, <1>4, <1>1, SizesAssumption
    <3> QED  BY <3>6, <3>7
  <2>6. IsInFront(b)'
    BY <2>5 DEF IsInFront
  <2> QED  BY <2>2, <2>4, <2>6
<1>16. BatchIsOldest'
  <2>1. \A b \in late : IsBatch(b)' /\ OlderThan(b, buffer)' /\ IsInFront(b)'
    BY <1>13 DEF IInv, TypeOK, BatchIsOldest
  <2>2. sending.stage # "idle" =>
          /\ sending.batch \in Seq(Tick) /\ IsBatch(sending.batch)
          /\ OlderThan(sending.batch, buffer) /\ IsInFront(sending.batch)
    BY DEF IInv, TypeOK, BatchIsOldest
  <2>3. sending.stage # "idle" =>
          IsBatch(sending.batch)' /\ OlderThan(sending.batch, buffer)' /\ IsInFront(sending.batch)'
    BY <1>12, <1>13, <2>2 DEF IsBatch, OlderThan, IsInFront
  <2> QED  BY <1>12, <2>1, <2>3 DEF BatchIsOldest, IsBatch, OlderThan, IsInFront
<1>17. LateIsResent'
  <2> HIDE DEF all, excess
  <2> SUFFICES ASSUME sending.stage # "idle", NEW b \in late,
                      NEW j \in 1..Len(buffer'), buffer'[j].id \in Ids(b)
               PROVE  buffer'[j].id \in Ids(sending.batch)
    BY <1>12 DEF IInv, LateIsResent, OlderThan, Ids
  <2>1. buffer'[j].id <= count
    BY DEF IInv, BatchIsOldest, IsBatch, Ids
  <2>2. PICK k \in 1..Len(buffer) : buffer'[j] = buffer[k]
    BY <2>1, <1>1, <1>9
  <2> QED  BY <2>2 DEF IInv, LateIsResent
<1>18. LateIsAccounted'
  <2> HIDE DEF all, excess
  <2>1. Queued \subseteq (Queued \cup overflow)'
    <3> SUFFICES ASSUME NEW k \in 1..Len(buffer)
                 PROVE  buffer[k].id \in Ids(buffer') \cup overflow'
      BY DEF Queued, Ids
    <3>1. all[k] = buffer[k] /\ k \in 1..Len(all)
      BY <1>1, <1>3
    <3>2. CASE k <= excess
      <4>1. overflow' = overflow \cup {all[i].id : i \in 1..excess}
        BY DEF AddMany, all, excess
      <4> QED  BY <3>1, <3>2, <4>1, <1>1, <1>4
    <3>3. CASE k > excess
      <4>1. k - excess \in 1..Len(buffer') /\ (k - excess) + excess = k
        BY <3>1, <3>3, <1>1, <1>3, <1>4, <1>5
      <4>2. buffer'[k - excess] = buffer[k]
        BY <4>1, <3>1, <1>5
      <4> QED  BY <4>1, <4>2 DEF Ids
    <3> QED  BY <3>2, <3>3, <1>1, <1>4
  <2>2. overflow \subseteq overflow' /\ Arrived' = Arrived
    BY <1>12 DEF AddMany, Arrived
  <2> QED  BY <2>1, <2>2, <1>12 DEF IInv, LateIsAccounted, Ids
<1>14. ArrivedIsOlder'
  <2> SUFFICES ASSUME NEW x \in Arrived
               PROVE  /\ x \in Nat /\ x <= count + n
                      /\ \A j \in 1..Len(buffer') : buffer'[j].id \in Arrived \/ x < buffer'[j].id
                      /\ sending.stage # "idle" =>
                            \A i \in 1..Len(sending.batch) :
                               sending.batch[i].id \in Arrived \/ x < sending.batch[i].id
    BY <1>12 DEF ArrivedIsOlder, Arrived
  <2>1. /\ x \in Nat /\ x <= count
        /\ \A k \in 1..Len(buffer) : buffer[k].id \in Arrived \/ x < buffer[k].id
        /\ sending.stage # "idle" =>
              \A i \in 1..Len(sending.batch) :
                 sending.batch[i].id \in Arrived \/ x < sending.batch[i].id
    BY DEF IInv, ArrivedIsOlder
  <2> QED  BY <2>1, <1>1, <1>9
<1>15. TicksKeepTheirAccount'
  BY <1>12 DEF IInv, TicksKeepTheirAccount
<1> QED  BY <1>10, <1>11, <1>14, <1>15, <1>16, <1>17, <1>18 DEF IInv

\* _peek_batch_locked copies a batch from the front of the queue.
LEMMA PeekKeeps ==
  ASSUME IInv, Peek
  PROVE  IInv'
<1> PICK n \in 1..Len(buffer) :
      /\ IsBatchLength(n)
      /\ sending' = [stage |-> "posting", batch |-> SubSeq(buffer, 1, n), attempt |-> 1]
  BY DEF Peek
<1>1. buffer \in Seq(Tick) /\ Len(buffer) \in Nat /\ 1 \in 0..MaxPosts
  BY SizesAssumption DEF IInv, TypeOK
<1>2. UNCHANGED <<buffer, late, up, due, forced, stopping, dropped, count, overflow, received>>
  BY DEF Peek
<1>3. /\ sending'.batch \in Seq(Tick) /\ Len(sending'.batch) = n
      /\ sending'.stage = "posting"
      /\ \A i \in 1..n : sending'.batch[i] = buffer[i]
  BY <1>1
<1>4. TypeOK'
  BY <1>1, <1>2, <1>3 DEF IInv, TypeOK, Stage
<1>5. BatchIsOldest'
  <2>1. \A b \in late : IsBatch(b)' /\ OlderThan(b, buffer)' /\ IsInFront(b)'
    BY <1>2 DEF IInv, BatchIsOldest, IsBatch, OlderThan, IsInFront
  <2>2. IsBatch(sending.batch)'
    BY <1>1, <1>2, <1>3 DEF IInv, QueueInOrder, IsBatchLength, IsBatch
  <2>3. OlderThan(sending.batch, buffer)'
    <3> SUFFICES ASSUME NEW i \in 1..n, NEW j \in 1..Len(buffer)
                 PROVE  \/ buffer[j].id \in {buffer[k].id : k \in 1..n}
                        \/ buffer[i].id < buffer[j].id
      BY <1>1, <1>2, <1>3 DEF OlderThan, Ids
    <3> QED  BY <1>1 DEF IInv, QueueInOrder
  <2>4. IsInFront(sending.batch)'
    <3> SUFFICES ASSUME NEW j \in 1..Len(buffer), NEW k \in 1..n, buffer[j].id = buffer[k].id
                 PROVE  j <= BatchMax /\ \A i \in 1..j : buffer[i].account = buffer[1].account
      BY <1>1, <1>2, <1>3 DEF IsInFront, Ids
    <3>1. j = k
      <4>1. buffer[j] \in Tick /\ buffer[k] \in Tick
        BY <1>1
      <4>2. j < k \/ k < j => buffer[j].id # buffer[k].id
        BY <1>1, <4>1 DEF IInv, QueueInOrder, Tick
      <4> QED  BY <4>2, <1>1
    <3> QED  BY <3>1, <1>1, SizesAssumption DEF IsBatchLength
  <2> QED  BY <1>2, <2>1, <2>2, <2>3, <2>4 DEF BatchIsOldest
<1>7. LateIsResent'
  <2> SUFFICES ASSUME NEW b \in late
               PROVE  /\ OlderThan(b, sending'.batch)
                      /\ \A j \in 1..Len(buffer) : buffer[j].id \in Ids(b) =>
                            buffer[j].id \in Ids(sending'.batch)
    BY <1>2 DEF LateIsResent, OlderThan, Ids
  <2>1. OlderThan(b, sending'.batch)
    BY <1>1, <1>3 DEF IInv, BatchIsOldest, OlderThan
  <2>2. ASSUME NEW j \in 1..Len(buffer), buffer[j].id \in Ids(b)
        PROVE  buffer[j].id \in Ids(sending'.batch)
    <3>1. j <= BatchMax /\ \A i \in 1..j : buffer[i].account = buffer[1].account
      BY <2>2 DEF IInv, BatchIsOldest, IsInFront
    <3>2. j <= n
      <4> SUFFICES ASSUME n < j PROVE FALSE
        BY <1>1
      <4>1. n < BatchMax /\ n < Len(buffer) /\ n + 1 \in 1..j
        BY <3>1, <1>1, SizesAssumption
      <4> QED  BY <4>1, <3>1 DEF IsBatchLength
    <3>3. j \in 1..Len(sending'.batch) /\ sending'.batch[j] = buffer[j]
      BY <3>2, <1>1, <1>3
    <3> QED  BY <3>3 DEF Ids
  <2> QED  BY <2>1, <2>2
<1>8. LateIsAccounted'
  <2>1. Ids(sending'.batch) \subseteq Queued
    BY <1>1, <1>3 DEF Ids, Queued
  <2>2. Queued' = Queued /\ Arrived' = Arrived
    BY <1>2 DEF Queued, Arrived, Ids
  <2> QED  BY <1>2, <1>3, <2>1, <2>2 DEF IInv, LateIsAccounted
<1>6. ArrivedIsOlder'
  <2>1. Arrived' = Arrived
    BY <1>2 DEF Arrived
  <2>2. ASSUME NEW x \in Arrived
        PROVE  /\ x \in Nat /\ x <= count
               /\ \A j \in 1..Len(buffer) : buffer[j].id \in Arrived \/ x < buffer[j].id
    BY DEF IInv, ArrivedIsOlder
  <2>3. ASSUME NEW x \in Arrived, NEW i \in 1..Len(sending'.batch)
        PROVE  sending'.batch[i].id \in Arrived \/ x < sending'.batch[i].id
    BY <1>1, <1>3, <2>2
  <2> QED  BY <1>2, <2>1, <2>2, <2>3 DEF ArrivedIsOlder
<1> QED  BY <1>2, <1>4, <1>5, <1>6, <1>7, <1>8 DEF IInv, QueueInOrder, TicksKeepTheirAccount

\* What the API stores of a batch.
LEMMA StoredEffect ==
  ASSUME IInv, NEW b \in Seq(Tick), IsBatch(b)
  PROVE  /\ Stored(b) \subseteq [tick : Tick, account : Accounts]
         /\ received \subseteq Stored(b)
         /\ \A r \in Stored(b) : r.account = r.tick.account
         /\ \A r \in Stored(b) \ received :
               \E i \in 1..Len(b) : r.tick = b[i] /\ r.tick.id \notin Arrived
         /\ {r.tick.id : r \in Stored(b)} = Arrived \cup Ids(b)
<1>1. /\ Len(b) \in Nat /\ Len(b) >= 1
      /\ \A i \in 1..Len(b) : b[i] \in Tick /\ b[i].account = b[1].account
      /\ received \subseteq [tick : Tick, account : Accounts]
  BY DEF IInv, TypeOK, IsBatch
<1> DEFINE fresh == {[tick |-> b[i], account |-> b[1].account] :
                      i \in {j \in 1..Len(b) : b[j].id \notin Arrived}}
<1>2. Stored(b) = received \cup fresh
  BY DEF Stored
<1>3. \A r \in fresh : \E i \in 1..Len(b) :
         r = [tick |-> b[i], account |-> b[1].account] /\ b[i].id \notin Arrived
  OBVIOUS
<1>4. \A r \in fresh : r \in [tick : Tick, account : Accounts] /\ r.account = r.tick.account
  BY <1>1, <1>3 DEF Tick
<1>5. {r.tick.id : r \in Stored(b)} = Arrived \cup Ids(b)
  <2>1. \A i \in 1..Len(b) : b[i].id \notin Arrived =>
           [tick |-> b[i], account |-> b[1].account] \in Stored(b)
    BY <1>2
  <2>2. \A r \in Stored(b) : r.tick.id \in Arrived \cup Ids(b)
    BY <1>2, <1>3 DEF Arrived, Ids
  <2>3. \A x \in Arrived \cup Ids(b) : \E r \in Stored(b) : r.tick.id = x
    BY <2>1, <1>2 DEF Arrived, Ids
  <2> QED  BY <2>2, <2>3
<1> HIDE DEF fresh
<1>6. \A r \in Stored(b) : r.account = r.tick.account
  BY <1>2, <1>4 DEF IInv, TicksKeepTheirAccount
<1> QED  BY <1>1, <1>2, <1>3, <1>4, <1>5, <1>6

\* A batch is stored, now or long after its request timed out: it is older than
\* the queue and than what is posted.
LEMMA StoredKeeps ==
  ASSUME IInv, NEW b \in Seq(Tick), IsBatch(b), OlderThan(b, buffer),
         received' = Stored(b), UNCHANGED <<buffer, count>>,
         sending'.stage # "idle" =>
            /\ sending.stage # "idle" /\ sending'.batch = sending.batch
            /\ OlderThan(b, sending.batch)
  PROVE  Arrived' = Arrived \cup Ids(b) /\ ArrivedIsOlder'
<1>1. Arrived' = Arrived \cup Ids(b)
  BY StoredEffect DEF Arrived
<1> SUFFICES ASSUME NEW a \in Arrived'
             PROVE  /\ a \in Nat /\ a <= count
                    /\ \A j \in 1..Len(buffer) : buffer[j].id \in Arrived' \/ a < buffer[j].id
                    /\ sending'.stage # "idle" =>
                          \A i \in 1..Len(sending.batch) :
                             sending.batch[i].id \in Arrived' \/ a < sending.batch[i].id
  BY <1>1 DEF ArrivedIsOlder
<1>2. CASE a \in Arrived
  BY <1>1, <1>2 DEF IInv, ArrivedIsOlder
<1>3. CASE a \in Ids(b)
  <2>1. PICK i \in 1..Len(b) : a = b[i].id
    BY <1>3 DEF Ids
  <2>2. b[i] \in Tick
    OBVIOUS
  <2> QED  BY <1>1, <2>1, <2>2 DEF OlderThan, IsBatch, Tick
<1> QED  BY <1>1, <1>2, <1>3

\* The batch that is posted, as the two lemmas want it.
LEMMA PostedBatch ==
  ASSUME IInv, sending.stage # "idle"
  PROVE  /\ sending.batch \in Seq(Tick) /\ IsBatch(sending.batch)
         /\ OlderThan(sending.batch, buffer) /\ OlderThan(sending.batch, sending.batch)
<1> QED  BY DEF IInv, TypeOK, BatchIsOldest, OlderThan, Ids

LEMMA PostAnsweredKeeps ==
  ASSUME IInv, PostAnswered
  PROVE  IInv'
<1>1. /\ sending.stage # "idle" /\ received' = Stored(sending.batch)
      /\ sending' = [sending EXCEPT !.stage = "answered"]
      /\ UNCHANGED <<buffer, late, up, due, forced, stopping, dropped, count, overflow>>
  BY DEF PostAnswered
<1>2. sending'.batch = sending.batch /\ sending'.stage = "answered"
  BY <1>1 DEF IInv, TypeOK
<1>3. TypeOK' /\ TicksKeepTheirAccount'
  BY <1>1, PostedBatch, StoredEffect DEF IInv, TypeOK, TicksKeepTheirAccount, Stage
<1>4. ArrivedIsOlder' /\ Arrived' = Arrived \cup Ids(sending.batch)
  BY <1>1, <1>2, PostedBatch, StoredKeeps
<1>5. QueueInOrder' /\ BatchIsOldest' /\ LateIsResent'
  BY <1>1, <1>2 DEF IInv, QueueInOrder, BatchIsOldest, LateIsResent, IsBatch, OlderThan,
     IsInFront, Ids
<1>6. LateIsAccounted'
  <2>1. Queued' = Queued
    BY <1>1 DEF Queued, Ids
  <2> QED  BY <1>1, <1>2, <1>4, <2>1 DEF IInv, LateIsAccounted
<1> QED  BY <1>3, <1>4, <1>5, <1>6 DEF IInv

\* An attempt that raises is stored, is not, or joins what is under way.
LEMMA PostFailsKeeps ==
  ASSUME IInv, PostFails
  PROVE  IInv'
<1>1. /\ sending.stage = "posting" /\ received' \in {received, Stored(sending.batch)}
      /\ late \subseteq late' /\ late' \subseteq late \cup {sending.batch}
      /\ UNCHANGED <<buffer, up, forced, stopping, dropped, count, overflow>>
  BY DEF PostFails
<1>2. /\ sending' \in [stage : Stage, batch : Seq(Tick), attempt : 0..MaxPosts]
      /\ due' \in BOOLEAN
      /\ sending'.stage # "idle" => sending'.batch = sending.batch /\ sending'.stage = "posting"
  <2>1. CASE sending.attempt < MaxPosts
    <3>1. sending' = [sending EXCEPT !.attempt = @ + 1] /\ UNCHANGED due
      BY <2>1 DEF PostFails
    <3> QED  BY <1>1, <2>1, <3>1, SizesAssumption DEF IInv, TypeOK
  <2>2. CASE ~ (sending.attempt < MaxPosts)
    <3>1. sending' = Resting /\ due' = FALSE
      BY <2>2 DEF PostFails
    <3> QED  BY <3>1, RestingType
  <2> QED  BY <2>1, <2>2
<1>3. TypeOK' /\ TicksKeepTheirAccount'
  BY <1>1, <1>2, PostedBatch, StoredEffect DEF IInv, TypeOK, TicksKeepTheirAccount
<1>4. ArrivedIsOlder' /\ Arrived \subseteq Arrived'
  <2>1. CASE received' = Stored(sending.batch)
    BY <1>1, <1>2, <2>1, PostedBatch, StoredKeeps
  <2>2. CASE received' = received
    BY <1>1, <1>2, <2>2 DEF IInv, ArrivedIsOlder, Arrived
  <2> QED  BY <1>1, <2>1, <2>2
<1>5. QueueInOrder' /\ BatchIsOldest'
  <2>1. \A b \in late' : IsBatch(b) /\ OlderThan(b, buffer) /\ IsInFront(b)
    BY <1>1 DEF IInv, BatchIsOldest
  <2>2. sending'.stage # "idle" => sending'.batch = sending.batch
    BY <1>2
  <2>3. BatchIsOldest'
    BY <1>1, <2>1, <2>2 DEF IInv, BatchIsOldest, IsBatch, OlderThan, IsInFront, Ids
  <2> QED  BY <1>1, <2>3 DEF IInv, QueueInOrder
<1>6. LateIsResent'
  <2>1. ASSUME sending'.stage # "idle", NEW b \in late'
        PROVE  /\ OlderThan(b, sending.batch)
               /\ \A j \in 1..Len(buffer) : buffer[j].id \in Ids(b) =>
                     buffer[j].id \in Ids(sending.batch)
    BY <1>1, PostedBatch DEF IInv, LateIsResent
  <2> SUFFICES ASSUME sending'.stage # "idle", NEW b \in late'
               PROVE  /\ OlderThan(b, sending.batch)'
                      /\ \A j \in 1..Len(buffer) : buffer[j].id \in Ids(b) =>
                            buffer[j].id \in Ids(sending'.batch)
    BY <1>1 DEF LateIsResent, Ids
  <2>2. sending'.batch = sending.batch
    BY <1>2
  <2>3. OlderThan(b, sending.batch)'
    BY <2>1, <2>2 DEF OlderThan, Ids
  <2> QED  BY <2>1, <2>2, <2>3
<1>7. LateIsAccounted'
  <2>1. Queued' = Queued
    BY <1>1 DEF Queued, Ids
  <2>2. \A b \in late' : Ids(b) \subseteq Arrived \cup Queued \cup overflow
    BY <1>1 DEF IInv, LateIsAccounted
  <2>3. sending'.stage # "idle" => Ids(sending'.batch) \subseteq Arrived \cup Queued \cup overflow
    BY <1>1, <1>2 DEF IInv, LateIsAccounted
  <2>4. sending'.stage # "answered"
    BY <1>2
  <2> QED  BY <1>1, <1>4, <2>1, <2>2, <2>3, <2>4 DEF LateIsAccounted
<1> QED  BY <1>3, <1>4, <1>5, <1>6, <1>7 DEF IInv

\* A batch the sender gave up is stored after all.
LEMMA LateStoredKeeps ==
  ASSUME IInv, NEW b \in late, LateStored(b)
  PROVE  IInv'
<1>1. /\ received' = Stored(b) /\ late' = late \ {b}
      /\ UNCHANGED <<buffer, sending, up, due, forced, stopping, dropped, count, overflow>>
  BY DEF LateStored
<1>2. /\ b \in Seq(Tick) /\ IsBatch(b) /\ OlderThan(b, buffer)
      /\ sending.stage # "idle" => OlderThan(b, sending.batch)
  BY DEF IInv, TypeOK, BatchIsOldest, LateIsResent
<1>3. TypeOK' /\ TicksKeepTheirAccount'
  BY <1>1, <1>2, StoredEffect DEF IInv, TypeOK, TicksKeepTheirAccount
<1>4. ArrivedIsOlder' /\ Arrived' = Arrived \cup Ids(b)
  BY <1>1, <1>2, StoredKeeps
<1>5. QueueInOrder' /\ BatchIsOldest' /\ LateIsResent'
  <2>1. QueueInOrder' /\ BatchIsOldest'
    BY <1>1 DEF IInv, QueueInOrder, BatchIsOldest, IsBatch, OlderThan, IsInFront
  <2>2. LateIsResent'
    BY <1>1 DEF IInv, LateIsResent, OlderThan
  <2> QED  BY <2>1, <2>2
<1>6. LateIsAccounted'
  <2>1. Queued' = Queued
    BY <1>1 DEF Queued, Ids
  <2> QED  BY <1>1, <1>4, <2>1 DEF IInv, LateIsAccounted
<1> QED  BY <1>3, <1>4, <1>5, <1>6 DEF IInv

\* The front of the queue goes, be it the batch that was posted or not.
LEMMA ConfirmKeeps ==
  ASSUME IInv, Confirm
  PROVE  IInv'
<1>1. /\ buffer' = Rest /\ sending' = Resting /\ sending.stage = "answered"
      /\ due' = FALSE /\ forced' \in BOOLEAN
      /\ UNCHANGED <<late, up, stopping, dropped, count, overflow, received>>
  BY DEF Confirm
<1> DEFINE k == Len(sending.batch)
<1>2. /\ buffer \in Seq(Tick) /\ Len(buffer) \in Nat /\ k \in Nat
      /\ sending'.stage = "idle"
      /\ sending' \in [stage : Stage, batch : Seq(Tick), attempt : 0..MaxPosts]
  BY <1>1, RestingType DEF IInv, TypeOK
<1>3. /\ buffer' \in Seq(Tick) /\ Len(buffer') <= Len(buffer) /\ Len(buffer') \in Nat
      /\ \A j \in 1..Len(buffer') : j + k \in 1..Len(buffer) /\ buffer'[j] = buffer[j + k]
  BY <1>1, <1>2 DEF Rest
<1>4. TypeOK'
  <2>1. Len(buffer) <= MaxBuffer /\ MaxBuffer \in Nat
    BY SizesAssumption DEF IInv, TypeOK
  <2>2. {up', due', forced', stopping'} \subseteq BOOLEAN
    BY <1>1 DEF IInv, TypeOK
  <2>3. Len(buffer') <= MaxBuffer
    BY <2>1, <1>2, <1>3
  <2> QED  BY <2>2, <2>3, <1>1, <1>2, <1>3 DEF IInv, TypeOK
<1>5. QueueInOrder'
  <2>2. \A j \in 1..Len(buffer') : buffer'[j].id <= count
    BY <1>3 DEF IInv, QueueInOrder
  <2>3. \A i, j \in 1..Len(buffer') : i < j => i + k < j + k
    BY <1>2, <1>3
  <2> HIDE DEF k
  <2>4. \A i, j \in 1..Len(buffer') : i < j => buffer'[i].id < buffer'[j].id
    BY <1>3, <2>3 DEF IInv, QueueInOrder
  <2> QED  BY <1>1, <2>2, <2>4 DEF QueueInOrder
<1>7. BatchIsOldest' /\ LateIsResent'
  <2> SUFFICES ASSUME NEW b \in late
               PROVE  /\ IsBatch(b)' /\ OlderThan(b, buffer')
                      /\ \A j \in 1..Len(buffer') : buffer'[j].id \in Ids(b) =>
                            j <= BatchMax /\ \A i \in 1..j : buffer'[i].account = buffer'[1].account
    BY <1>1, <1>2 DEF BatchIsOldest, LateIsResent, OlderThan, IsInFront, Ids
  <2>1. IsBatch(b) /\ OlderThan(b, buffer) /\ IsInFront(b)
    BY DEF IInv, BatchIsOldest
  <2>2. IsBatch(b)' /\ OlderThan(b, buffer')
    BY <2>1, <1>1, <1>3 DEF IsBatch, OlderThan
  <2>3. ASSUME NEW j \in 1..Len(buffer'), buffer'[j].id \in Ids(b)
        PROVE  j <= BatchMax /\ \A i \in 1..j : buffer'[i].account = buffer'[1].account
    <3>1. j + k \in 1..Len(buffer) /\ buffer'[j] = buffer[j + k]
      BY <1>3
    <3>2. j + k <= BatchMax /\ \A i \in 1..(j + k) : buffer[i].account = buffer[1].account
      BY <3>1, <2>1, <2>3 DEF IsInFront
    <3>3. \A i \in 1..j : i + k \in 1..(j + k) /\ buffer'[i] = buffer[i + k]
      BY <1>2, <1>3
    <3>4. \A i \in 1..j : buffer'[i].account = buffer[1].account
      BY <3>2, <3>3
    <3>5. j <= BatchMax /\ 1 \in 1..j
      BY <3>2, <1>2, <1>3, SizesAssumption
    <3> QED  BY <3>4, <3>5
  <2> QED  BY <2>2, <2>3
<1>8. LateIsAccounted'
  <2>1. Arrived' = Arrived /\ overflow' = overflow /\ late' = late /\ sending'.stage = "idle"
    BY <1>1, <1>2 DEF Arrived
  <2> SUFFICES ASSUME NEW b \in late, NEW x \in Ids(b), x \notin Arrived, x \notin overflow
               PROVE  x \in Ids(buffer')
    BY <2>1 DEF LateIsAccounted, Queued, Ids
  <2>2. PICK j \in 1..Len(buffer) : buffer[j].id = x
    BY DEF IInv, LateIsAccounted, Queued, Ids
  <2>3. x \in Ids(sending.batch) /\ Ids(sending.batch) \subseteq Arrived
    BY <1>1, <2>2 DEF IInv, LateIsResent, LateIsAccounted
  <2> QED  BY <2>3
<1>6. ArrivedIsOlder' /\ TicksKeepTheirAccount'
  BY <1>1, <1>2, <1>3 DEF IInv, ArrivedIsOlder, Arrived, TicksKeepTheirAccount
<1> QED  BY <1>4, <1>5, <1>6, <1>7, <1>8 DEF IInv

LEMMA NextKeeps == IInv /\ [Next]_vars => IInv'
<1> SUFFICES ASSUME IInv, [Next]_vars PROVE IInv'
  OBVIOUS
<1>1. ASSUME NEW n \in 1..MaxPoll, NEW a \in Accounts, AddMany(n, a) PROVE IInv'
  BY <1>1, AddManyKeeps
<1>2. CASE Flush \/ Stop \/ IntervalPasses \/ Leave \/ UNCHANGED vars
  BY <1>2, QuietKeeps
<1>3. CASE Peek
  BY <1>3, PeekKeeps
<1>4. CASE PostAnswered
  BY <1>4, PostAnsweredKeeps
<1>5. CASE PostFails
  BY <1>5, PostFailsKeeps
<1>6. CASE Confirm
  BY <1>6, ConfirmKeeps
<1>7. ASSUME NEW b \in late, LateStored(b) PROVE IInv'
  BY <1>7, LateStoredKeeps
<1> QED  BY <1>1, <1>2, <1>3, <1>4, <1>5, <1>6, <1>7 DEF Next

LEMMA Inductive == Spec => []IInv
<1> QED  BY InitIInv, NextKeeps, PTL DEF Spec

-----------------------------------------------------------------------------
(***************************************************************************)
(* The buffer never exceeds its maximum, a post is repeated at most        *)
(* MaxPosts times, and everything else keeps its type.                     *)
(***************************************************************************)
THEOREM BufferTypeOK == Spec => []TypeOK
<1>1. IInv => TypeOK
  BY DEF IInv
<1> QED  BY <1>1, Inductive, PTL

(***************************************************************************)
(* A tick is stored under the account that produced it, for any accounts,  *)
(* sizes and lost answers: a batch never spans an account switch.          *)
(***************************************************************************)
THEOREM TicksAreTheirs == Spec => []TicksKeepTheirAccount
<1>1. IInv => TicksKeepTheirAccount
  BY DEF IInv
<1> QED  BY <1>1, Inductive, PTL

(***************************************************************************)
(* Ticks first arrive in the order they were collected, also when an       *)
(* overflow drops ticks of a batch that is being posted and when a request *)
(* that timed out is stored at any later time; only a tick that an         *)
(* overflow has dropped can come after a newer one.                        *)
(***************************************************************************)
THEOREM OrderIsKept == Spec => ArrivesInOrder
<1> DEFINE InOrder == \A r \in received, new \in received' \ received :
                         r.tick.id < new.tick.id \/ new.tick.id \in overflow
<1>1. ASSUME IInv, sending.stage = "posting", received' \in {received, Stored(sending.batch)}
      PROVE  InOrder
  <2> SUFFICES ASSUME NEW r \in received, NEW new \in received' \ received
               PROVE  r.tick.id < new.tick.id
    OBVIOUS
  <2>1. PICK i \in 1..Len(sending.batch) :
           new.tick = sending.batch[i] /\ new.tick.id \notin Arrived
    BY <1>1, PostedBatch, StoredEffect
  <2>2. r.tick.id \in Arrived
    BY DEF Arrived
  <2> QED  BY <1>1, <2>1, <2>2 DEF IInv, ArrivedIsOlder
<1>2. ASSUME IInv, NEW b \in late, LateStored(b)
      PROVE  InOrder
  <2> SUFFICES ASSUME NEW r \in received, NEW new \in received' \ received,
                      new.tick.id \notin overflow
               PROVE  r.tick.id < new.tick.id
    OBVIOUS
  <2>1. b \in Seq(Tick) /\ IsBatch(b) /\ received' = Stored(b)
    BY <1>2 DEF IInv, TypeOK, BatchIsOldest, LateStored
  <2>2. new.tick.id \in Ids(b) /\ new.tick.id \notin Arrived
    BY <1>2, <2>1, StoredEffect DEF Ids
  <2>3. new.tick.id \in Queued
    BY <1>2, <2>2 DEF IInv, LateIsAccounted
  <2>4. r.tick.id \in Arrived
    BY DEF Arrived
  <2> QED  BY <1>2, <2>2, <2>3, <2>4 DEF IInv, ArrivedIsOlder, Queued, Ids
<1>3. ASSUME IInv, [Next]_vars PROVE [InOrder]_vars
  <2>1. CASE PostAnswered \/ PostFails
    BY <1>1, <1>3, <2>1 DEF PostAnswered, PostFails
  <2>2. CASE \E b \in late : LateStored(b)
    BY <1>2, <1>3, <2>2
  <2>3. CASE UNCHANGED received
    BY <2>3
  <2> QED  BY <1>3, <2>1, <2>2, <2>3 DEF Next, vars, senderVars, AddMany, Flush, Stop,
       IntervalPasses, Peek, Leave, Confirm
<1> QED  BY <1>3, Inductive, PTL DEF Spec, ArrivesInOrder
=============================================================================
