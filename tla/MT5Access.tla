------------------------------ MODULE MT5Access ------------------------------
(***************************************************************************)
(* The coordinator that serialises every call of the bridge to the         *)
(* MetaTrader5 package (services/mt5_bridge/bridge/mt5_access.py): a       *)
(* re-entrant lock built on one condition variable, on which threads that  *)
(* want the terminal for an order overtake threads that poll it.           *)
(*                                                                         *)
(* Every block under "with self._condition" is one action.  A thread that  *)
(* has to wait is parked; the half-second timeout and notify_all both make *)
(* it test its loop condition again, which is why a parked thread needs    *)
(* nothing but that condition to go on.                                    *)
(***************************************************************************)
EXTENDS Naturals, FiniteSets

CONSTANTS Threads,    \* threads of the bridge: HTTP workers, syncer, tick loop
          NoThread,   \* "self._owner_thread_id is None"
          MaxNest     \* bound on how deep a thread nests acquire() blocks

ASSUME ThreadsAssumption == IsFiniteSet(Threads) /\ NoThread \notin Threads
ASSUME NestAssumption == MaxNest \in Nat \ {0}

Priorities == {"order", "sync", "market"}

VARIABLES owner,          \* _owner_thread_id
          depth,          \* _depth
          waitingOrders,  \* _waiting_orders
          parked,         \* priority a thread waits with, or "none"
          inside,         \* how many acquire() blocks a thread is inside
          priority        \* priority a thread entered its outermost block with

accessVars == <<owner, depth, waitingOrders, parked, inside, priority>>

AccessInit ==
    /\ owner = NoThread
    /\ depth = 0
    /\ waitingOrders = 0
    /\ parked = [t \in Threads |-> "none"]
    /\ inside = [t \in Threads |-> 0]
    /\ priority = [t \in Threads |-> "none"]

\* Mutant: polling does not give way to orders.
MayTakeAnyone(p) == owner = NoThread

(***************************************************************************)
(* The test of the waiting loop, negated.  An order that waits has already *)
(* counted itself in waitingOrders, so the count only holds up the others. *)
(***************************************************************************)
MayTake(p) == owner = NoThread /\ (p = "order" \/ waitingOrders = 0)

Take(t, p) ==
    /\ owner' = t
    /\ depth' = 1
    /\ inside' = [inside EXCEPT ![t] = 1]
    /\ priority' = [priority EXCEPT ![t] = p]

\* Mutant: a nested block does not deepen the lock.
ReenterShallow(t) ==
    /\ owner = t
    /\ inside[t] < MaxNest
    /\ inside' = [inside EXCEPT ![t] = @ + 1]
    /\ UNCHANGED <<owner, depth, waitingOrders, parked, priority>>

\* acquire() by the thread that already owns the lock, at whatever priority.
Reenter(t) ==
    /\ owner = t
    /\ inside[t] < MaxNest
    /\ depth' = depth + 1
    /\ inside' = [inside EXCEPT ![t] = @ + 1]
    /\ UNCHANGED <<owner, waitingOrders, parked, priority>>

\* acquire() that finds the loop condition false at once.
Acquire(t, p) ==
    /\ owner # t
    /\ parked[t] = "none"
    /\ MayTake(p)
    /\ Take(t, p)
    /\ UNCHANGED <<waitingOrders, parked>>

\* acquire() that has to wait: the condition is released in wait().
Park(t, p) ==
    /\ owner # t
    /\ parked[t] = "none"
    /\ ~ MayTake(p)
    /\ parked' = [parked EXCEPT ![t] = p]
    /\ waitingOrders' = waitingOrders + (IF p = "order" THEN 1 ELSE 0)
    /\ UNCHANGED <<owner, depth, inside, priority>>

\* Mutant: every thread that wakes is counted out.
WakeCountsAll(t) ==
    /\ parked[t] # "none"
    /\ MayTake(parked[t])
    /\ Take(t, parked[t])
    /\ parked' = [parked EXCEPT ![t] = "none"]
    /\ waitingOrders' = waitingOrders - 1

\* A parked thread wakes, finds the loop condition false and enters.
Wake(t) ==
    /\ parked[t] # "none"
    /\ MayTake(parked[t])
    /\ Take(t, parked[t])
    /\ parked' = [parked EXCEPT ![t] = "none"]
    /\ waitingOrders' = waitingOrders - (IF parked[t] = "order" THEN 1 ELSE 0)

\* Mutant: an inner block frees the lock.
ReleaseAtOnce(t) ==
    /\ inside[t] > 0
    /\ owner = t
    /\ depth' = depth - 1
    /\ owner' = NoThread
    /\ inside' = [inside EXCEPT ![t] = @ - 1]
    /\ priority' = [priority EXCEPT ![t] = IF depth = 1 THEN "none" ELSE @]
    /\ UNCHANGED <<waitingOrders, parked>>

\* The finally block of acquire(); the owner check of its first lines cannot
\* fail here, which DepthIsOwners below says.
Release(t) ==
    /\ inside[t] > 0
    /\ owner = t
    /\ depth' = depth - 1
    /\ owner' = IF depth = 1 THEN NoThread ELSE owner
    /\ inside' = [inside EXCEPT ![t] = @ - 1]
    /\ priority' = [priority EXCEPT ![t] = IF depth = 1 THEN "none" ELSE @]
    /\ UNCHANGED <<waitingOrders, parked>>

Step(t) ==
    \/ Reenter(t)
    \/ \E p \in Priorities : Acquire(t, p) \/ Park(t, p)
    \/ Wake(t)
    \/ Release(t)

AccessNext == \E t \in Threads : Step(t)

AccessSpec == AccessInit /\ [][AccessNext]_accessVars

(***************************************************************************)
(* Fairness: a block of acquire() ends and nests finitely many others, so  *)
(* that a thread that can leave its outermost block over and over leaves   *)
(* it; and a parked thread gets the processor.  Threads need not call      *)
(* acquire(), and nothing promises strong fairness to one of several       *)
(* parked threads that compete for the lock.                               *)
(***************************************************************************)
AccessFairSpec ==
    /\ AccessSpec
    /\ \A t \in Threads : /\ WF_accessVars(Wake(t))
                          /\ WF_accessVars(Release(t))
                          /\ SF_accessVars(Release(t) /\ depth = 1)

-----------------------------------------------------------------------------
AccessTypeOK ==
    /\ owner \in Threads \cup {NoThread}
    /\ depth \in Nat
    /\ waitingOrders \in Nat
    /\ parked \in [Threads -> Priorities \cup {"none"}]
    /\ inside \in [Threads -> Nat]
    /\ priority \in [Threads -> Priorities \cup {"none"}]

ParkedOrders == {t \in Threads : parked[t] = "order"}

(***************************************************************************)
(* Two threads are never inside acquire() together, whatever they nest: the*)
(* terminal is called by one thread at a time.                             *)
(***************************************************************************)
MutualExclusion ==
    \A t, u \in Threads : inside[t] > 0 /\ inside[u] > 0 => t = u

(***************************************************************************)
(* The recursion depth the lock keeps is the nesting of its owner's blocks *)
(* and nobody else is inside one: the lock is free exactly when the owner  *)
(* has left its outermost block.                                           *)
(***************************************************************************)
DepthIsOwners ==
    /\ \A t \in Threads : inside[t] = IF owner = t THEN depth ELSE 0
    /\ owner = NoThread <=> depth = 0

(***************************************************************************)
(* The count of waiting orders is the number of order threads parked, so   *)
(* that a leaked count can never block polling for good; and no thread     *)
(* waits for a lock it holds itself.                                       *)
(***************************************************************************)
NoLeakedWaiter ==
    /\ waitingOrders = Cardinality(ParkedOrders)
    /\ \A t \in Threads : parked[t] # "none" => inside[t] = 0

(***************************************************************************)
(* One thread is inside at a time, and no count of the coordinator is left *)
(* behind by a thread that nested, waited or went (mt5_access.py).         *)
(***************************************************************************)
OneAtATime == MutualExclusion /\ NoLeakedWaiter

(***************************************************************************)
(* While an order waits, the terminal goes from whoever has it to an order *)
(* and to nothing else, however many polling threads ask in between.       *)
(***************************************************************************)
OrdersGoFirst ==
    (ParkedOrders # {}) ~> (owner # NoThread /\ priority[owner] = "order")
=============================================================================
