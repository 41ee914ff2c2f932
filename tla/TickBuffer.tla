------------------------------ MODULE TickBuffer ------------------------------
(***************************************************************************)
(* The tick queue of the bridge and its sender thread                      *)
(* (services/mt5_bridge/bridge/tick_buffer.py).  The collector adds what a *)
(* poll returned, each tick with the account that produced it; the sender  *)
(* copies a batch from the front under the lock, posts it without the lock *)
(* (BackendClient._post_with_retries) and removes as many ticks from the   *)
(* front under the lock again.                                             *)
(*                                                                         *)
(* Every block under "with self._condition" is one action, and so is every *)
(* attempt of a post.  A request that timed out may still be stored, at    *)
(* any later time.  Ticks are numbered in the order they are collected.    *)
(* The collector starts the sender before it adds a tick and tags every    *)
(* tick, so the synchronous path and the fallback account are left out.    *)
(***************************************************************************)
EXTENDS Integers, Sequences, FiniteSets

CONSTANTS
    Accounts,   \* accounts the terminal may be logged in to
    BatchMax,   \* batch_max_size
    MaxBuffer,  \* max_buffer_size
    MaxPosts,   \* torum_http_max_retries
    MaxPoll,    \* bound: ticks one poll returns
    MaxTicks,   \* bound: ticks collected
    MaxLate,    \* bound: requests under way that nobody waits for any more
    QuickFill   \* BOOLEAN: may the buffer overflow while a batch is posted?

ASSUME SizesAssumption ==
    /\ {BatchMax, MaxBuffer, MaxPosts, MaxPoll} \subseteq Nat \ {0}
    /\ {MaxTicks, MaxLate} \subseteq Nat /\ QuickFill \in BOOLEAN

Tick == [id : 1..MaxTicks, account : Accounts]
Stage == {"idle", "posting", "answered"}

VARIABLES
    buffer,    \* _ticks
    sending,   \* the sender thread: [stage, batch, attempt]
    late,      \* batches of requests that timed out and are still under way
    up,        \* the sender thread runs
    due,       \* the flush interval has passed since the last post
    forced,    \* _force_flush
    stopping,  \* _stop
    dropped,   \* _totals.dropped
    count,     \* ticks collected so far
    overflow,  \* ticks removed because the buffer was over its maximum
    received   \* ticks in the API: [tick, account], the account of the post that
               \* brought the tick first

vars == <<buffer, sending, late, up, due, forced, stopping, dropped, count, overflow,
          received>>
senderVars == <<sending, late, up, due, received>>

Resting == [stage |-> "idle", batch |-> <<>>, attempt |-> 0]

Init ==
    /\ buffer = <<>>
    /\ sending = Resting /\ late = {}
    /\ up = TRUE
    /\ due = FALSE /\ forced = FALSE /\ stopping = FALSE
    /\ dropped = 0 /\ count = 0 /\ overflow = {}
    /\ received = {}

-----------------------------------------------------------------------------
Polled(n, a) == [i \in 1..n |-> [id |-> count + i, account |-> a]]

\* Mutant: the limit is one too high.
ExcessOneLate(all) == IF Len(all) > MaxBuffer + 1 THEN Len(all) - MaxBuffer - 1 ELSE 0

\* How many of the oldest have to go.
Excess(all) == IF Len(all) > MaxBuffer THEN Len(all) - MaxBuffer ELSE 0

(***************************************************************************)
(* add_many of the n ticks of a poll, all of one account: the oldest ticks *)
(* go when the buffer is over its maximum, whether they are being posted or*)
(* not.                                                                    *)
(***************************************************************************)
AddMany(n, a) ==
    LET all == buffer \o Polled(n, a)
        excess == Excess(all)
    IN  /\ ~ stopping
        /\ count + n <= MaxTicks
        /\ QuickFill \/ sending.stage = "idle" \/ excess = 0
        /\ buffer' = SubSeq(all, 1 + excess, Len(all))
        /\ overflow' = overflow \cup {all[i].id : i \in 1..excess}
        /\ dropped' = dropped + excess
        /\ count' = count + n
        /\ UNCHANGED <<senderVars, forced, stopping>>

\* flush(force=True), before an account switch and at the end of the collector.
Flush ==
    /\ ~ stopping /\ ~ forced
    /\ forced' = TRUE
    /\ UNCHANGED <<buffer, senderVars, stopping, dropped, count, overflow>>

\* stop(), after the collector has returned.
Stop ==
    /\ ~ stopping
    /\ stopping' = TRUE
    /\ forced' = TRUE
    /\ UNCHANGED <<buffer, senderVars, dropped, count, overflow>>

\* Time: flush_interval_seconds since _last_flush_monotonic.
IntervalPasses ==
    /\ ~ due
    /\ due' = TRUE
    /\ UNCHANGED <<buffer, sending, late, up, forced, stopping, dropped, count, overflow,
                   received>>

-----------------------------------------------------------------------------
\* Mutant: only a full batch is sent.
ShouldSendFull == buffer # <<>> /\ (forced \/ Len(buffer) >= BatchMax)

\* _should_send_locked.
ShouldSend == buffer # <<>> /\ (forced \/ Len(buffer) >= BatchMax \/ due)

\* Mutant: the batch ignores who produced its ticks.
IsBatchLengthAnyAccount(n) ==
    n <= BatchMax /\ (n < BatchMax => n = Len(buffer))

\* _peek_batch_locked: the longest batch from the front that has one account.
IsBatchLength(n) ==
    /\ n <= BatchMax
    /\ \A i \in 1..n : buffer[i].account = buffer[1].account
    /\ n < BatchMax /\ n < Len(buffer) => buffer[n + 1].account # buffer[1].account

\* The sender has something to send and copies a batch.
Peek ==
    /\ up /\ sending.stage = "idle"
    /\ ShouldSend \/ (stopping /\ buffer # <<>>)
    /\ \E n \in 1..Len(buffer) :
          /\ IsBatchLength(n)
          /\ sending' = [stage |-> "posting", batch |-> SubSeq(buffer, 1, n), attempt |-> 1]
    /\ UNCHANGED <<buffer, late, up, due, forced, stopping, dropped, count, overflow,
                   received>>

\* The sender has been told to stop and the buffer is empty.
Leave ==
    /\ up /\ sending.stage = "idle"
    /\ stopping /\ buffer = <<>>
    /\ up' = FALSE
    /\ UNCHANGED <<buffer, sending, late, due, forced, stopping, dropped, count, overflow,
                   received>>

Ids(ticks) == {ticks[i].id : i \in 1..Len(ticks)}
Queued == Ids(buffer)
Arrived == {r.tick.id : r \in received}

\* The API stores the ticks of a post that it has not stored before.
Stored(batch) ==
    received \cup {[tick |-> batch[i], account |-> batch[1].account] :
                      i \in {j \in 1..Len(batch) : batch[j].id \notin Arrived}}

\* An attempt is stored and its answer arrives.
PostAnswered ==
    /\ sending.stage = "posting"
    /\ received' = Stored(sending.batch)
    /\ sending' = [sending EXCEPT !.stage = "answered"]
    /\ UNCHANGED <<buffer, late, up, due, forced, stopping, dropped, count, overflow>>

\* Mutant: a batch that failed queues up again at the end.
PostFailsToTheBack ==
    /\ sending.stage = "posting"
    /\ IF sending.attempt < MaxPosts
         THEN sending' = [sending EXCEPT !.attempt = @ + 1] /\ UNCHANGED buffer
         ELSE /\ sending' = Resting
              /\ buffer' = SubSeq(buffer, 1 + Len(sending.batch), Len(buffer))
                             \o sending.batch
    /\ UNCHANGED <<late, up, due, forced, stopping, dropped, count, overflow, received>>

(***************************************************************************)
(* An attempt raises: it did not arrive, was refused, its answer is lost,  *)
(* or it takes longer than torum_http_timeout_seconds and goes on without  *)
(* the sender.  The payload is posted again; after the last attempt the    *)
(* sender keeps the ticks, marks the time and starts over.                 *)
(***************************************************************************)
PostFails ==
    /\ sending.stage = "posting"
    /\ \/ received' \in {received, Stored(sending.batch)} /\ UNCHANGED late
       \/ /\ Cardinality(late \cup {sending.batch}) <= MaxLate
          /\ late' = late \cup {sending.batch}
          /\ UNCHANGED received
    /\ IF sending.attempt < MaxPosts
         THEN sending' = [sending EXCEPT !.attempt = @ + 1] /\ UNCHANGED due
         ELSE sending' = Resting /\ due' = FALSE
    /\ UNCHANGED <<buffer, up, forced, stopping, dropped, count, overflow>>

\* A request that timed out is stored after all.  What another request of the same
\* batch stores then is nothing, so that late is a set.
LateStored(batch) ==
    /\ batch \in late
    /\ received' = Stored(batch)
    /\ late' = late \ {batch}
    /\ UNCHANGED <<buffer, sending, up, due, forced, stopping, dropped, count, overflow>>

\* Mutant: one tick too many is removed.
RestOneMore == SubSeq(buffer, 2 + Len(sending.batch), Len(buffer))

\* Mutant: the last tick of a batch stays.
RestOneLess == SubSeq(buffer, Len(sending.batch), Len(buffer))

\* As many ticks as the answered batch had are removed from the front.
Rest == SubSeq(buffer, 1 + Len(sending.batch), Len(buffer))

\* The sender has its answer and takes the lock again.
Confirm ==
    /\ sending.stage = "answered"
    /\ buffer' = Rest
    /\ sending' = Resting
    /\ due' = FALSE
    /\ forced' = (forced /\ Rest # <<>>)
    /\ UNCHANGED <<late, up, stopping, dropped, count, overflow, received>>

Next ==
    \/ \E n \in 1..MaxPoll, a \in Accounts : AddMany(n, a)
    \/ Flush
    \/ Stop
    \/ IntervalPasses
    \/ Peek
    \/ Leave
    \/ PostAnswered
    \/ PostFails
    \/ \E batch \in late : LateStored(batch)
    \/ Confirm

Spec == Init /\ [][Next]_vars

(***************************************************************************)
(* Fairness: the sender thread runs and time passes, and an API that is    *)
(* asked for ever answers once in a while.  The collector, a forced flush, *)
(* a stop and the end of a request that timed out need not happen.         *)
(***************************************************************************)
FairSpec ==
    /\ Spec
    /\ WF_vars(IntervalPasses) /\ WF_vars(Peek) /\ WF_vars(Leave)
    /\ WF_vars(Confirm) /\ WF_vars(PostFails) /\ SF_vars(PostAnswered)

-----------------------------------------------------------------------------
TypeOK ==
    /\ buffer \in Seq(Tick) /\ Len(buffer) <= MaxBuffer
    /\ sending \in [stage : Stage, batch : Seq(Tick), attempt : 0..MaxPosts]
    /\ late \subseteq Seq(Tick)
    /\ {up, due, forced, stopping} \subseteq BOOLEAN
    /\ dropped \in Nat /\ count \in 0..MaxTicks
    /\ overflow \subseteq 1..count
    /\ received \subseteq [tick : Tick, account : Accounts]

(***************************************************************************)
(* A tick is never stored under another account than the one that produced *)
(* it, however long it waited and whatever was switched meanwhile.         *)
(***************************************************************************)
TicksKeepTheirAccount == \A r \in received : r.account = r.tick.account

(***************************************************************************)
(* "The sender preserves order": over lost answers, repeated posts and     *)
(* requests that are stored long after they timed out, a tick first        *)
(* arrives after a newer one only when an overflow had dropped it from the *)
(* queue before, so that nobody was going to send it any more.             *)
(***************************************************************************)
ArrivesInOrder ==
    [][\A r \in received, new \in received' \ received :
          r.tick.id < new.tick.id \/ new.tick.id \in overflow]_vars

(***************************************************************************)
(* The drop counter never understates the loss: ticks neither queued nor   *)
(* stored are at most as many as it says.                                  *)
(***************************************************************************)
LossIsCounted == count - Cardinality(Queued \cup Arrived) <= dropped

(***************************************************************************)
(* A tick is lost only as one of the oldest of a buffer over its maximum.  *)
(***************************************************************************)
LostOnlyByOverflow == 1..count \subseteq Queued \cup Arrived \cup overflow

(***************************************************************************)
(* No tick waits for ever: one that is queued is sent or dropped, whether  *)
(* it is one of a full batch or alone.                                     *)
(***************************************************************************)
EveryTickLeaves == \A t \in 1..MaxTicks : (t \in Queued) ~> (t \notin Queued)

(***************************************************************************)
(* "Can drain during shutdown": after stop() the sender empties the buffer *)
(* and returns, so that the process, which waits for it, can end.          *)
(***************************************************************************)
SenderReturns == stopping ~> ~ up
=============================================================================
