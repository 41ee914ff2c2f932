-------------------------- MODULE TorumOrders_proofs --------------------------
(***************************************************************************)
(* What lost answers, stale payloads, late fills and crashes cannot do to  *)
(* an entry, for any number of attempts, setups, retries and crashes:      *)
(*                                                                         *)
(*   ExecutedStays     an executed order is never taken back;              *)
(*   ExecutedIsReal    what the database calls executed opened a position; *)
(*   FailedIsUnfilled  an order that is given up never filled;             *)
(*   ClosedIsClosed    a row is closed only after its position is;         *)
(*   SetupBuysOnce     no two attempts of one setup fill;                  *)
(*   PositionIsOneRow  one position is one open row.                       *)
(*                                                                         *)
(* None of them is inductive.  The handler decides in one step and commits *)
(* in another, so IInv says what a decision still guarantees when it is    *)
(* committed: evidence of a position is never revoked, and an order that   *)
(* is old enough to be counted absent belongs to no runner any more.  RInv *)
(* says what rows, deals and decisions are evidence of, FInv how often a   *)
(* filled order can have been counted absent, SInv which attempts protect  *)
(* a setup, OInv where a position has its row.                             *)
(*                                                                         *)
(* FailedIsUnfilled, ClosedIsClosed and SetupBuysOnce need that one        *)
(* payload is posted less often than an absence has to be confirmed        *)
(* (MaxPosts < AbsentSyncs, Confirmations): what was decided about a       *)
(* position from a snapshot that is too old for it is counted once per     *)
(* post, and the next snapshot has the position.                           *)
(***************************************************************************)
EXTENDS TorumOrders, FiniteSetTheorems, WellFoundedInduction, TLAPS

Decisions == [row : {"none", "refresh", "link", "insert", "insertClosed",
                     "close", "missing"},
              mark : BOOLEAN, absent : BOOLEAN]

\* The types the proof needs; sums of volumes play no part in it.
DbShape ==
    /\ signal \in [Ids -> SignalStatus]
    /\ order \in [Ids -> [status : OrderStatus, ticket : BOOLEAN, absent : Nat]]
BrokerShape ==
    /\ broker \in [Ids -> {"absent", "open", "closed"}]
    /\ late \in [Ids -> BOOLEAN]
    /\ call \in [Ids -> CallState]
    /\ age \in [Ids -> 0 .. 2]
RunnerShape ==
    /\ DOMAIN runner = {"pc", "id", "used", "pending", "result"}
    /\ runner.pc \in Steps /\ runner.id \in Ids \cup {0}
SyncerShape ==
    /\ DOMAIN syncer = {"pc", "tickets", "deals", "complete", "posts", "counted", "decision"}
    /\ syncer.tickets \subseteq Ids /\ syncer.deals \subseteq Deals
    /\ syncer.decision \in [Ids -> Decisions]
Shape == DbShape /\ BrokerShape /\ RunnerShape /\ SyncerShape

BeforeOrder == {"generated", "plan", "planOrders", "planSignals", "approved", "sent"}

\* Who owns an order: until the runner returns from the order manager nobody
\* else changes its status, and before the order exists there is none to change.
OrderFollowsRunner ==
    /\ \A i \in Ids : signal[i] = "none" => order[i].status = "none"
    /\ runner.pc # "idle" => runner.id \in Ids /\ signal[runner.id] # "none"
    /\ runner.pc \in BeforeOrder => order[runner.id].status = "none"
    /\ runner.pc \in {"created", "await"} => order[runner.id].status = "CREATED"
    /\ runner.pc = "settle" /\ runner.result = "EXECUTED"
          => order[runner.id].status = "EXECUTED"

NotSent(i) == order[i].status = "none" \/ At("created", i)

\* Nothing happens at the broker before the bridge is called.
NothingUnsent ==
    \A i \in Ids : NotSent(i) => broker[i] = "absent" /\ call[i] = "none" /\ ~ late[i]

\* Replies, snapshots, deals and decisions to mark an order executed are
\* evidence of a position that was opened.
EvidenceIsReal ==
    /\ \A i \in Ids : call[i] \in {"filled", "filledNoTicket", "filledOlder"} => Filled(i)
    /\ \A i \in syncer.tickets : Filled(i)
    /\ \A d \in syncer.deals : Filled(d[1])
    /\ \A i \in Ids : syncer.decision[i].mark => Filled(i)

\* An order past its grace period is in no runner's hands.
OldIsDone ==
    \A i \in Ids : age[i] >= 1 => runner.id # i /\ signal[i] # "none"

\* When a decision to count an order absent is committed, it still applies.
AbsentIsUnresolved ==
    \A i \in Ids : syncer.pc = "commit" /\ syncer.decision[i].absent
                      => age[i] >= 1 /\ order[i].status \in {"SENT", "RECONCILING"}

IInv == /\ Shape /\ OrderFollowsRunner /\ NothingUnsent /\ EvidenceIsReal
        /\ OldIsDone /\ AbsentIsUnresolved /\ ExecutedMeansFilled

LEMMA SetSignalType ==
    ASSUME DbShape, NEW i \in Ids, NEW status \in SignalStatus, SetSignal(i, status)
    PROVE  /\ signal' \in [Ids -> SignalStatus]
           /\ signal'[i] = status
           /\ \A j \in Ids : j # i => signal'[j] = signal[j]
  BY DEF DbShape, SetSignal

LEMMA SetStatusEffect ==
    ASSUME DbShape, NEW i \in Ids, NEW status \in OrderStatus,
           order' = [order EXCEPT ![i].status = status]
    PROVE  /\ order' \in [Ids -> [status : OrderStatus, ticket : BOOLEAN, absent : Nat]]
           /\ order'[i].status = status
           /\ \A j \in Ids : j # i => order'[j] = order[j]
  BY DEF DbShape

LEMMA ReturnEffect ==
    ASSUME DbShape, RunnerShape, NEW i \in Ids, NEW status \in OrderStatus, Return(i, status)
    PROVE  /\ order' \in [Ids -> [status : OrderStatus, ticket : BOOLEAN, absent : Nat]]
           /\ order'[i].status = status
           /\ \A j \in Ids : j # i => order'[j] = order[j]
           /\ RunnerShape'
           /\ runner'.pc = "settle" /\ runner'.id = runner.id /\ runner'.result = status
<1> DEFINE ticket == order[i].ticket \/ (status = "EXECUTED" /\ call[i] \in {"filled", "filledOlder"})
<1>0. ticket \in BOOLEAN
  OBVIOUS
<1>1. order' = [order EXCEPT ![i].status = status, ![i].ticket = ticket]
  BY DEF Return
<1> HIDE DEF ticket
<1>2. order' \in [Ids -> [status : OrderStatus, ticket : BOOLEAN, absent : Nat]]
  BY <1>0, <1>1 DEF DbShape
<1>3. order'[i].status = status /\ \A j \in Ids : j # i => order'[j] = order[j]
  BY <1>1 DEF DbShape
<1>4. RunnerShape' /\ runner'.pc = "settle" /\ runner'.id = runner.id /\ runner'.result = status
  BY DEF Return, RunnerShape, Steps
<1>. QED BY <1>2, <1>3, <1>4

LEMMA RejectEffect ==
    ASSUME DbShape, NEW i \in Ids, Reject(i)
    PROVE  /\ signal' \in [Ids -> SignalStatus]
           /\ signal'[i] = "REJECTED_BY_RISK"
           /\ \A j \in Ids : j # i => signal'[j] = signal[j]
           /\ runner' = IdleRunner /\ RunnerShape'
  BY SetSignalType DEF Reject, SignalStatus, RunnerShape, IdleRunner, Steps

LEMMA GotoEffect ==
    ASSUME RunnerShape, NEW step \in Steps, Goto(step)
    PROVE  RunnerShape' /\ runner'.pc = step /\ runner'.id = runner.id
  BY DEF RunnerShape, Goto

-----------------------------------------------------------------------------
\* A signal rejected before its order exists.
LEMMA RejectKeeps ==
    ASSUME NEW i \in Ids, IInv, runner.pc \in BeforeOrder, runner.id = i, Reject(i),
           UNCHANGED <<order, brokerVars, age, syncVars>>
    PROVE  IInv'
<1>1. /\ signal' \in [Ids -> SignalStatus]
      /\ signal'[i] = "REJECTED_BY_RISK"
      /\ \A j \in Ids : j # i => signal'[j] = signal[j]
      /\ RunnerShape'
      /\ runner'.pc = "idle" /\ runner'.id = 0
  BY RejectEffect DEF IInv, Shape, IdleRunner
<1>2. Shape'
  BY <1>1 DEF IInv, Shape, DbShape, BrokerShape, SyncerShape, brokerVars, syncVars
<1>3. OrderFollowsRunner' /\ OldIsDone' /\ AbsentIsUnresolved'
  BY <1>1 DEF IInv, BeforeOrder, Ids, OrderFollowsRunner, OldIsDone, AbsentIsUnresolved,
     syncVars
<1>4. NothingUnsent' /\ EvidenceIsReal' /\ ExecutedMeansFilled'
  BY <1>1 DEF IInv, NothingUnsent, EvidenceIsReal, ExecutedMeansFilled, At, NotSent,
     Filled, brokerVars, syncVars
<1>. QED BY <1>2, <1>3, <1>4 DEF IInv

LEMMA CheckSetupKeeps ==
    ASSUME NEW i \in Ids, IInv, CheckSetup(i)
    PROVE  IInv'
<1>1. \/ Reject(i)
      \/ Goto("plan") /\ UNCHANGED signal
  BY DEF CheckSetup
<1>2. /\ At("generated", i)
      /\ UNCHANGED <<order, brokerVars, age, syncVars>>
  BY DEF CheckSetup
<1>3. CASE Reject(i)
  BY <1>2, <1>3, RejectKeeps DEF At, BeforeOrder
<1>4. CASE Goto("plan") /\ UNCHANGED signal
  BY <1>2, <1>4, GotoEffect DEF IInv, Shape, BeforeOrder, Steps, DbShape, BrokerShape,
     SyncerShape, OrderFollowsRunner, NothingUnsent, EvidenceIsReal, OldIsDone,
     AbsentIsUnresolved, ExecutedMeansFilled, At, NotSent, Filled, brokerVars, syncVars
<1>. QED BY <1>1, <1>3, <1>4

LEMMA PlanReservedSignalsKeeps ==
    ASSUME NEW i \in Ids, IInv, PlanReservedSignals(i)
    PROVE  IInv'
<1>1. \/ Reject(i)
      \/ /\ SetSignal(i, "RISK_APPROVED")
         /\ runner' = [IdleRunner EXCEPT !.pc = "approved", !.id = i]
  BY DEF PlanReservedSignals
<1>2. /\ At("planSignals", i)
      /\ UNCHANGED <<order, brokerVars, age, syncVars>>
  BY DEF PlanReservedSignals
<1>3. CASE Reject(i)
  BY <1>2, <1>3, RejectKeeps DEF At, BeforeOrder
<1>4. CASE /\ SetSignal(i, "RISK_APPROVED")
           /\ runner' = [IdleRunner EXCEPT !.pc = "approved", !.id = i]
  <2>1. RunnerShape' /\ runner'.pc = "approved" /\ runner'.id = i
    BY <1>4 DEF RunnerShape, IdleRunner, Steps
  <2>. QED BY <1>2, <1>4, <2>1, SetSignalType DEF IInv, Shape, BeforeOrder, SignalStatus,
              DbShape, BrokerShape, SyncerShape, OrderFollowsRunner, NothingUnsent,
              EvidenceIsReal, OldIsDone, AbsentIsUnresolved, ExecutedMeansFilled, At,
              NotSent, Filled, brokerVars, syncVars
<1>. QED BY <1>1, <1>3, <1>4

LEMMA EvaluateRiskKeeps ==
    ASSUME NEW i \in Ids, IInv, EvaluateRisk(i)
    PROVE  IInv'
<1>1. \/ Reject(i)
      \/ SetSignal(i, "SENT_TO_ORDER_MANAGER") /\ Goto("sent")
  BY DEF EvaluateRisk
<1>2. /\ At("approved", i)
      /\ UNCHANGED <<order, brokerVars, age, syncVars>>
  BY DEF EvaluateRisk
<1>3. CASE Reject(i)
  BY <1>2, <1>3, RejectKeeps DEF At, BeforeOrder
<1>4. CASE SetSignal(i, "SENT_TO_ORDER_MANAGER") /\ Goto("sent")
  BY <1>2, <1>4, SetSignalType, GotoEffect DEF IInv, Shape, BeforeOrder, Steps,
     SignalStatus, DbShape, BrokerShape, SyncerShape, OrderFollowsRunner, NothingUnsent,
     EvidenceIsReal, OldIsDone, AbsentIsUnresolved, ExecutedMeansFilled, At, NotSent,
     Filled, brokerVars, syncVars
<1>. QED BY <1>1, <1>3, <1>4

LEMMA CreateOrderKeeps ==
    ASSUME NEW i \in Ids, IInv, CreateOrder(i)
    PROVE  IInv'
<1>1. /\ order' \in [Ids -> [status : OrderStatus, ticket : BOOLEAN, absent : Nat]]
      /\ order'[i].status = "CREATED"
      /\ \A j \in Ids : j # i => order'[j] = order[j]
  BY SetStatusEffect DEF CreateOrder, IInv, Shape, OrderStatus
<1>2. RunnerShape' /\ runner'.pc = "created" /\ runner'.id = i
  BY GotoEffect DEF CreateOrder, At, IInv, Shape, Steps
<1>3. /\ At("sent", i)
      /\ UNCHANGED <<signal, brokerVars, age, syncVars>>
  BY DEF CreateOrder
<1>4. Shape'
  BY <1>1, <1>2, <1>3 DEF IInv, Shape, DbShape, BrokerShape, SyncerShape, brokerVars,
     syncVars
<1>5. OrderFollowsRunner' /\ OldIsDone' /\ AbsentIsUnresolved'
  BY <1>1, <1>2, <1>3 DEF IInv, BeforeOrder, OrderFollowsRunner, OldIsDone,
     AbsentIsUnresolved, At, syncVars
<1>6. NothingUnsent' /\ EvidenceIsReal' /\ ExecutedMeansFilled'
  BY <1>1, <1>2, <1>3 DEF IInv, BeforeOrder, OrderFollowsRunner, NothingUnsent,
     EvidenceIsReal, ExecutedMeansFilled, At, NotSent, Filled, brokerVars, syncVars
<1>. QED BY <1>4, <1>5, <1>6 DEF IInv

LEMMA ValidateKeeps ==
    ASSUME NEW i \in Ids, IInv, Validate(i)
    PROVE  IInv'
<1>1. \/ Return(i, "REJECTED") /\ UNCHANGED call
      \/ /\ call' = [call EXCEPT ![i] = "queued"]
         /\ Goto("await")
         /\ UNCHANGED order
  BY DEF Validate
<1>2. /\ At("created", i)
      /\ UNCHANGED <<signal, broker, late, age, syncVars>>
  BY DEF Validate
<1>3. CASE Return(i, "REJECTED") /\ UNCHANGED call
  BY <1>2, <1>3, ReturnEffect DEF IInv, Shape, BeforeOrder, OrderStatus, DbShape,
     BrokerShape, SyncerShape, OrderFollowsRunner, NothingUnsent, EvidenceIsReal,
     OldIsDone, AbsentIsUnresolved, ExecutedMeansFilled, At, NotSent, Filled, syncVars
<1>4. CASE /\ call' = [call EXCEPT ![i] = "queued"]
           /\ Goto("await")
           /\ UNCHANGED order
  <2>1. RunnerShape' /\ runner'.pc = "await" /\ runner'.id = i
    BY <1>2, <1>4, GotoEffect DEF At, IInv, Shape, Steps
  <2>2. /\ call' \in [Ids -> CallState]
        /\ call'[i] = "queued"
        /\ \A j \in Ids : j # i => call'[j] = call[j]
    BY <1>4 DEF IInv, Shape, BrokerShape, CallState
  <2>. QED BY <1>2, <1>4, <2>1, <2>2 DEF IInv, Shape, BeforeOrder, DbShape, BrokerShape,
              SyncerShape, OrderFollowsRunner, NothingUnsent, EvidenceIsReal, OldIsDone,
              AbsentIsUnresolved, ExecutedMeansFilled, At, NotSent, Filled, syncVars
<1>. QED BY <1>1, <1>3, <1>4

\* The three ways out of the order call, with what is known of the position.
LEMMA ReturnKeeps ==
    ASSUME NEW i \in Ids, NEW status \in {"EXECUTED", "FAILED", "RECONCILING"},
           IInv, At("await", i), Return(i, status),
           status = "EXECUTED" => Filled(i),
           NEW result \in {"none", "queued"},
           call' = [call EXCEPT ![i] = result],
           UNCHANGED <<signal, broker, late, age, syncVars>>
    PROVE  IInv'
<1>1. /\ order' \in [Ids -> [status : OrderStatus, ticket : BOOLEAN, absent : Nat]]
      /\ order'[i].status = status
      /\ \A j \in Ids : j # i => order'[j] = order[j]
      /\ RunnerShape'
      /\ runner'.pc = "settle" /\ runner'.id = runner.id /\ runner'.result = status
  BY ReturnEffect DEF IInv, Shape, OrderStatus
<1>2. /\ call' \in [Ids -> CallState]
      /\ call'[i] \in {"none", "queued"}
      /\ \A j \in Ids : j # i => call'[j] = call[j]
  BY DEF IInv, Shape, BrokerShape, CallState
<1>3. Shape'
  BY <1>1, <1>2 DEF IInv, Shape, DbShape, BrokerShape, SyncerShape, syncVars
<1>4. OrderFollowsRunner' /\ OldIsDone' /\ AbsentIsUnresolved'
  BY <1>1 DEF IInv, BeforeOrder, OrderFollowsRunner, OldIsDone, AbsentIsUnresolved, At,
     syncVars
<1>5. NothingUnsent' /\ EvidenceIsReal' /\ ExecutedMeansFilled'
  BY <1>1, <1>2 DEF IInv, OrderFollowsRunner, NothingUnsent, EvidenceIsReal,
     ExecutedMeansFilled, At, NotSent, Filled, syncVars
<1>. QED BY <1>3, <1>4, <1>5 DEF IInv

LEMMA ReceiveReplyKeeps ==
    ASSUME NEW i \in Ids, IInv, ReceiveReply(i)
    PROVE  IInv'
<1>1. /\ At("await", i)
      /\ call' = [call EXCEPT ![i] = "none"]
      /\ UNCHANGED <<signal, broker, late, age, syncVars>>
  BY DEF ReceiveReply
<1>2. PICK status \in {"EXECUTED", "FAILED", "RECONCILING"} :
         Return(i, status) /\ (status = "EXECUTED" => call[i] \in {"filled", "filledNoTicket", "filledOlder"})
  BY DEF ReceiveReply
<1>3. status = "EXECUTED" => Filled(i)
  BY <1>2 DEF IInv, EvidenceIsReal
<1>. QED BY <1>1, <1>2, <1>3, ReturnKeeps

LEMMA LoseReplyKeeps ==
    ASSUME NEW i \in Ids, IInv, LoseReply(i)
    PROVE  IInv'
<1>1. /\ At("await", i)
      /\ Return(i, "RECONCILING")
      /\ UNCHANGED <<signal, broker, late, age, syncVars>>
  BY DEF LoseReply
<1>2. PICK result \in {"none", "queued"} : call' = [call EXCEPT ![i] = result]
  BY DEF LoseReply
<1>. QED BY <1>1, <1>2, ReturnKeeps

LEMMA SyncerPcEffect ==
    ASSUME SyncerShape, NEW step, syncer' = [syncer EXCEPT !.pc = step]
    PROVE  /\ SyncerShape' /\ syncer'.pc = step
           /\ syncer'.tickets = syncer.tickets /\ syncer'.deals = syncer.deals
           /\ syncer'.decision = syncer.decision
  BY DEF SyncerShape

LEMMA NoCallEffect ==
    ASSUME BrokerShape, NEW i \in Ids, call' = [call EXCEPT ![i] = "none"]
    PROVE  /\ call' \in [Ids -> CallState]
           /\ call'[i] = "none"
           /\ \A j \in Ids : j # i => call'[j] = call[j]
  BY DEF BrokerShape, CallState

LEMMA IdleEffect ==
    ASSUME runner' = IdleRunner
    PROVE  RunnerShape' /\ runner'.pc = "idle" /\ runner'.id = 0
  BY DEF RunnerShape, IdleRunner, Steps

LEMMA AbortKeeps ==
    ASSUME NEW i \in Ids, IInv, Abort(i)
    PROVE  IInv'
<1>1. \/ runner' = IdleRunner /\ call' = [call EXCEPT ![i] = "none"] /\ UNCHANGED syncer
      \/ syncer' = [syncer EXCEPT !.pc = "failed"] /\ UNCHANGED <<runner, call>>
  BY DEF Abort
<1>2. At("await", i) /\ UNCHANGED <<signal, order, broker, late, age>>
  BY DEF Abort, apiVars
<1>3. CASE runner' = IdleRunner /\ call' = [call EXCEPT ![i] = "none"] /\ UNCHANGED syncer
  <2>1. Shape'
    BY <1>2, <1>3, NoCallEffect, IdleEffect DEF IInv, Shape, DbShape, BrokerShape,
       RunnerShape, SyncerShape, apiVars, brokerVars, syncVars
  <2>2. OrderFollowsRunner' /\ OldIsDone' /\ AbsentIsUnresolved'
    BY <1>2, <1>3, NoCallEffect, IdleEffect DEF IInv, BeforeOrder, Ids, OrderFollowsRunner,
       OldIsDone, AbsentIsUnresolved
  <2>3. NothingUnsent' /\ EvidenceIsReal' /\ ExecutedMeansFilled'
    BY <1>2, <1>3, NoCallEffect, IdleEffect DEF IInv, NothingUnsent, EvidenceIsReal,
       ExecutedMeansFilled, At, NotSent, Filled
  <2>. QED BY <2>1, <2>2, <2>3 DEF IInv
<1>4. CASE syncer' = [syncer EXCEPT !.pc = "failed"] /\ UNCHANGED <<runner, call>>
  BY <1>2, <1>4, SyncerPcEffect DEF IInv, Shape, DbShape, BrokerShape, RunnerShape,
     SyncerShape, OrderFollowsRunner, NothingUnsent, EvidenceIsReal, OldIsDone,
     AbsentIsUnresolved, ExecutedMeansFilled, At, NotSent, Filled
<1>. QED BY <1>1, <1>3, <1>4

LEMMA InterruptedKeeps ==
    ASSUME NEW i \in Ids, IInv, Interrupted(i)
    PROVE  IInv'
<1>1. /\ runner.id = i /\ runner' = IdleRunner
      /\ call' = [call EXCEPT ![i] = "none"]
      /\ UNCHANGED <<broker, late, age, syncVars>>
  BY DEF Interrupted
<1>2. PICK new \in {"ORDER_FAILED", "ORDER_RECONCILING"} : SetSignal(i, new)
  BY DEF Interrupted
<1>3. /\ signal' \in [Ids -> SignalStatus]
      /\ signal'[i] = new
      /\ \A j \in Ids : j # i => signal'[j] = signal[j]
  BY <1>2, SetSignalType DEF IInv, Shape, SignalStatus
<1>4. \/ runner.pc \in {"approved", "sent", "settle"} /\ UNCHANGED order
      \/ \E status \in {"VALIDATING", "SENT"} : /\ runner.pc \in {"created", "await"}
                                                /\ order' = [order EXCEPT ![i].status = status]
  BY DEF Interrupted, At
<1>5. CASE runner.pc \in {"approved", "sent", "settle"} /\ UNCHANGED order
  <2>1. Shape'
    BY <1>1, <1>3, <1>5, NoCallEffect, IdleEffect DEF IInv, Shape, DbShape, BrokerShape,
       RunnerShape, SyncerShape, apiVars, brokerVars, syncVars
  <2>2. OrderFollowsRunner' /\ OldIsDone' /\ AbsentIsUnresolved'
    BY <1>1, <1>3, <1>5, NoCallEffect, IdleEffect DEF IInv, BeforeOrder, Ids,
       OrderFollowsRunner, OldIsDone, AbsentIsUnresolved, syncVars
  <2>3. NothingUnsent' /\ EvidenceIsReal' /\ ExecutedMeansFilled'
    BY <1>1, <1>3, <1>5, NoCallEffect, IdleEffect DEF IInv, NothingUnsent, EvidenceIsReal,
       ExecutedMeansFilled, At, NotSent, Filled, syncVars
  <2>. QED BY <2>1, <2>2, <2>3 DEF IInv
<1>6. ASSUME NEW status \in {"VALIDATING", "SENT"}, runner.pc \in {"created", "await"},
             order' = [order EXCEPT ![i].status = status]
      PROVE  IInv'
  <2>1. /\ order' \in [Ids -> [status : OrderStatus, ticket : BOOLEAN, absent : Nat]]
        /\ order'[i].status = status
        /\ \A j \in Ids : j # i => order'[j] = order[j]
    BY <1>6, SetStatusEffect DEF IInv, Shape, OrderStatus
  <2>2. order[i].status = "CREATED"
    BY <1>1, <1>6 DEF IInv, OrderFollowsRunner
  <2>3. Shape'
    BY <1>1, <1>3, <1>6, <2>1, <2>2, NoCallEffect, IdleEffect DEF IInv, Shape, DbShape,
       BrokerShape, RunnerShape, SyncerShape, apiVars, brokerVars, syncVars
  <2>4. OrderFollowsRunner' /\ OldIsDone' /\ AbsentIsUnresolved'
    BY <1>1, <1>3, <1>6, <2>1, <2>2, NoCallEffect, IdleEffect DEF IInv, BeforeOrder, Ids,
       OrderFollowsRunner, OldIsDone, AbsentIsUnresolved, syncVars
  <2>5. NothingUnsent' /\ EvidenceIsReal' /\ ExecutedMeansFilled'
    BY <1>1, <1>3, <1>6, <2>1, <2>2, NoCallEffect, IdleEffect DEF IInv, NothingUnsent,
       EvidenceIsReal, ExecutedMeansFilled, At, NotSent, Filled, syncVars
  <2>. QED BY <2>3, <2>4, <2>5 DEF IInv
<1>. QED BY <1>4, <1>5, <1>6

LEMMA ExecuteCallKeeps ==
    ASSUME NEW i \in Ids, IInv, ExecuteCall(i)
    PROVE  IInv'
<1>1. /\ call[i] = "queued"
      /\ UNCHANGED <<signal, order, age, runner, syncVars>>
  BY DEF ExecuteCall, apiVars
<1>2. PICK r \in {"filled", "filledNoTicket", "filledOlder", "rejected", "ambiguous", "none"} :
         /\ call' = [call EXCEPT ![i] = r]
         /\ \/ broker' = [broker EXCEPT ![i] = "open"] /\ UNCHANGED late
            \/ /\ r \notin {"filled", "filledNoTicket", "filledOlder"}
               /\ late' \in {late, [late EXCEPT ![i] = TRUE]}
               /\ UNCHANGED broker
  BY DEF ExecuteCall, Reply
<1>3. /\ call' \in [Ids -> CallState]
      /\ call'[i] = r
      /\ \A j \in Ids : j # i => call'[j] = call[j]
  BY <1>2 DEF IInv, Shape, BrokerShape, CallState
<1>4. /\ broker' \in [Ids -> {"absent", "open", "closed"}]
      /\ \A j \in Ids : j # i => broker'[j] = broker[j]
      /\ broker[i] # "absent" => broker'[i] # "absent"
      /\ r \in {"filled", "filledNoTicket", "filledOlder"} => broker'[i] # "absent"
  BY <1>2 DEF IInv, Shape, BrokerShape
<1>5. late' \in [Ids -> BOOLEAN] /\ \A j \in Ids : j # i => late'[j] = late[j]
  BY <1>2 DEF IInv, Shape, BrokerShape
<1>6. ~ NotSent(i)
  BY <1>1 DEF IInv, NothingUnsent
<1>7. Shape'
  BY <1>1, <1>3, <1>4, <1>5, <1>6 DEF IInv, Shape, DbShape, BrokerShape, RunnerShape,
     SyncerShape, syncVars
<1>8. OrderFollowsRunner' /\ OldIsDone' /\ AbsentIsUnresolved'
  BY <1>1, <1>3, <1>4, <1>5, <1>6 DEF IInv, OrderFollowsRunner, OldIsDone,
     AbsentIsUnresolved, syncVars
<1>9. \A j \in Ids : Filled(j) => Filled(j)'
  BY <1>4 DEF Filled
<1>10. ExecutedMeansFilled'
  BY <1>1, <1>9 DEF IInv, ExecutedMeansFilled
<1>11. EvidenceIsReal'
  BY <1>1, <1>3, <1>4, <1>9 DEF IInv, Shape, SyncerShape, EvidenceIsReal, Filled, Deals,
     syncVars
<1>12. NothingUnsent'
  BY <1>1, <1>3, <1>4, <1>5, <1>6 DEF IInv, NothingUnsent, NotSent, At
<1>. QED BY <1>7, <1>8, <1>10, <1>11, <1>12 DEF IInv

LEMMA LoadDealsKeeps ==
    ASSUME IInv, LoadDeals
    PROVE  IInv'
<1>1. UNCHANGED <<signal, order, broker, late, call, age, runner>>
  BY DEF LoadDeals, apiVars, brokerVars
<1>2. PICK read \in SUBSET DealsAtBroker :
         \/ syncer' = [syncer EXCEPT !.pc = "post", !.complete = TRUE, !.deals = read]
         \/ syncer' = [syncer EXCEPT !.pc = "post", !.deals = read]
  BY DEF LoadDeals
<1>3. /\ SyncerShape' /\ syncer'.pc = "post"
      /\ syncer'.tickets = syncer.tickets /\ syncer'.deals = read
      /\ syncer'.decision = syncer.decision
  BY <1>2 DEF IInv, Shape, SyncerShape, DealsAtBroker
<1>4. \A d \in read : Filled(d[1])
  BY <1>2 DEF DealsAtBroker, Filled
<1>. QED BY <1>1, <1>3, <1>4 DEF IInv, Shape, DbShape, BrokerShape, RunnerShape,
            OrderFollowsRunner, NothingUnsent, EvidenceIsReal, OldIsDone,
            AbsentIsUnresolved, ExecutedMeansFilled, At, NotSent, Filled

LEMMA NewOrderEffect ==
    ASSUME Shape, NEW i \in Ids
    PROVE  LET d == syncer.decision[i]
           IN  /\ NewOrder(i) \in [status : OrderStatus, ticket : BOOLEAN, absent : Nat]
               /\ d.mark => NewOrder(i).status = "EXECUTED"
               /\ ~ d.mark /\ ~ d.absent => NewOrder(i) = order[i]
               /\ ~ d.mark => NewOrder(i).status \in {order[i].status, "FAILED"}
<1>1. order[i] \in [status : OrderStatus, ticket : BOOLEAN, absent : Nat]
  BY DEF Shape, DbShape
<1>2. AbsentSyncs \in Nat
  BY BoundsAssumption
<1>3. CASE syncer.decision[i].mark
  <2>1. NewOrder(i) = [order[i] EXCEPT !.status = "EXECUTED", !.ticket = TRUE]
    BY <1>3 DEF NewOrder
  <2>. QED BY <1>1, <1>3, <2>1 DEF OrderStatus
<1>4. CASE ~ syncer.decision[i].mark /\ GivesUp(i)
  <2>1. NewOrder(i) = [order[i] EXCEPT !.status = "FAILED", !.absent = AbsentSyncs]
    BY <1>4 DEF NewOrder
  <2>. QED BY <1>1, <1>2, <1>4, <2>1 DEF GivesUp, OrderStatus
<1>5. CASE ~ syncer.decision[i].mark /\ ~ GivesUp(i) /\ syncer.decision[i].absent
  <2>1. NewOrder(i) = [order[i] EXCEPT !.absent = @ + 1]
    BY <1>5 DEF NewOrder
  <2>. QED BY <1>1, <1>5, <2>1
<1>6. CASE ~ syncer.decision[i].mark /\ ~ syncer.decision[i].absent
  <2>1. NewOrder(i) = order[i]
    BY <1>6 DEF NewOrder, GivesUp
  <2>. QED BY <1>1, <1>6, <2>1
<1>. QED BY <1>3, <1>4, <1>5, <1>6

LEMMA NewSignalEffect ==
    ASSUME Shape, NEW i \in Ids
    PROVE  LET d == syncer.decision[i]
           IN  /\ NewSignal(i) \in SignalStatus
               /\ d.mark => NewSignal(i) = "ORDER_EXECUTED"
               /\ ~ d.mark /\ ~ d.absent => NewSignal(i) = signal[i]
               /\ ~ d.mark => NewSignal(i) \in {signal[i], "ORDER_FAILED"}
  BY DEF Shape, DbShape, NewSignal, GivesUp, SignalStatus

LEMMA HandlerCommitKeeps ==
    ASSUME IInv, HandlerCommit
    PROVE  IInv'
<1>. DEFINE d(j) == syncer.decision[j]
<1>1. /\ syncer.pc = "commit" /\ OrderRowsFree
      /\ UNCHANGED <<brokerVars, age, runner>>
  BY DEF HandlerCommit
<1>2. CASE syncer' = [syncer EXCEPT !.pc = "failed"] /\ UNCHANGED <<signal, order>>
  BY <1>1, <1>2, SyncerPcEffect DEF IInv, Shape, DbShape, BrokerShape, RunnerShape,
     SyncerShape, OrderFollowsRunner, NothingUnsent, EvidenceIsReal, OldIsDone,
     AbsentIsUnresolved, ExecutedMeansFilled, At, NotSent, Filled, brokerVars
<1>3. CASE /\ order' = [i \in Ids |-> NewOrder(i)]
           /\ signal' = [i \in Ids |-> NewSignal(i)]
           /\ syncer' = [syncer EXCEPT !.pc = "answered", !.counted = TRUE]
  <2>1. \A j \in Ids : d(j).absent => age[j] >= 1 /\ order[j].status \in {"SENT", "RECONCILING"}
    BY <1>1 DEF IInv, AbsentIsUnresolved
  <2>2. \A j \in Ids : NotSent(j) => ~ d(j).mark /\ ~ d(j).absent
    BY <2>1 DEF IInv, NothingUnsent, EvidenceIsReal, Filled, NotSent, OrderFollowsRunner,
       At
  <2>3. \A j \in Ids : runner.id = j => ~ d(j).absent
    BY <2>1 DEF IInv, OldIsDone
  <2>4. runner.pc = "await" => ~ d(runner.id).mark
    BY <1>1 DEF OrderRowsFree
  <2>5. /\ SyncerShape' /\ syncer'.pc = "answered"
        /\ syncer'.tickets = syncer.tickets /\ syncer'.deals = syncer.deals
        /\ syncer'.decision = syncer.decision
    BY <1>3 DEF IInv, Shape, SyncerShape
  <2>6. Shape'
    BY <1>1, <1>3, <2>5, NewOrderEffect, NewSignalEffect DEF IInv, Shape, DbShape,
       BrokerShape, RunnerShape, brokerVars
  <2>7. \A j \in Ids : ~ d(j).mark /\ ~ d(j).absent => order'[j] = order[j] /\ signal'[j] = signal[j]
    BY <1>3, NewOrderEffect, NewSignalEffect DEF IInv
  <2>8. \A j \in Ids : d(j).mark => order'[j].status = "EXECUTED" /\ signal'[j] = "ORDER_EXECUTED"
    BY <1>3, NewOrderEffect, NewSignalEffect DEF IInv
  <2>9. \A j \in Ids : ~ d(j).mark => /\ order'[j].status \in {order[j].status, "FAILED"}
                                      /\ signal'[j] \in {signal[j], "ORDER_FAILED"}
    BY <1>3, NewOrderEffect, NewSignalEffect DEF IInv
  <2>10. \A j \in Ids : order'[j].status = "none" => order[j].status = "none"
    BY <2>8, <2>9
  <2>11. OrderFollowsRunner'
    <3>1. \A j \in Ids : signal'[j] = "none" => order'[j].status = "none"
      BY <2>2, <2>7, <2>8, <2>9 DEF IInv, OrderFollowsRunner, NotSent
    <3>2. runner.pc # "idle" => runner.id \in Ids /\ signal'[runner.id] # "none"
      BY <2>8, <2>9 DEF IInv, OrderFollowsRunner
    <3>3. runner.pc \in BeforeOrder \cup {"created", "await"}
             => order'[runner.id] = order[runner.id]
      BY <2>2, <2>3, <2>4, <2>7 DEF IInv, OrderFollowsRunner, NotSent, At, BeforeOrder
    <3>4. runner.pc = "settle" /\ order[runner.id].status = "EXECUTED"
             => order'[runner.id].status = "EXECUTED"
      BY <2>3, <2>7, <2>8 DEF IInv, OrderFollowsRunner
    <3>. QED BY <1>1, <3>1, <3>2, <3>3, <3>4 DEF IInv, OrderFollowsRunner
  <2>12. NothingUnsent'
    BY <1>1, <2>8, <2>9, <2>10 DEF IInv, NothingUnsent, NotSent, At, brokerVars
  <2>13. EvidenceIsReal'
    BY <1>1, <2>5 DEF IInv, EvidenceIsReal, Filled, brokerVars
  <2>14. OldIsDone'
    BY <1>1, <2>8, <2>9 DEF IInv, OldIsDone
  <2>15. AbsentIsUnresolved'
    BY <2>5 DEF AbsentIsUnresolved
  <2>16. ExecutedMeansFilled'
    <3>1. \A j \in Ids : order[j].status = "EXECUTED" => order'[j].status = "EXECUTED"
      BY <2>1, <2>7, <2>8
    <3>. QED BY <1>1, <2>8, <2>9, <3>1 DEF IInv, EvidenceIsReal, ExecutedMeansFilled,
                Filled, brokerVars
  <2>. QED BY <2>6, <2>11, <2>12, <2>13, <2>14, <2>15, <2>16 DEF IInv
<1>. QED BY <1>2, <1>3 DEF HandlerCommit

LEMMA StartRunKeeps ==
    ASSUME NEW i \in Ids, IInv, StartRun(i)
    PROVE  IInv'
<1>1. Shape'
  BY BoundsAssumption DEF StartRun, SetSignal, IdleRunner, IInv, Shape, SignalStatus,
     Steps, DbShape, BrokerShape, RunnerShape, SyncerShape, brokerVars, syncVars
<1>2. OrderFollowsRunner' /\ OldIsDone' /\ AbsentIsUnresolved'
  BY BoundsAssumption DEF StartRun, SetSignal, IInv, Shape, DbShape, OrderFollowsRunner,
     OldIsDone, AbsentIsUnresolved, syncVars
<1>3. NothingUnsent' /\ EvidenceIsReal' /\ ExecutedMeansFilled'
  BY BoundsAssumption DEF StartRun, SetSignal, IInv, NothingUnsent, EvidenceIsReal,
     ExecutedMeansFilled, At, NotSent, Filled, brokerVars, syncVars
<1>. QED BY <1>1, <1>2, <1>3 DEF IInv

LEMMA PlanOpenPositionsKeeps ==
    ASSUME NEW i \in Ids, IInv, PlanOpenPositions(i)
    PROVE  IInv'
  BY BoundsAssumption DEF PlanOpenPositions, IInv, Shape, BeforeOrder, Steps, DbShape,
     BrokerShape, RunnerShape, SyncerShape, OrderFollowsRunner, NothingUnsent,
     EvidenceIsReal, OldIsDone, AbsentIsUnresolved, ExecutedMeansFilled, At, NotSent,
     Filled, brokerVars, apiVars, syncVars

LEMMA PlanPendingOrdersKeeps ==
    ASSUME NEW i \in Ids, IInv, PlanPendingOrders(i)
    PROVE  IInv'
  BY BoundsAssumption DEF PlanPendingOrders, IInv, Shape, BeforeOrder, Steps, DbShape,
     BrokerShape, RunnerShape, SyncerShape, OrderFollowsRunner, NothingUnsent,
     EvidenceIsReal, OldIsDone, AbsentIsUnresolved, ExecutedMeansFilled, At, NotSent,
     Filled, brokerVars, apiVars, syncVars

LEMMA SettleKeeps ==
    ASSUME NEW i \in Ids, IInv, Settle(i)
    PROVE  IInv'
<1>1. Shape'
  BY BoundsAssumption DEF Settle, SetSignal, FinalStatus, IdleRunner, IInv, Shape,
     SignalStatus, Steps, DbShape, BrokerShape, RunnerShape, SyncerShape, brokerVars,
     syncVars
<1>2. OrderFollowsRunner' /\ OldIsDone' /\ AbsentIsUnresolved'
  BY BoundsAssumption DEF Settle, SetSignal, FinalStatus, IdleRunner, IInv, BeforeOrder,
     Ids, OrderFollowsRunner, OldIsDone, AbsentIsUnresolved, syncVars
<1>3. NothingUnsent' /\ EvidenceIsReal' /\ ExecutedMeansFilled'
  BY BoundsAssumption DEF Settle, SetSignal, FinalStatus, IdleRunner, IInv,
     OrderFollowsRunner, NothingUnsent, EvidenceIsReal, ExecutedMeansFilled, At, NotSent,
     Filled, brokerVars, syncVars
<1>. QED BY <1>1, <1>2, <1>3 DEF IInv

LEMMA LateFillKeeps ==
    ASSUME NEW i \in Ids, IInv, LateFill(i)
    PROVE  IInv'
<1>1. late[i] /\ UNCHANGED <<signal, order, call, age, runner, syncVars>>
  BY DEF LateFill, apiVars
<1>2. /\ broker' \in [Ids -> {"absent", "open", "closed"}]
      /\ \A j \in Ids : j # i => broker'[j] = broker[j]
      /\ broker[i] # "absent" => broker'[i] # "absent"
  BY DEF LateFill, IInv, Shape, BrokerShape
<1>3. /\ late' \in [Ids -> BOOLEAN]
      /\ ~ late'[i] /\ \A j \in Ids : j # i => late'[j] = late[j]
  BY DEF LateFill, IInv, Shape, BrokerShape
<1>4. Shape'
  BY <1>1, <1>2, <1>3 DEF IInv, Shape, DbShape, BrokerShape, RunnerShape, SyncerShape,
     syncVars
<1>5. OrderFollowsRunner' /\ OldIsDone' /\ AbsentIsUnresolved'
  BY <1>1 DEF IInv, OrderFollowsRunner, OldIsDone, AbsentIsUnresolved, syncVars
<1>6. NothingUnsent' /\ EvidenceIsReal' /\ ExecutedMeansFilled'
  BY <1>1, <1>2, <1>3 DEF IInv, Shape, Deals, SyncerShape, NothingUnsent, EvidenceIsReal,
     ExecutedMeansFilled, At, NotSent, Filled, syncVars
<1>. QED BY <1>4, <1>5, <1>6 DEF IInv

LEMMA ClosePositionKeeps ==
    ASSUME NEW i \in Ids, IInv, ClosePosition(i)
    PROVE  IInv'
<1>1. Shape'
  BY BoundsAssumption DEF ClosePosition, IInv, Shape, DbShape, BrokerShape, RunnerShape,
     SyncerShape, apiVars, syncVars
<1>2. OrderFollowsRunner' /\ OldIsDone' /\ AbsentIsUnresolved'
  BY BoundsAssumption DEF ClosePosition, IInv, OrderFollowsRunner, OldIsDone,
     AbsentIsUnresolved, apiVars, syncVars
<1>3. NothingUnsent' /\ EvidenceIsReal' /\ ExecutedMeansFilled'
  BY BoundsAssumption DEF ClosePosition, IInv, NothingUnsent, EvidenceIsReal,
     ExecutedMeansFilled, At, NotSent, Filled, apiVars, syncVars
<1>. QED BY <1>1, <1>2, <1>3 DEF IInv

LEMMA GracePassesKeeps ==
    ASSUME NEW i \in Ids, IInv, GracePasses(i)
    PROVE  IInv'
  BY BoundsAssumption DEF GracePasses, IInv, Shape, DbShape, BrokerShape, RunnerShape,
     SyncerShape, OrderFollowsRunner, NothingUnsent, EvidenceIsReal, OldIsDone,
     AbsentIsUnresolved, ExecutedMeansFilled, At, NotSent, Filled, brokerVars, apiVars,
     syncVars

LEMMA AmbiguousTtlPassesKeeps ==
    ASSUME NEW i \in Ids, IInv, AmbiguousTtlPasses(i)
    PROVE  IInv'
  BY BoundsAssumption DEF AmbiguousTtlPasses, IInv, Shape, DbShape, BrokerShape,
     RunnerShape, SyncerShape, OrderFollowsRunner, NothingUnsent, EvidenceIsReal,
     OldIsDone, AbsentIsUnresolved, ExecutedMeansFilled, At, NotSent, Filled, brokerVars,
     apiVars, syncVars

LEMMA TakeSnapshotKeeps ==
    ASSUME IInv, TakeSnapshot
    PROVE  IInv'
<1>1. Shape'
  BY BoundsAssumption DEF TakeSnapshot, OpenAtBroker, IdleSyncer, NoDecision, Decisions,
     IInv, Shape, DbShape, BrokerShape, RunnerShape, SyncerShape, brokerVars, apiVars
<1>2. OrderFollowsRunner' /\ OldIsDone' /\ AbsentIsUnresolved'
  BY BoundsAssumption DEF TakeSnapshot, IInv, OrderFollowsRunner, OldIsDone,
     AbsentIsUnresolved, apiVars
<1>3. NothingUnsent' /\ EvidenceIsReal' /\ ExecutedMeansFilled'
  BY BoundsAssumption DEF TakeSnapshot, OpenAtBroker, IdleSyncer, NoDecision, IInv,
     NothingUnsent, EvidenceIsReal, ExecutedMeansFilled, At, NotSent, Filled, brokerVars,
     apiVars
<1>. QED BY <1>1, <1>2, <1>3 DEF IInv

LEMMA HandlerReadKeeps ==
    ASSUME IInv, HandlerRead
    PROVE  IInv'
<1>1. Shape'
  BY BoundsAssumption DEF HandlerRead, DecisionOf, RowDecision, Decisions, IInv, Shape,
     DbShape, BrokerShape, RunnerShape, SyncerShape, brokerVars, apiVars
<1>2. OrderFollowsRunner' /\ OldIsDone' /\ AbsentIsUnresolved'
  BY BoundsAssumption DEF HandlerRead, DecisionOf, RowDecision, Matched, CountsAbsent,
     Decisions, IInv, Shape, BeforeOrder, Ids, Deals, SignalStatus, CallState, Steps,
     DbShape, BrokerShape, RunnerShape, SyncerShape, OrderFollowsRunner, NothingUnsent,
     EvidenceIsReal, OldIsDone, AbsentIsUnresolved, ExecutedMeansFilled, At, NotSent,
     Filled, brokerVars, apiVars, syncVars
<1>3. NothingUnsent' /\ EvidenceIsReal' /\ ExecutedMeansFilled'
  BY BoundsAssumption DEF HandlerRead, DecisionOf, RowDecision, Decisions, IInv, Shape,
     SyncerShape, NothingUnsent, EvidenceIsReal, ExecutedMeansFilled, At, NotSent, Filled,
     brokerVars, apiVars
<1>. QED BY <1>1, <1>2, <1>3 DEF IInv

LEMMA ReceiveAnswerKeeps ==
    ASSUME IInv, ReceiveAnswer
    PROVE  IInv'
<1>1. Shape'
  BY BoundsAssumption DEF ReceiveAnswer, IdleSyncer, NoDecision, Decisions, IInv, Shape,
     DbShape, BrokerShape, RunnerShape, SyncerShape, brokerVars, apiVars
<1>2. OrderFollowsRunner' /\ OldIsDone' /\ AbsentIsUnresolved'
  BY BoundsAssumption DEF ReceiveAnswer, IdleSyncer, IInv, OrderFollowsRunner, OldIsDone,
     AbsentIsUnresolved, apiVars
<1>3. NothingUnsent' /\ EvidenceIsReal' /\ ExecutedMeansFilled'
  BY BoundsAssumption DEF ReceiveAnswer, IdleSyncer, NoDecision, IInv, NothingUnsent,
     EvidenceIsReal, ExecutedMeansFilled, At, NotSent, Filled, brokerVars, apiVars
<1>. QED BY <1>1, <1>2, <1>3 DEF IInv

LEMMA PostAgainKeeps ==
    ASSUME IInv, PostAgain
    PROVE  IInv'
<1>1. Shape'
  BY BoundsAssumption DEF PostAgain, IdleSyncer, NoDecision, Decisions, IInv, Shape,
     DbShape, BrokerShape, RunnerShape, SyncerShape, brokerVars, apiVars
<1>2. OrderFollowsRunner' /\ OldIsDone' /\ AbsentIsUnresolved'
  BY BoundsAssumption DEF PostAgain, IInv, OrderFollowsRunner, OldIsDone,
     AbsentIsUnresolved, apiVars
<1>3. NothingUnsent' /\ EvidenceIsReal' /\ ExecutedMeansFilled'
  BY BoundsAssumption DEF PostAgain, IdleSyncer, NoDecision, IInv, NothingUnsent,
     EvidenceIsReal, ExecutedMeansFilled, At, NotSent, Filled, brokerVars, apiVars
<1>. QED BY <1>1, <1>2, <1>3 DEF IInv

LEMMA GiveUpCycleKeeps ==
    ASSUME IInv, GiveUpCycle
    PROVE  IInv'
<1>1. Shape'
  BY BoundsAssumption DEF GiveUpCycle, IdleSyncer, NoDecision, Decisions, IInv, Shape,
     DbShape, BrokerShape, RunnerShape, SyncerShape, brokerVars, apiVars
<1>2. OrderFollowsRunner' /\ OldIsDone' /\ AbsentIsUnresolved'
  BY BoundsAssumption DEF GiveUpCycle, IdleSyncer, IInv, OrderFollowsRunner, OldIsDone,
     AbsentIsUnresolved, apiVars
<1>3. NothingUnsent' /\ EvidenceIsReal' /\ ExecutedMeansFilled'
  BY BoundsAssumption DEF GiveUpCycle, IdleSyncer, NoDecision, IInv, NothingUnsent,
     EvidenceIsReal, ExecutedMeansFilled, At, NotSent, Filled, brokerVars, apiVars
<1>. QED BY <1>1, <1>2, <1>3 DEF IInv

LEMMA ApiCrashKeeps ==
    ASSUME IInv, ApiCrash
    PROVE  IInv'
<1>1. Shape'
  BY BoundsAssumption DEF ApiCrash, IdleRunner, IInv, Shape, CallState, Steps, DbShape,
     BrokerShape, RunnerShape, SyncerShape, apiVars
<1>2. OrderFollowsRunner' /\ OldIsDone' /\ AbsentIsUnresolved'
  BY BoundsAssumption DEF ApiCrash, IdleRunner, IInv, BeforeOrder, Ids, OrderFollowsRunner,
     OldIsDone, AbsentIsUnresolved, apiVars
<1>3. NothingUnsent' /\ EvidenceIsReal' /\ ExecutedMeansFilled'
  BY BoundsAssumption DEF ApiCrash, IdleRunner, IInv, NothingUnsent, EvidenceIsReal,
     ExecutedMeansFilled, At, NotSent, Filled, apiVars
<1>. QED BY <1>1, <1>2, <1>3 DEF IInv

LEMMA BridgeCrashKeeps ==
    ASSUME IInv, BridgeCrash
    PROVE  IInv'
<1>1. Shape'
  BY BoundsAssumption DEF BridgeCrash, IdleSyncer, NoDecision, Decisions, IInv, Shape,
     CallState, DbShape, BrokerShape, RunnerShape, SyncerShape, apiVars
<1>2. OrderFollowsRunner' /\ OldIsDone' /\ AbsentIsUnresolved'
  BY BoundsAssumption DEF BridgeCrash, IdleSyncer, IInv, OrderFollowsRunner, OldIsDone,
     AbsentIsUnresolved, apiVars
<1>3. NothingUnsent' /\ EvidenceIsReal' /\ ExecutedMeansFilled'
  BY BoundsAssumption DEF BridgeCrash, IdleSyncer, NoDecision, IInv, NothingUnsent,
     EvidenceIsReal, ExecutedMeansFilled, At, NotSent, Filled, apiVars
<1>. QED BY <1>1, <1>2, <1>3 DEF IInv

-----------------------------------------------------------------------------
LEMMA InitIInv == Init => IInv
<1>. SUFFICES ASSUME Init PROVE IInv
  OBVIOUS
<1>1. Shape
  BY DEF Init, Shape, DbShape, BrokerShape, RunnerShape, SyncerShape, NoOrder, IdleRunner,
     IdleSyncer, NoDecision, Decisions, SignalStatus, OrderStatus, CallState, Steps
<1>2. OrderFollowsRunner /\ OldIsDone /\ AbsentIsUnresolved
  BY DEF Init, OrderFollowsRunner, OldIsDone, AbsentIsUnresolved, NoOrder, IdleRunner,
     IdleSyncer, BeforeOrder
<1>3. NothingUnsent /\ EvidenceIsReal /\ ExecutedMeansFilled
  BY DEF Init, NothingUnsent, EvidenceIsReal, ExecutedMeansFilled, NoOrder, IdleSyncer,
     NoDecision
<1>. QED BY <1>1, <1>2, <1>3 DEF IInv

LEMMA StutterKeeps == IInv /\ UNCHANGED vars => IInv'
  BY DEF vars, IInv, Shape, DbShape, BrokerShape, RunnerShape, SyncerShape,
     OrderFollowsRunner, NothingUnsent, EvidenceIsReal, OldIsDone, AbsentIsUnresolved,
     ExecutedMeansFilled, At, NotSent, Filled

LEMMA NextKeeps == IInv /\ [Next]_vars => IInv'
<1>. SUFFICES ASSUME IInv, Next PROVE IInv'
  BY StutterKeeps
<1>1. ASSUME NEW i \in Ids, StartRun(i) \/ RunnerStep(i) \/ Abort(i) \/ Interrupted(i)
      PROVE  IInv'
  BY <1>1, StartRunKeeps, CheckSetupKeeps, PlanOpenPositionsKeeps, PlanPendingOrdersKeeps,
     PlanReservedSignalsKeeps, EvaluateRiskKeeps, CreateOrderKeeps, ValidateKeeps,
     ReceiveReplyKeeps, LoseReplyKeeps, SettleKeeps, AbortKeeps, InterruptedKeeps
     DEF RunnerStep
<1>2. ASSUME NEW i \in Ids, \/ BrokerStep(i) \/ ClosePosition(i)
                             \/ GracePasses(i) \/ AmbiguousTtlPasses(i)
      PROVE  IInv'
  BY <1>2, ExecuteCallKeeps, LateFillKeeps, ClosePositionKeeps, GracePassesKeeps,
     AmbiguousTtlPassesKeeps DEF BrokerStep
<1>3. CASE TakeSnapshot \/ LoadDeals \/ HandlerStep \/ ReceiveAnswer \/ PostAgain \/ GiveUpCycle
  BY <1>3, TakeSnapshotKeeps, LoadDealsKeeps, HandlerReadKeeps, HandlerCommitKeeps,
     ReceiveAnswerKeeps, PostAgainKeeps, GiveUpCycleKeeps DEF HandlerStep
<1>4. CASE ApiCrash \/ BridgeCrash
  BY <1>4, ApiCrashKeeps, BridgeCrashKeeps
<1>. QED BY <1>1, <1>2, <1>3, <1>4 DEF Next

\* Of the runner's steps, those that write an order find it CREATED or absent;
\* the handler gives up an order only while it is unresolved.
LEMMA NextKeepsExecuted ==
    ASSUME IInv, [Next]_vars, NEW i \in Ids, order[i].status = "EXECUTED"
    PROVE  order'[i].status = "EXECUTED"
<1>. DEFINE Goal == order'[i].status = "EXECUTED"
<1>1. CASE UNCHANGED vars
  BY <1>1 DEF vars
<1>2. ASSUME NEW j \in Ids, StartRun(j) \/ RunnerStep(j) \/ Abort(j) \/ Interrupted(j)
      PROVE  Goal
  <2>1. CASE CreateOrder(j) \/ Validate(j) \/ ReceiveReply(j) \/ LoseReply(j)
    <3>1. runner.id = j /\ runner.pc \in {"sent", "created", "await"}
      BY <2>1 DEF CreateOrder, Validate, ReceiveReply, LoseReply, At
    <3>2. i # j
      BY <3>1 DEF IInv, OrderFollowsRunner, BeforeOrder
    <3>3. order'[i] = order[i]
      BY <2>1, <3>2 DEF CreateOrder, Validate, ReceiveReply, LoseReply, Return, IInv,
         Shape, DbShape
    <3>. QED BY <3>3
  <2>2. CASE Interrupted(j)
    <3>1. runner.id = j
      BY <2>2 DEF Interrupted
    <3>2. \/ UNCHANGED order
          \/ \E status \in {"VALIDATING", "SENT"} :
                /\ runner.pc \in {"created", "await"}
                /\ order' = [order EXCEPT ![j].status = status]
      BY <2>2 DEF Interrupted, At
    <3>3. order[j].status # "EXECUTED" \/ UNCHANGED order
      BY <3>1, <3>2 DEF IInv, OrderFollowsRunner
    <3>. QED BY <3>2, <3>3 DEF IInv, Shape, DbShape
  <2>3. CASE \/ StartRun(j) \/ CheckSetup(j) \/ PlanOpenPositions(j) \/ PlanPendingOrders(j)
             \/ PlanReservedSignals(j) \/ EvaluateRisk(j) \/ Settle(j) \/ Abort(j)
    BY <2>3 DEF StartRun, CheckSetup, PlanOpenPositions, PlanPendingOrders,
       PlanReservedSignals, EvaluateRisk, Settle, Abort, apiVars
  <2>. QED BY <1>2, <2>1, <2>2, <2>3 DEF RunnerStep
<1>3. ASSUME NEW j \in Ids, \/ BrokerStep(j) \/ ClosePosition(j)
                             \/ GracePasses(j) \/ AmbiguousTtlPasses(j)
      PROVE  Goal
  BY <1>3 DEF BrokerStep, ExecuteCall, LateFill, ClosePosition, GracePasses,
     AmbiguousTtlPasses, apiVars
<1>4. CASE HandlerCommit
  <2>1. ~ syncer.decision[i].absent
    BY <1>4 DEF HandlerCommit, IInv, AbsentIsUnresolved
  <2>2. UNCHANGED order \/ order'[i] = NewOrder(i)
    BY <1>4 DEF HandlerCommit
  <2>. QED BY <2>1, <2>2, NewOrderEffect DEF IInv
<1>5. CASE \/ TakeSnapshot \/ LoadDeals \/ HandlerRead \/ ReceiveAnswer \/ PostAgain
           \/ GiveUpCycle \/ ApiCrash \/ BridgeCrash
  BY <1>5 DEF TakeSnapshot, LoadDeals, HandlerRead, ReceiveAnswer, PostAgain, GiveUpCycle,
     ApiCrash, BridgeCrash, apiVars
<1>. QED BY <1>1, <1>2, <1>3, <1>4, <1>5 DEF Next, HandlerStep

(***************************************************************************)
(* What the database calls executed did open a position in the account, for*)
(* any number of attempts, crashes and posts of one payload.               *)
(***************************************************************************)
THEOREM ExecutedIsReal == Spec => []ExecutedMeansFilled
<1>1. IInv => ExecutedMeansFilled
  BY DEF IInv
<1>. QED BY <1>1, InitIInv, NextKeeps, PTL DEF Spec

(***************************************************************************)
(* No step of runner, broker, syncer or handler takes an executed order    *)
(* back, although the handler commits decisions about orders it read       *)
(* earlier.                                                                *)
(***************************************************************************)
THEOREM ExecutedStays == Spec => ExecutedIsFinal
<1>1. IInv /\ [Next]_vars =>
         [\A i \in Ids : order[i].status = "EXECUTED" => order'[i].status = "EXECUTED"]_vars
  BY NextKeepsExecuted
<1>. QED BY <1>1, InitIInv, NextKeeps, PTL DEF Spec, ExecutedIsFinal

-----------------------------------------------------------------------------
\* Where a cycle of the syncer can be.
SyncerSteps == {"idle", "history", "post", "commit", "answered", "failed"}

\* The two deals of a position.
Entry(i) == <<i, "in">>
Exit(i) == <<i, "out">>

\* Nothing at the broker can open a position for attempt i any more.
NeverFills(i) == ~ Filled(i) /\ ~ late[i] /\ call[i] # "queued"

\* Rows of a position and what a handler may decide about it.
Rows == [api : RowStatus, ticketed : BOOLEAN, sync : RowStatus, missing : Nat]
RowDecisions == {"none", "refresh", "link", "insert", "insertClosed", "close", "missing"}

\* The types of the rows and of the syncer's cycle.
RowShape == row \in [Ids -> Rows]

\* A payload is posted at most MaxPosts times, and one that waits to be posted
\* again less often; before the history pass there is no payload.
PostsShape ==
    /\ syncer.pc \in SyncerSteps /\ syncer.complete \in BOOLEAN
    /\ syncer.posts \in 0 .. MaxPosts
    /\ syncer.pc = "post" => syncer.posts < MaxPosts
    /\ syncer.pc \in {"idle", "history"}
          => syncer.posts = 0 /\ syncer.deals = {} /\ ~ syncer.complete
    /\ acked \subseteq Deals

\* An order is at the broker once: queued, accepted and filled exclude each
\* other, and what was refused or is past its grace period opens nothing later.
SentOnce ==
    \A i \in Ids :
       /\ late[i] => ~ Filled(i) /\ call[i] # "queued"
       /\ call[i] = "queued" => ~ Filled(i)
       /\ call[i] = "rejected" \/ order[i].status = "REJECTED" => NeverFills(i)
       /\ age[i] >= 1 => ~ late[i] /\ call[i] # "queued"
       /\ age[i] = 0 => order[i].absent = 0

\* A row has a position, an absence is counted of a row that exists, and the
\* runner gets its answer before anybody has a row for its order.
RowsAreReal ==
    \A i \in Ids :
       /\ AnyRow(i) => Filled(i)
       /\ row[i].ticketed => row[i].api # "none"
       /\ ~ AnyRow(i) => row[i].missing = 0
       /\ order[i].ticket => AnyRow(i)
       /\ At("await", i) => ~ AnyRow(i)

\* A closing deal is of a closed position and does not travel without its entry.
DealsAreReal ==
    \A i \in Ids :
       /\ Exit(i) \in acked \cup syncer.deals => broker[i] = "closed"
       /\ Exit(i) \in syncer.deals => Entry(i) \in syncer.deals \cup acked

\* The payload has both deals of the position.
RoundTripRead(i) == Entry(i) \in syncer.deals /\ Exit(i) \in syncer.deals

\* Decisions after whose commit the position has a row.
Inserting == {"refresh", "link", "insert", "insertClosed"}

\* What is true of a decision from the read to the commit.
DecisionHolds(i, d) ==
    /\ d.row # "none" => Filled(i)
    /\ d.row \in {"refresh", "close", "missing"} => Ticketed(i)
    /\ d.row = "link" => row[i].api # "none"
    /\ d.row \in {"close", "insertClosed"} => Exit(i) \in syncer.deals
    /\ d.row = "missing" => i \notin syncer.tickets
    /\ d.mark => d.row \in Inserting
    /\ d.absent => /\ d.row = "none" /\ ~ AnyRow(i) /\ syncer.complete /\ i \notin syncer.tickets
                   /\ ~ RoundTripRead(i)
    /\ RoundTripRead(i) => AnyRow(i) \/ d.row \in Inserting
    /\ At("await", i) /\ d.row \in {"insert", "insertClosed"} => d.mark

\* What the handler decided at its read is still true at its commit.
DecisionsHold == syncer.pc = "commit" => \A i \in Ids : DecisionHolds(i, syncer.decision[i])

\* A payload that was applied has left a row for each round trip it carried.
AnsweredRows == syncer.pc = "answered" => \A i \in Ids : RoundTripRead(i) => AnyRow(i)

\* What the decision that is not committed yet will add to a count.
Pending(P) == IF syncer.pc = "commit" /\ P THEN 1 ELSE 0

\* An open position that the snapshot does not have was missed by this payload
\* only: at most once per post.
MissingCounted ==
    \A i \in Ids :
       broker[i] = "open" /\ syncer.pc # "idle" /\ i \notin syncer.tickets
          => row[i].missing + Pending(syncer.decision[i].row = "missing") <= syncer.posts

\* Rows, deals and decisions are evidence of positions.
RInv == /\ RowShape /\ PostsShape /\ SentOnce /\ RowsAreReal /\ DealsAreReal
        /\ DecisionsHold /\ AnsweredRows /\ MissingCounted

\* The payload under way knows nothing of attempt i and calls itself complete,
\* or may still do so although the position is open.
Blind(i) ==
    /\ i \notin syncer.tickets
    /\ \/ syncer.pc = "history" /\ broker[i] = "open"
       \/ /\ syncer.pc \in {"post", "commit", "answered", "failed"}
          /\ syncer.complete /\ ~ RoundTripRead(i)

\* A position the database does not know of.
Unseen(i) == Filled(i) /\ ~ AnyRow(i)

\* The deals of a position that closed unseen are still to be sent, both at once.
ClosedUnseen ==
    \A i \in Ids : Unseen(i) /\ broker[i] = "closed" =>
       /\ Entry(i) \notin acked /\ Exit(i) \notin acked
       /\ syncer.complete /\ Entry(i) \in syncer.deals => Exit(i) \in syncer.deals

\* The absences of a filled order were counted by posts of blind payloads.
AbsentCounted ==
    \A i \in Ids : Unseen(i) =>
       /\ order[i].absent <= MaxPosts
       /\ Blind(i) => order[i].absent + Pending(syncer.decision[i].absent) <= syncer.posts

\* An order is given up when nothing can fill it any more.
FailedStays == \A i \in Ids : order[i].status = "FAILED" => NeverFills(i)

\* How often an order that filled can have been counted absent.
FInv == ClosedUnseen /\ AbsentCounted /\ FailedStays

-----------------------------------------------------------------------------
\* A step of the runner that leaves broker, rows and syncer alone.
LEMMA RunnerKeepsRows ==
    ASSUME RInv, UNCHANGED <<row, brokerVars, age, syncVars>>,
           \A i \in Ids : /\ order'[i].ticket = order[i].ticket
                          /\ order'[i].absent = order[i].absent
                          /\ order'[i].status = "REJECTED" => order[i].status = "REJECTED"
                          /\ At("await", i)' => At("await", i)
    PROVE  RInv'
<1>1. RowShape' /\ PostsShape' /\ DealsAreReal' /\ AnsweredRows' /\ MissingCounted'
  BY DEF RInv, RowShape, PostsShape, DealsAreReal, AnsweredRows, MissingCounted, AnyRow,
     RoundTripRead, Entry, Exit, Pending, brokerVars, syncVars
<1>2. SentOnce'
  BY DEF RInv, SentOnce, NeverFills, Filled, brokerVars
<1>3. RowsAreReal'
  BY DEF RInv, RowsAreReal, AnyRow, Filled, brokerVars
<1>4. DecisionsHold'
  BY DEF RInv, DecisionsHold, DecisionHolds, AnyRow, Ticketed, Filled, RoundTripRead, Entry,
     Exit, brokerVars, syncVars
<1>. QED BY <1>1, <1>2, <1>3, <1>4 DEF RInv

\* The runner before its call and after its reply.
LEMMA ApproachKeepsRows ==
    ASSUME IInv, RInv, NEW i \in Ids,
           \/ StartRun(i) \/ CheckSetup(i) \/ PlanOpenPositions(i) \/ PlanPendingOrders(i)
           \/ PlanReservedSignals(i) \/ EvaluateRisk(i) \/ CreateOrder(i) \/ Settle(i)
    PROVE  RInv'
<1>1. UNCHANGED <<row, brokerVars, age, syncVars>>
  BY DEF StartRun, CheckSetup, PlanOpenPositions, PlanPendingOrders, PlanReservedSignals,
     EvaluateRisk, CreateOrder, Settle, apiVars
<1>2. UNCHANGED order \/ order' = [order EXCEPT ![i].status = "CREATED"]
  BY DEF StartRun, CheckSetup, PlanOpenPositions, PlanPendingOrders, PlanReservedSignals,
     EvaluateRisk, CreateOrder, Settle, apiVars
<1>3. runner'.pc # "await"
  <2>1. runner' = IdleRunner => runner'.pc # "await"
    BY DEF IdleRunner
  <2>. QED BY <2>1, GotoEffect DEF StartRun, CheckSetup, PlanOpenPositions,
              PlanPendingOrders, PlanReservedSignals, EvaluateRisk, CreateOrder, Settle,
              Reject, IdleRunner, At, IInv, Shape, RunnerShape, Steps
<1>4. \A j \in Ids : /\ order'[j].ticket = order[j].ticket
                     /\ order'[j].absent = order[j].absent
                     /\ order'[j].status = "REJECTED" => order[j].status = "REJECTED"
                     /\ At("await", j)' => At("await", j)
  BY <1>2, <1>3 DEF At, IInv, Shape, DbShape
<1>. QED BY <1>1, <1>4, RunnerKeepsRows

\* The call begins: nothing at the broker yet, and no row.
LEMMA ValidateKeepsRows ==
    ASSUME IInv, RInv, NEW i \in Ids, Validate(i)
    PROVE  RInv'
<1>1. /\ At("created", i)
      /\ UNCHANGED <<row, broker, late, age, syncVars>>
  BY DEF Validate
<1>2. NeverFills(i) /\ ~ AnyRow(i) /\ broker[i] = "absent" /\ call[i] = "none"
  BY <1>1 DEF IInv, NothingUnsent, NotSent, NeverFills, Filled, RInv, RowsAreReal
<1>3. RowShape' /\ PostsShape' /\ DealsAreReal' /\ AnsweredRows' /\ MissingCounted'
  BY <1>1 DEF RInv, RowShape, PostsShape, DealsAreReal, AnsweredRows, MissingCounted, AnyRow,
     RoundTripRead, Entry, Exit, Pending, syncVars
<1>4. DecisionsHold'
  <2>1. \A j \in Ids : At("await", j)' => j = i
    BY <1>1, GotoEffect, ReturnEffect DEF Validate, At, IInv, Shape, Steps, OrderStatus
  <2>. QED BY <1>1, <1>2, <2>1 DEF RInv, DecisionsHold, DecisionHolds, AnyRow, Ticketed,
              Filled, RoundTripRead, Entry, Exit, syncVars
<1>5. CASE Return(i, "REJECTED") /\ UNCHANGED call
  <2>1. /\ order'[i].status = "REJECTED" /\ order'[i].ticket = order[i].ticket
        /\ order'[i].absent = order[i].absent
        /\ \A j \in Ids : j # i => order'[j] = order[j]
    BY <1>5 DEF Return, IInv, Shape, DbShape
  <2>2. runner'.pc = "settle"
    BY <1>5, ReturnEffect DEF IInv, Shape, OrderStatus
  <2>3. SentOnce' /\ RowsAreReal'
    BY <1>1, <1>2, <1>5, <2>1, <2>2 DEF RInv, SentOnce, RowsAreReal, NeverFills, AnyRow,
       Filled, At
  <2>. QED BY <1>3, <1>4, <2>3 DEF RInv
<1>6. CASE call' = [call EXCEPT ![i] = "queued"] /\ Goto("await") /\ UNCHANGED order
  <2>1. call'[i] = "queued" /\ \A j \in Ids : j # i => call'[j] = call[j]
    BY <1>6 DEF IInv, Shape, BrokerShape
  <2>2. age[i] = 0 /\ order[i].status # "REJECTED"
    BY <1>1 DEF IInv, OldIsDone, OrderFollowsRunner, At, Shape, BrokerShape
  <2>3. SentOnce'
    BY <1>1, <1>2, <1>6, <2>1, <2>2 DEF RInv, SentOnce, NeverFills, Filled
  <2>4. \A j \in Ids : At("await", j)' => j = i
    BY <1>1, <1>6, GotoEffect DEF At, IInv, Shape, Steps
  <2>5. RowsAreReal'
    BY <1>1, <1>2, <1>6, <2>4 DEF RInv, RowsAreReal, AnyRow, Filled
  <2>. QED BY <1>3, <1>4, <2>3, <2>5 DEF RInv
<1>. QED BY <1>5, <1>6 DEF Validate

\* The order call is over: the order has its status and nobody awaits it.
LEMMA ReceiveReplyKeepsRows ==
    ASSUME OlderTicket # "any", IInv, RInv, NEW i \in Ids, ReceiveReply(i)
    PROVE  RInv'
<1>1. /\ At("await", i)
      /\ call' = [call EXCEPT ![i] = "none"]
      /\ UNCHANGED <<broker, late, age, syncVars>>
  BY DEF ReceiveReply
<1>2. PICK status \in {"EXECUTED", "FAILED", "RECONCILING"} :
         Return(i, status) /\ (status = "EXECUTED" => call[i] \in {"filled", "filledNoTicket"})
  BY DEF ReceiveReply
<1>3. /\ order'[i].status = status /\ order'[i].absent = order[i].absent
      /\ order'[i].ticket => \/ order[i].ticket
                             \/ call[i] = "filled" /\ status = "EXECUTED"
      /\ \A j \in Ids : j # i => order'[j] = order[j]
  BY <1>2 DEF Return, IInv, Shape, DbShape
<1>4. runner'.pc = "settle"
  BY <1>2, ReturnEffect DEF IInv, Shape, OrderStatus
<1>5. ~ AnyRow(i)
  BY <1>1 DEF RInv, RowsAreReal
<1>6. \/ UNCHANGED row
      \/ /\ row' = [row EXCEPT ![i].api = "OPEN", ![i].ticketed = (call[i] = "filled")]
         /\ Filled(i)
  BY DEF ReceiveReply, IInv, EvidenceIsReal
<1>7. status = "EXECUTED" => row' = [row EXCEPT ![i].api = "OPEN", ![i].ticketed = (call[i] = "filled")]
  BY <1>2, <1>3 DEF ReceiveReply, Return, IInv, Shape, DbShape, OrderStatus
<1>8. /\ RowShape'
      /\ \A j \in Ids : j # i => row'[j] = row[j]
      /\ row'[i].missing = row[i].missing
      /\ row'[i].ticketed => row'[i].api # "none"
      /\ AnyRow(i)' => Filled(i)
      /\ ~ AnyRow(i)' => row'[i] = row[i]
      /\ status = "EXECUTED" => AnyRow(i)'
  BY <1>5, <1>6, <1>7 DEF RInv, RowShape, Rows, RowsAreReal, AnyRow, RowStatus
<1>9. \A j \in Ids : (AnyRow(j) => AnyRow(j)') /\ (Ticketed(j) => Ticketed(j)')
  BY <1>5, <1>8 DEF AnyRow, Ticketed, RInv, RowsAreReal
<1>10. PostsShape' /\ DealsAreReal' /\ AnsweredRows' /\ MissingCounted'
  BY <1>1, <1>8, <1>9 DEF RInv, PostsShape, DealsAreReal, AnsweredRows, MissingCounted,
     RoundTripRead, Entry, Exit, Pending, syncVars
<1>11. SentOnce'
  BY <1>1, <1>3 DEF RInv, SentOnce, NeverFills, Filled, IInv, Shape, BrokerShape
<1>12. RowsAreReal'
  BY <1>1, <1>3, <1>4, <1>8 DEF RInv, RowsAreReal, AnyRow, Filled, At
<1>13. DecisionsHold'
  <2>1. syncer.pc = "commit" => ~ syncer.decision[i].absent
    BY <1>1 DEF IInv, AbsentIsUnresolved, OrderFollowsRunner, At
  <2>. QED BY <1>1, <1>4, <1>5, <1>8, <1>9, <2>1 DEF RInv, DecisionsHold, DecisionHolds,
              Filled, RoundTripRead, Entry, Exit, At, AnyRow, syncVars
<1>. QED BY <1>8, <1>10, <1>11, <1>12, <1>13 DEF RInv

\* A reply that is lost leaves the order RECONCILING.
LEMMA LoseReplyKeepsRows ==
    ASSUME IInv, RInv, NEW i \in Ids, LoseReply(i)
    PROVE  RInv'
<1>1. /\ At("await", i)
      /\ Return(i, "RECONCILING")
      /\ UNCHANGED <<row, broker, late, age, syncVars>>
  BY DEF LoseReply
<1>2. /\ order'[i].status = "RECONCILING" /\ order'[i].absent = order[i].absent
      /\ order'[i].ticket = order[i].ticket
      /\ \A j \in Ids : j # i => order'[j] = order[j]
  BY <1>1 DEF Return, IInv, Shape, DbShape
<1>3. runner'.pc = "settle"
  BY <1>1, ReturnEffect DEF IInv, Shape, OrderStatus
<1>4. \A j \in Ids : call'[j] = "none" \/ call'[j] = call[j]
  BY DEF LoseReply, IInv, Shape, BrokerShape
<1>5. RowShape' /\ PostsShape' /\ DealsAreReal' /\ AnsweredRows' /\ MissingCounted'
  BY <1>1 DEF RInv, RowShape, PostsShape, DealsAreReal, AnsweredRows, MissingCounted, AnyRow,
     RoundTripRead, Entry, Exit, Pending, syncVars
<1>6. SentOnce' /\ RowsAreReal'
  BY <1>1, <1>2, <1>3, <1>4 DEF RInv, SentOnce, RowsAreReal, NeverFills, AnyRow, Filled, At
<1>7. DecisionsHold'
  BY <1>1, <1>3 DEF RInv, DecisionsHold, DecisionHolds, AnyRow, Ticketed, Filled,
     RoundTripRead, Entry, Exit, At, syncVars
<1>. QED BY <1>5, <1>6, <1>7 DEF RInv

\* The runner is interrupted or its transaction aborted: its order keeps ticket
\* and count, and whatever the bridge answered is dropped.
LEMMA AbandonKeepsRows ==
    ASSUME RInv, UNCHANGED <<row, broker, late, age, syncVars>>, runner' = IdleRunner,
           \A j \in Ids : /\ order'[j].ticket = order[j].ticket
                          /\ order'[j].absent = order[j].absent
                          /\ order'[j].status = "REJECTED" => order[j].status = "REJECTED",
           \A j \in Ids : call'[j] \in {"none", call[j]}
    PROVE  RInv'
<1>1. runner'.pc # "await"
  BY DEF IdleRunner
<1>2. RowShape' /\ PostsShape' /\ DealsAreReal' /\ AnsweredRows' /\ MissingCounted'
  BY DEF RInv, RowShape, PostsShape, DealsAreReal, AnsweredRows, MissingCounted, AnyRow,
     RoundTripRead, Entry, Exit, Pending, syncVars
<1>3. SentOnce' /\ RowsAreReal'
  BY <1>1 DEF RInv, SentOnce, RowsAreReal, NeverFills, AnyRow, Filled, At
<1>4. DecisionsHold'
  BY <1>1 DEF RInv, DecisionsHold, DecisionHolds, AnyRow, Ticketed, Filled, RoundTripRead,
     Entry, Exit, At, syncVars
<1>. QED BY <1>2, <1>3, <1>4 DEF RInv

\* The handler's transaction fails before it commits.
LEMMA FailureKeepsRows ==
    ASSUME IInv, RInv, syncer.pc = "commit", syncer' = [syncer EXCEPT !.pc = "failed"],
           UNCHANGED <<order, row, broker, late, age, acked>>,
           runner' \in {runner, IdleRunner},
           \A j \in Ids : call'[j] \in {"none", call[j]}
    PROVE  RInv'
<1>1. /\ syncer'.pc = "failed" /\ syncer'.tickets = syncer.tickets
      /\ syncer'.deals = syncer.deals /\ syncer'.decision = syncer.decision
      /\ syncer'.complete = syncer.complete /\ syncer'.posts = syncer.posts
  BY DEF IInv, Shape, SyncerShape
<1>2. \A j \in Ids : At("await", j)' => At("await", j)
  BY DEF At, IdleRunner
<1>3. RowShape' /\ PostsShape' /\ DealsAreReal' /\ AnsweredRows' /\ DecisionsHold'
  BY <1>1 DEF RInv, RowShape, PostsShape, SyncerSteps, DealsAreReal, AnsweredRows,
     DecisionsHold, Entry, Exit
<1>4. SentOnce' /\ RowsAreReal'
  BY <1>2 DEF RInv, SentOnce, RowsAreReal, NeverFills, AnyRow, Filled
<1>5. MissingCounted'
  <2>1. \A j \in Ids : row[j].missing \in Nat
    BY DEF RInv, RowShape, Rows
  <2>. QED BY <1>1, <2>1 DEF RInv, MissingCounted, Pending, PostsShape
<1>. QED BY <1>3, <1>4, <1>5 DEF RInv

\* One of the two transactions of a deadlock is aborted.
LEMMA AbortKeepsRows ==
    ASSUME IInv, RInv, NEW i \in Ids, Abort(i)
    PROVE  RInv'
<1>1. UNCHANGED <<order, row, broker, late, age, acked, witnessed>>
  BY DEF Abort, apiVars
<1>2. CASE runner' = IdleRunner /\ call' = [call EXCEPT ![i] = "none"] /\ UNCHANGED syncer
  BY <1>1, <1>2, NoCallEffect, AbandonKeepsRows DEF IInv, Shape, syncVars
<1>3. CASE HandlerInserts(i) /\ syncer' = [syncer EXCEPT !.pc = "failed"] /\ UNCHANGED <<runner, call>>
  BY <1>1, <1>3, FailureKeepsRows DEF HandlerInserts
<1>. QED BY <1>2, <1>3 DEF Abort

\* An exception after the bridge was called.
LEMMA InterruptedKeepsRows ==
    ASSUME IInv, RInv, NEW i \in Ids, Interrupted(i)
    PROVE  RInv'
<1>1. /\ runner' = IdleRunner
      /\ call' = [call EXCEPT ![i] = "none"]
      /\ UNCHANGED <<row, broker, late, age, syncVars>>
  BY DEF Interrupted
<1>2. \/ UNCHANGED order
      \/ \E status \in {"VALIDATING", "SENT"} : order' = [order EXCEPT ![i].status = status]
  BY DEF Interrupted
<1>3. \A j \in Ids : /\ order'[j].ticket = order[j].ticket
                     /\ order'[j].absent = order[j].absent
                     /\ order'[j].status = "REJECTED" => order[j].status = "REJECTED"
  BY <1>2 DEF IInv, Shape, DbShape
<1>. QED BY <1>1, <1>3, NoCallEffect, AbandonKeepsRows DEF IInv, Shape

\* What the broker does to attempt i: open it, forget it, close it.
LEMMA BrokerKeepsRows ==
    ASSUME IInv, RInv, NEW i \in Ids, UNCHANGED <<row, order, runner, syncVars>>,
           \A j \in Ids : j # i => /\ broker'[j] = broker[j] /\ late'[j] = late[j]
                                   /\ call'[j] = call[j],
           \/ broker'[i] = broker[i]
           \/ broker[i] = "absent" /\ broker'[i] = "open"
           \/ broker[i] = "open" /\ broker'[i] = "closed",
           SentOnce'
    PROVE  RInv'
<1>1. RowShape' /\ PostsShape' /\ AnsweredRows'
  BY DEF RInv, RowShape, PostsShape, AnsweredRows, AnyRow, RoundTripRead, Entry, Exit, syncVars
<1>2. DealsAreReal'
  BY DEF RInv, DealsAreReal, Entry, Exit, syncVars
<1>3. RowsAreReal'
  BY DEF RInv, RowsAreReal, AnyRow, Filled, At
<1>4. DecisionsHold'
  BY DEF RInv, DecisionsHold, DecisionHolds, AnyRow, Ticketed, Filled, RoundTripRead, Entry,
     Exit, At, syncVars
<1>5. MissingCounted'
  <2>1. /\ broker[i] = "absent" => ~ AnyRow(i) /\ row[i].missing = 0
        /\ broker[i] = "absent" /\ syncer.pc = "commit" => syncer.decision[i].row = "none"
    BY DEF RInv, RowsAreReal, DecisionsHold, DecisionHolds, Filled
  <2>. QED BY <2>1 DEF RInv, MissingCounted, Pending, PostsShape, syncVars
<1>. QED BY <1>1, <1>2, <1>3, <1>4, <1>5 DEF RInv

\* The bridge executes, refuses or loses track of the order.
LEMMA ExecuteCallKeepsRows ==
    ASSUME IInv, RInv, NEW i \in Ids, ExecuteCall(i)
    PROVE  RInv'
<1>1. /\ call[i] = "queued"
      /\ UNCHANGED <<row, order, age, runner, syncVars>>
  BY DEF ExecuteCall, apiVars
<1>2. PICK r \in {"filled", "filledNoTicket", "filledOlder", "rejected", "ambiguous", "none"} :
         /\ call' = [call EXCEPT ![i] = r]
         /\ \/ broker' = [broker EXCEPT ![i] = "open"] /\ UNCHANGED late /\ r # "rejected"
            \/ r = "rejected" /\ UNCHANGED <<broker, late>>
            \/ /\ r \notin {"filled", "filledNoTicket", "filledOlder", "rejected"}
               /\ late' \in {late, [late EXCEPT ![i] = TRUE]}
               /\ UNCHANGED broker
  BY DEF ExecuteCall, Reply
<1>3. /\ call'[i] = r
      /\ \A j \in Ids : j # i => /\ broker'[j] = broker[j] /\ late'[j] = late[j]
                                 /\ call'[j] = call[j]
  BY <1>2 DEF IInv, Shape, BrokerShape
<1>4. broker[i] = "absent" /\ ~ late[i]
  BY <1>1 DEF RInv, SentOnce, Filled
<1>5. \/ broker'[i] = broker[i]
      \/ broker[i] = "absent" /\ broker'[i] = "open"
  <2>1. broker' = broker \/ broker' = [broker EXCEPT ![i] = "open"]
    BY <1>2
  <2>2. broker \in [Ids -> {"absent", "open", "closed"}]
    BY DEF IInv, Shape, BrokerShape
  <2>. QED BY <1>4, <2>1, <2>2
<1>6. SentOnce'
  <2>1. age[i] = 0 /\ order[i].status # "REJECTED"
    BY <1>1 DEF RInv, SentOnce, NeverFills, IInv, Shape, BrokerShape
  <2>2. /\ late' # late => broker'[i] = "absent" /\ r # "rejected"
        /\ r = "rejected" => broker'[i] = "absent"
    BY <1>2, <1>4
  <2>. QED BY <1>1, <1>2, <1>3, <1>4, <2>1, <2>2 DEF RInv, SentOnce, NeverFills, Filled
<1>. QED BY <1>1, <1>3, <1>5, <1>6, BrokerKeepsRows

\* An accepted order fills after the bridge has answered.
LEMMA LateFillKeepsRows ==
    ASSUME IInv, RInv, NEW i \in Ids, LateFill(i)
    PROVE  RInv'
<1>1. late[i] /\ UNCHANGED <<row, order, call, age, runner, syncVars>>
  BY DEF LateFill, apiVars
<1>2. /\ ~ late'[i]
      /\ \A j \in Ids : j # i => broker'[j] = broker[j] /\ late'[j] = late[j]
  BY DEF LateFill, IInv, Shape, BrokerShape
<1>3. broker[i] = "absent" /\ broker'[i] \in {"absent", "open"}
  BY <1>1 DEF LateFill, RInv, SentOnce, Filled, IInv, Shape, BrokerShape
<1>4. SentOnce'
  BY <1>1, <1>2 DEF RInv, SentOnce, NeverFills, Filled
<1>. QED BY <1>1, <1>2, <1>3, <1>4, BrokerKeepsRows

\* A position closes in the terminal.
LEMMA ClosePositionKeepsRows ==
    ASSUME IInv, RInv, NEW i \in Ids, ClosePosition(i)
    PROVE  RInv'
<1>1. broker[i] = "open" /\ UNCHANGED <<row, order, late, call, age, runner, syncVars>>
  BY DEF ClosePosition, apiVars
<1>2. broker'[i] = "closed" /\ \A j \in Ids : j # i => broker'[j] = broker[j]
  BY DEF ClosePosition, IInv, Shape, BrokerShape
<1>3. SentOnce'
  BY <1>1, <1>2 DEF RInv, SentOnce, NeverFills, Filled
<1>. QED BY <1>1, <1>2, <1>3, BrokerKeepsRows

\* The grace period and the window of a reservation pass.
LEMMA TimeKeepsRows ==
    ASSUME IInv, RInv, NEW i \in Ids, GracePasses(i) \/ AmbiguousTtlPasses(i)
    PROVE  RInv'
<1>1. /\ UNCHANGED <<row, order, broker, late, call, runner, syncVars>>
      /\ \A j \in Ids : j # i => age'[j] = age[j]
      /\ age'[i] >= 1 /\ ~ late[i] /\ call[i] # "queued"
  BY DEF GracePasses, AmbiguousTtlPasses, IInv, Shape, BrokerShape, RInv, SentOnce, apiVars,
     brokerVars
<1>2. SentOnce'
  BY <1>1 DEF RInv, SentOnce, NeverFills, Filled, IInv, Shape, BrokerShape
<1>. QED BY <1>1, <1>2, BrokerKeepsRows

\* The syncer starts a cycle or gives one up.
LEMMA RestartKeepsRows ==
    ASSUME IInv, RInv, UNCHANGED <<row, order, broker, late, age, runner>>,
           \A j \in Ids : call'[j] \in {"none", call[j]},
           NEW step \in {"idle", "history"},
           syncer'.pc = step, syncer'.posts = 0, syncer'.deals = {}, syncer'.complete = FALSE,
           \A i \in Ids : broker[i] = "open" /\ step # "idle" => i \in syncer'.tickets,
           \/ acked' \in {acked, {}}
           \/ /\ acked' = acked \cup syncer.deals
              /\ syncer.complete
    PROVE  RInv'
<1>1. RowShape' /\ AnsweredRows' /\ DecisionsHold'
  BY DEF RInv, RowShape, AnsweredRows, DecisionsHold
<1>5. PostsShape'
  <2>1. acked' \subseteq Deals
    BY DEF RInv, PostsShape, IInv, Shape, SyncerShape
  <2>2. 0 \in 0 .. MaxPosts
    BY BoundsAssumption
  <2>. QED BY <2>1, <2>2 DEF PostsShape, SyncerSteps
<1>2. SentOnce' /\ RowsAreReal'
  BY DEF RInv, SentOnce, RowsAreReal, NeverFills, AnyRow, Filled, At
<1>3. DealsAreReal'
  BY DEF RInv, DealsAreReal, Entry, Exit
<1>4. MissingCounted'
  BY DEF RInv, MissingCounted
<1>. QED BY <1>1, <1>2, <1>3, <1>4, <1>5 DEF RInv

\* The steps of the cycle that decide nothing.
LEMMA CycleKeepsRows ==
    ASSUME IInv, RInv, TakeSnapshot \/ ReceiveAnswer \/ GiveUpCycle \/ BridgeCrash
    PROVE  RInv'
<1>1. UNCHANGED <<row, order, broker, late, age, runner>>
  BY DEF TakeSnapshot, ReceiveAnswer, GiveUpCycle, BridgeCrash, apiVars, brokerVars
<1>2. \A j \in Ids : call'[j] \in {"none", call[j]}
  BY DEF TakeSnapshot, ReceiveAnswer, GiveUpCycle, BridgeCrash, brokerVars
<1>3. PICK step \in {"idle", "history"} :
         /\ syncer'.pc = step /\ syncer'.posts = 0 /\ syncer'.deals = {}
         /\ syncer'.complete = FALSE
         /\ step # "idle" => syncer'.tickets = OpenAtBroker
  <2>1. CASE TakeSnapshot
    BY <2>1 DEF TakeSnapshot, IdleSyncer
  <2>2. CASE ReceiveAnswer \/ GiveUpCycle \/ BridgeCrash
    BY <2>2 DEF ReceiveAnswer, GiveUpCycle, BridgeCrash, IdleSyncer
  <2>. QED BY <2>1, <2>2
<1>4. \/ acked' \in {acked, {}}
      \/ acked' = acked \cup syncer.deals /\ syncer.complete
  BY DEF TakeSnapshot, ReceiveAnswer, GiveUpCycle, BridgeCrash
<1>. QED BY <1>1, <1>2, <1>3, <1>4, RestartKeepsRows DEF OpenAtBroker

\* A pass over the history, complete or not, reads no close without its entry.
LEMMA LoadDealsEffect ==
    ASSUME IInv, RInv, LoadDeals
    PROVE  /\ syncer.pc = "history" /\ syncer'.pc = "post"
           /\ UNCHANGED <<row, order, signal, setup, volume, broker, late, call, age, runner,
                          acked>>
           /\ syncer'.tickets = syncer.tickets /\ syncer'.posts = syncer.posts
           /\ syncer'.decision = syncer.decision /\ syncer'.complete \in BOOLEAN
           /\ syncer'.deals \subseteq DealsAtBroker
           /\ \A i \in Ids : Exit(i) \in syncer'.deals => Entry(i) \in syncer'.deals \cup acked
           /\ syncer'.complete => syncer'.deals = DealsAtBroker \ acked
<1>1. syncer.pc = "history" /\ UNCHANGED <<apiVars, brokerVars, age, runner, acked>>
  BY DEF LoadDeals
<1>2. CASE syncer' = [syncer EXCEPT !.pc = "post", !.complete = TRUE,
                                    !.deals = DealsAtBroker \ acked]
  <2>1. /\ syncer'.pc = "post" /\ syncer'.tickets = syncer.tickets
        /\ syncer'.posts = syncer.posts /\ syncer'.decision = syncer.decision
        /\ syncer'.complete = TRUE /\ syncer'.deals = DealsAtBroker \ acked
    BY <1>2 DEF IInv, Shape, SyncerShape
  <2>2. \A i \in Ids : Exit(i) \in DealsAtBroker => Entry(i) \in DealsAtBroker
    BY DEF DealsAtBroker, Entry, Exit, Deals
  <2>. QED BY <1>1, <2>1, <2>2 DEF apiVars, brokerVars
<1>3. ASSUME NEW some \in SUBSET (DealsAtBroker \ acked),
             \A d \in some : d[2] = "out" => <<d[1], "in">> \in some \cup acked,
             syncer' = [syncer EXCEPT !.pc = "post", !.deals = some]
      PROVE  /\ syncer'.pc = "post" /\ syncer'.tickets = syncer.tickets
             /\ syncer'.posts = syncer.posts /\ syncer'.decision = syncer.decision
             /\ syncer'.complete = FALSE /\ syncer'.deals = some
             /\ \A i \in Ids : Exit(i) \in some => Entry(i) \in some \cup acked
  <2>1. /\ syncer'.pc = "post" /\ syncer'.tickets = syncer.tickets
        /\ syncer'.posts = syncer.posts /\ syncer'.decision = syncer.decision
        /\ syncer'.complete = syncer.complete /\ syncer'.deals = some
    BY <1>3 DEF IInv, Shape, SyncerShape
  <2>2. \A i \in Ids : Exit(i) \in some => Entry(i) \in some \cup acked
    BY <1>3 DEF Entry, Exit
  <2>. QED BY <1>1, <2>1, <2>2 DEF RInv, PostsShape
<1>. QED BY <1>1, <1>2, <1>3 DEF LoadDeals, apiVars, brokerVars

\* The history pass: deals are of positions, exits of closed ones.
LEMMA LoadDealsKeepsRows ==
    ASSUME IInv, RInv, LoadDeals
    PROVE  RInv'
<1>1. RowShape' /\ PostsShape' /\ AnsweredRows' /\ DecisionsHold'
  BY LoadDealsEffect, BoundsAssumption DEF RInv, RowShape, PostsShape, SyncerSteps, AnsweredRows,
     DecisionsHold
<1>2. SentOnce' /\ RowsAreReal'
  BY LoadDealsEffect DEF RInv, SentOnce, RowsAreReal, NeverFills, AnyRow, Filled, At
<1>3. DealsAreReal'
  BY LoadDealsEffect DEF RInv, DealsAreReal, Entry, Exit, DealsAtBroker
<1>4. MissingCounted'
  BY LoadDealsEffect DEF RInv, MissingCounted, Pending
<1>. QED BY <1>1, <1>2, <1>3, <1>4 DEF RInv

\* A post whose answer was lost is counted, and repeated.
LEMMA PostAgainKeepsRows ==
    ASSUME IInv, RInv, PostAgain
    PROVE  RInv'
<1>1. /\ syncer'.pc = "post" /\ syncer'.tickets = syncer.tickets
      /\ syncer'.deals = syncer.deals /\ syncer'.complete = syncer.complete
      /\ syncer'.posts = syncer.posts /\ syncer.posts < MaxPosts
      /\ syncer.pc \in {"answered", "failed"}
  BY DEF PostAgain, IInv, Shape, SyncerShape
<1>2. UNCHANGED <<row, order, broker, late, call, age, runner, acked>>
  BY DEF PostAgain, apiVars, brokerVars
<1>3. RowShape' /\ PostsShape' /\ AnsweredRows' /\ DecisionsHold' /\ DealsAreReal'
  BY <1>1, <1>2 DEF RInv, RowShape, PostsShape, SyncerSteps, AnsweredRows, DecisionsHold,
     DealsAreReal, Entry, Exit
<1>4. SentOnce' /\ RowsAreReal'
  BY <1>2 DEF RInv, SentOnce, RowsAreReal, NeverFills, AnyRow, Filled, At
<1>5. MissingCounted'
  BY <1>1, <1>2 DEF RInv, MissingCounted, Pending
<1>. QED BY <1>3, <1>4, <1>5 DEF RInv

\* A crash undoes what was not committed.
LEMMA ApiCrashKeepsRows ==
    ASSUME IInv, RInv, ApiCrash
    PROVE  RInv'
<1>1. /\ runner' = IdleRunner
      /\ UNCHANGED <<order, row, broker, late, age, acked, witnessed>>
      /\ \A j \in Ids : call'[j] \in {"none", call[j]}
  BY DEF ApiCrash, apiVars
<1>2. CASE syncer.pc = "commit"
  BY <1>1, <1>2, FailureKeepsRows DEF ApiCrash
<1>3. CASE syncer.pc # "commit"
  BY <1>1, <1>3, AbandonKeepsRows DEF ApiCrash, syncVars
<1>. QED BY <1>2, <1>3

-----------------------------------------------------------------------------
(* The handler: what it decides holds until it commits, because nobody else *)
(* touches a row that exists or an order old enough to be counted absent.   *)

\* What the handler decides at its read holds at its read.
LEMMA DecisionIsSound ==
    ASSUME IInv, RInv, NEW i \in Ids
    PROVE  DecisionHolds(i, DecisionOf(i))
<1>. DEFINE d == DecisionOf(i)
<1>1. /\ d.row = RowDecision(i)
      /\ d.mark <=> Matched(i) /\ (i \in syncer.tickets \/ d.row = "insertClosed")
      /\ d.absent <=> CountsAbsent(i) /\ d.row = "none"
  BY DEF DecisionOf
<1>. HIDE DEF d
<1>2. TicketedOpen(i) => Ticketed(i)
  BY DEF TicketedOpen, Ticketed
<1>3. Ticketed(i) => AnyRow(i)
  BY DEF RInv, RowsAreReal, Ticketed, AnyRow
<1>4. AnyRow(i) \/ i \in syncer.tickets \/ Entry(i) \in syncer.deals => Filled(i)
  BY DEF RInv, RowsAreReal, IInv, EvidenceIsReal, Entry
<1>5. ~ AnyRow(i) /\ Filled(i) => Matched(i)
  <2>1. order[i].status \in OrderStatus
    BY DEF IInv, Shape, DbShape
  <2>2. ~ AnyRow(i) => ~ order[i].ticket
    BY DEF RInv, RowsAreReal
  <2>3. Filled(i) => order[i].status \notin {"none", "REJECTED"}
    BY DEF RInv, SentOnce, NeverFills, IInv, NothingUnsent, NotSent, Filled
  <2>. QED BY <2>1, <2>2, <2>3 DEF Matched, OrderStatus
<1>6. At("await", i) => ~ AnyRow(i)
  BY DEF RInv, RowsAreReal
<1>7. i \in syncer.tickets =>
         \/ d.row = "refresh" /\ Ticketed(i)
         \/ d.row = "link" /\ row[i].api # "none"
         \/ d.row = "insert"
  BY <1>1 DEF RowDecision
<1>8. i \notin syncer.tickets =>
         \/ d.row = "insertClosed" /\ RoundTripRead(i) /\ Matched(i)
         \/ d.row = "close" /\ TicketedOpen(i) /\ Exit(i) \in syncer.deals
         \/ d.row = "missing" /\ TicketedOpen(i)
         \/ d.row = "none" /\ ~ (RoundTripRead(i) /\ ~ Ticketed(i) /\ Matched(i))
  BY <1>1 DEF RowDecision, RoundTripRead, Entry, Exit
<1>9. d.row # "none" => Filled(i)
  BY <1>2, <1>3, <1>4, <1>7, <1>8 DEF RoundTripRead
<1>10. d.absent => d.row = "none" /\ ~ AnyRow(i) /\ syncer.complete
  BY <1>1 DEF CountsAbsent
<1>11. d.absent => i \notin syncer.tickets /\ ~ RoundTripRead(i)
  BY <1>1, <1>3, <1>4, <1>5, <1>7, <1>8, <1>10 DEF RoundTripRead
<1>12. RoundTripRead(i) => AnyRow(i) \/ d.row \in Inserting
  BY <1>2, <1>3, <1>4, <1>5, <1>7, <1>8 DEF RoundTripRead, Inserting
<1>13. d.mark => d.row \in Inserting
  BY <1>1, <1>7 DEF Inserting
<1>14. At("await", i) /\ d.row \in {"insert", "insertClosed"} => d.mark
  BY <1>1, <1>5, <1>6, <1>7, <1>8, <1>9
<1>15. /\ d.row \in {"refresh", "close", "missing"} => Ticketed(i)
       /\ d.row = "link" => row[i].api # "none"
       /\ d.row \in {"close", "insertClosed"} => Exit(i) \in syncer.deals
       /\ d.row = "missing" => i \notin syncer.tickets
  BY <1>2, <1>7, <1>8 DEF RoundTripRead
<1>. QED BY <1>9, <1>10, <1>11, <1>12, <1>13, <1>14, <1>15 DEF DecisionHolds, d

\* What a read changes.
LEMMA HandlerReadEffect ==
    ASSUME IInv, RInv, HandlerRead
    PROVE  /\ syncer.pc = "post" /\ syncer'.pc = "commit"
           /\ syncer'.posts = syncer.posts + 1
           /\ syncer'.tickets = syncer.tickets /\ syncer'.deals = syncer.deals
           /\ syncer'.complete = syncer.complete
           /\ \A i \in Ids : syncer'.decision[i] = DecisionOf(i)
           /\ UNCHANGED <<apiVars, brokerVars, age, runner, acked>>
  BY DEF HandlerRead, IInv, Shape, SyncerShape

\* A read turns the payload into decisions that hold.
LEMMA HandlerReadKeepsRows ==
    ASSUME IInv, RInv, HandlerRead
    PROVE  RInv'
<1>1. RowShape' /\ AnsweredRows' /\ DealsAreReal' /\ SentOnce' /\ RowsAreReal'
  BY HandlerReadEffect DEF RInv, RowShape, AnsweredRows, DealsAreReal, SentOnce, RowsAreReal,
     NeverFills, AnyRow, Filled, At, Entry, Exit, apiVars, brokerVars
<1>2. PostsShape'
  <2>1. syncer.posts + 1 \in 0 .. MaxPosts
    BY HandlerReadEffect, BoundsAssumption DEF RInv, PostsShape
  <2>. QED BY <2>1, HandlerReadEffect DEF RInv, PostsShape, SyncerSteps
<1>3. DecisionsHold'
  <2>. SUFFICES ASSUME NEW i \in Ids
                PROVE  DecisionHolds(i, syncer.decision[i])'
    BY DEF DecisionsHold
  <2>1. DecisionHolds(i, syncer'.decision[i])
    BY DecisionIsSound, HandlerReadEffect
  <2>. QED BY <2>1, HandlerReadEffect DEF DecisionHolds, AnyRow, Ticketed, Filled,
              RoundTripRead, At, apiVars, brokerVars
<1>4. MissingCounted'
  <2>1. \A i \in Ids : row[i].missing \in Nat
    BY DEF RInv, RowShape, Rows
  <2>2. syncer.posts \in Nat
    BY BoundsAssumption DEF RInv, PostsShape
  <2>. QED BY <2>1, <2>2, HandlerReadEffect DEF RInv, MissingCounted, Pending, apiVars, brokerVars
<1>. QED BY <1>1, <1>2, <1>3, <1>4 DEF RInv

\* What a decision makes of a row: nothing that is there disappears.
LEMMA SetTicketedEffect ==
    ASSUME NEW r \in Rows, NEW status \in {"OPEN", "CLOSED"}
    PROVE  /\ SetTicketed(r, status) \in Rows
           /\ SetTicketed(r, status).missing = 0
           /\ SetTicketed(r, status).ticketed = r.ticketed
           /\ r.sync # "none" => /\ SetTicketed(r, status).sync = status
                                 /\ SetTicketed(r, status).api = r.api
           /\ r.sync = "none" => /\ SetTicketed(r, status).sync = "none"
                                 /\ SetTicketed(r, status).api = status
  BY DEF SetTicketed, RowStatus, Rows

\* The row of a position that was seen again.
LEMMA RefreshRow ==
    ASSUME NEW r \in Rows, NEW decision \in {"refresh", "close"}
    PROVE  NewRow(r, decision) = SetTicketed(r, IF decision = "close" THEN "CLOSED" ELSE "OPEN")
  BY DEF NewRow

\* The row of a position that was not seen.
LEMMA MissingRow ==
    ASSUME NEW r \in Rows
    PROVE  /\ r.missing + 1 >= Confirmations => NewRow(r, "missing") = SetTicketed(r, "CLOSED")
           /\ r.missing + 1 < Confirmations => /\ NewRow(r, "missing") \in Rows
                                              /\ NewRow(r, "missing").missing = r.missing + 1
                                              /\ NewRow(r, "missing").ticketed = r.ticketed
                                              /\ NewRow(r, "missing").api = r.api
                                              /\ NewRow(r, "missing").sync = r.sync
<1>1. r.missing \in Nat /\ Confirmations \in Nat
  BY BoundsAssumption DEF Rows
<1>2. CASE r.missing + 1 >= Confirmations
  BY <1>1, <1>2 DEF NewRow
<1>3. CASE r.missing + 1 < Confirmations
  <2>1. NewRow(r, "missing") = [r EXCEPT !.missing = @ + 1]
    BY <1>1, <1>3 DEF NewRow
  <2>. QED BY <1>1, <1>3, <2>1 DEF Rows
<1>. QED BY <1>1, <1>2, <1>3

\* A committed row has the columns of a row.
LEMMA NewRowFields ==
    ASSUME NEW r \in Rows, NEW decision \in {"none", "link", "insert", "insertClosed"}
    PROVE  /\ NewRow(r, decision) \in Rows
           /\ NewRow(r, decision).missing = r.missing
           /\ decision = "link" => /\ NewRow(r, decision).ticketed
                                   /\ NewRow(r, decision).api = "OPEN"
           /\ decision # "link" => /\ NewRow(r, decision).ticketed = r.ticketed
                                   /\ NewRow(r, decision).api = r.api
           /\ decision = "insert" => NewRow(r, decision).sync = "OPEN"
           /\ decision = "insertClosed" => NewRow(r, decision).sync = "CLOSED"
           /\ decision \in {"none", "link"} => NewRow(r, decision).sync = r.sync
<1>1. CASE decision = "none"
  <2>1. NewRow(r, decision) = r
    BY <1>1 DEF NewRow
  <2>. QED BY <1>1, <2>1
<1>2. CASE decision = "link"
  <2>1. NewRow(r, decision) = [r EXCEPT !.ticketed = TRUE, !.api = "OPEN"]
    BY <1>2 DEF NewRow
  <2>. QED BY <1>2, <2>1 DEF Rows, RowStatus
<1>3. CASE decision = "insert"
  <2>1. NewRow(r, decision) = [r EXCEPT !.sync = "OPEN"]
    BY <1>3 DEF NewRow
  <2>. QED BY <1>3, <2>1 DEF Rows, RowStatus
<1>4. CASE decision = "insertClosed"
  <2>1. NewRow(r, decision) = [r EXCEPT !.sync = "CLOSED"]
    BY <1>4 DEF NewRow
  <2>. QED BY <1>4, <2>1 DEF Rows, RowStatus
<1>. QED BY <1>1, <1>2, <1>3, <1>4

\* What each decision makes of a row.
LEMMA NewRowEffect ==
    ASSUME NEW r \in Rows, NEW decision \in RowDecisions,
           NEW new, new = NewRow(r, decision)
    PROVE  /\ new \in Rows
           /\ decision = "none" => new = r
           /\ r.api # "none" => new.api # "none"
           /\ r.sync # "none" => new.sync # "none"
           /\ r.ticketed => new.ticketed
           /\ new.ticketed => r.ticketed \/ decision = "link"
           /\ decision = "link" => new.api # "none" /\ new.sync = r.sync
           /\ decision \in {"insert", "insertClosed"} => new.sync # "none" /\ new.api = r.api
           /\ decision \in {"refresh", "close", "missing"} =>
                 /\ r.sync # "none" => new.api = r.api
                 /\ r.sync = "none" => new.sync = "none"
           /\ decision = "refresh" => new.api # "none" \/ new.sync # "none"
<1>1. CASE decision \in {"refresh", "close"}
  BY <1>1, RefreshRow, SetTicketedEffect
<1>2. CASE decision = "missing"
  <2>1. r.missing + 1 >= Confirmations \/ r.missing + 1 < Confirmations
    BY BoundsAssumption DEF Rows
  <2>. QED BY <1>2, <2>1, MissingRow, SetTicketedEffect
<1>3. CASE decision \in {"none", "link", "insert", "insertClosed"}
  <2>1. decision = "none" => new = r
    BY DEF NewRow
  <2>. QED BY <1>3, <2>1, NewRowFields
<1>. QED BY <1>1, <1>2, <1>3 DEF RowDecisions

\* A row's count of absences grows by one at most, and only a close deal or the
\* last confirmation closes it.
LEMMA NewRowCount ==
    ASSUME NEW r \in Rows, NEW decision \in RowDecisions,
           NEW new, new = NewRow(r, decision)
    PROVE  /\ new.missing <= r.missing + (IF decision = "missing" THEN 1 ELSE 0)
           /\ new.api = "CLOSED" \/ new.sync = "CLOSED" =>
                 \/ r.api = "CLOSED" \/ r.sync = "CLOSED"
                 \/ decision \in {"close", "insertClosed"}
                 \/ decision = "missing" /\ r.missing + 1 >= Confirmations
<1>0. r.missing \in Nat /\ Confirmations \in Nat
  BY BoundsAssumption DEF Rows
<1>1. CASE decision \in {"refresh", "close"}
  BY <1>0, <1>1, RefreshRow, SetTicketedEffect
<1>2. CASE decision = "missing" /\ r.missing + 1 >= Confirmations
  BY <1>0, <1>2, MissingRow, SetTicketedEffect
<1>3. CASE decision = "missing" /\ r.missing + 1 < Confirmations
  BY <1>0, <1>3, MissingRow
<1>4. CASE decision \in {"none", "link", "insert", "insertClosed"}
  BY <1>0, <1>4, NewRowFields
<1>. QED BY <1>0, <1>1, <1>2, <1>3, <1>4 DEF RowDecisions

\* What one decision makes of an order's count and ticket.
LEMMA NewOrderCount ==
    ASSUME IInv, NEW i \in Ids
    PROVE  LET d == syncer.decision[i]
           IN  /\ ~ d.absent => NewOrder(i).absent = order[i].absent
               /\ ~ d.mark => NewOrder(i).ticket = order[i].ticket
               /\ ~ d.mark /\ d.absent /\ ~ GivesUp(i)
                     => NewOrder(i).absent = order[i].absent + 1
               /\ ~ d.mark /\ ~ GivesUp(i) => NewOrder(i).status = order[i].status
<1>1. /\ DOMAIN order[i] = {"status", "ticket", "absent"}
      /\ order[i] = [order[i] EXCEPT !.status = order[i].status]
  BY DEF IInv, Shape, DbShape
<1>2. CASE syncer.decision[i].mark
  BY <1>1, <1>2 DEF NewOrder
<1>3. CASE ~ syncer.decision[i].mark
  BY <1>1, <1>3 DEF NewOrder, GivesUp
<1>. QED BY <1>2, <1>3

\* A successful commit, as the other lemmas use it.
LEMMA CommitEffect ==
    ASSUME IInv, RInv, HandlerCommit, ~ (\E i \in Ids : HandlerInserts(i) /\ Ticketed(i))
    PROVE  /\ syncer.pc = "commit" /\ syncer'.pc = "answered"
           /\ syncer'.posts = syncer.posts
           /\ syncer'.tickets = syncer.tickets /\ syncer'.deals = syncer.deals
           /\ syncer'.complete = syncer.complete
           /\ UNCHANGED <<setup, volume, brokerVars, age, runner, acked>>
           /\ \A i \in Ids : /\ row'[i] = NewRow(row[i], syncer.decision[i].row)
                             /\ order'[i] = NewOrder(i) /\ signal'[i] = NewSignal(i)
           /\ RowShape'
<1>1. \A i \in Ids : NewRow(row[i], syncer.decision[i].row) \in Rows
  BY NewRowEffect DEF RInv, RowShape, IInv, Shape, SyncerShape, Decisions, RowDecisions
<1>2. /\ row' = [i \in Ids |-> NewRow(row[i], syncer.decision[i].row)]
      /\ order' = [i \in Ids |-> NewOrder(i)]
      /\ signal' = [i \in Ids |-> NewSignal(i)]
      /\ syncer' = [syncer EXCEPT !.pc = "answered", !.counted = TRUE]
      /\ syncer.pc = "commit"
      /\ UNCHANGED <<setup, volume, brokerVars, age, runner, acked>>
  BY DEF HandlerCommit
<1>3. RowShape'
  BY <1>1, <1>2 DEF RowShape
<1>4. /\ syncer'.pc = "answered" /\ syncer'.posts = syncer.posts
      /\ syncer'.tickets = syncer.tickets /\ syncer'.deals = syncer.deals
      /\ syncer'.complete = syncer.complete
  BY <1>2 DEF IInv, Shape, SyncerShape
<1>. QED BY <1>2, <1>3, <1>4

\* While the runner awaits the answer about its order, the handler's commit
\* does nothing to that order and to its row.
LEMMA CommitSparesAwaited ==
    ASSUME IInv, RInv, HandlerCommit, NEW i \in Ids, At("await", i)
    PROVE  syncer.decision[i].row = "none" /\ ~ syncer.decision[i].mark
                                           /\ ~ syncer.decision[i].absent
<1>1. ~ syncer.decision[i].mark /\ ~ syncer.decision[i].absent
  BY DEF HandlerCommit, OrderRowsFree, At
<1>2. ~ AnyRow(i) /\ ~ Ticketed(i) /\ row[i].api = "none"
  BY DEF RInv, RowsAreReal, AnyRow, Ticketed
<1>3. DecisionHolds(i, syncer.decision[i])
  BY DEF HandlerCommit, RInv, DecisionsHold
<1>4. syncer.decision[i].row \in RowDecisions
  BY DEF IInv, Shape, SyncerShape, Decisions, RowDecisions
<1>. QED BY <1>1, <1>2, <1>3, <1>4 DEF DecisionHolds, RowDecisions

\* What a commit does to the row of one attempt.
LEMMA CommitMovesRows ==
    ASSUME IInv, RInv, HandlerCommit, ~ (\E j \in Ids : HandlerInserts(j) /\ Ticketed(j)),
           NEW i \in Ids
    PROVE  LET d == syncer.decision[i].row
           IN  /\ AnyRow(i) => AnyRow(i)'
               /\ Ticketed(i) => Ticketed(i)'
               /\ d \in Inserting => AnyRow(i)'
               /\ ~ AnyRow(i) /\ d \notin Inserting => d = "none" /\ row'[i] = row[i]
<1>1. row'[i] = NewRow(row[i], syncer.decision[i].row)
  BY CommitEffect
<1>2. /\ row[i] \in Rows
      /\ syncer.decision[i].row \in RowDecisions
  BY DEF RInv, RowShape, IInv, Shape, SyncerShape, Decisions, RowDecisions
<1>3. DecisionHolds(i, syncer.decision[i])
  BY DEF HandlerCommit, RInv, DecisionsHold
<1>4. Ticketed(i) => AnyRow(i)
  BY DEF RInv, RowsAreReal, Ticketed, AnyRow
<1>5. AnyRow(i) => AnyRow(i)'
  BY <1>1, <1>2, NewRowEffect DEF AnyRow
<1>6. Ticketed(i) => Ticketed(i)'
  BY <1>1, <1>2, NewRowEffect DEF Ticketed
<1>7. syncer.decision[i].row \in Inserting => AnyRow(i)'
  BY <1>1, <1>2, NewRowEffect DEF AnyRow, Inserting
<1>8. ~ AnyRow(i) /\ syncer.decision[i].row \notin Inserting => syncer.decision[i].row = "none"
  BY <1>2, <1>3, <1>4 DEF DecisionHolds, Inserting, RowDecisions
<1>9. syncer.decision[i].row = "none" => row'[i] = row[i]
  BY <1>1, <1>2, NewRowEffect
<1>. QED BY <1>5, <1>6, <1>7, <1>8, <1>9

\* A commit carries out decisions that hold.
LEMMA HandlerCommitKeepsRows ==
    ASSUME IInv, RInv, HandlerCommit
    PROVE  RInv'
<1>. DEFINE d(j) == syncer.decision[j]
<1>1. syncer.pc = "commit" /\ UNCHANGED <<broker, late, call, age, runner, acked>>
  BY DEF HandlerCommit, brokerVars
<1>2. CASE \E i \in Ids : HandlerInserts(i) /\ Ticketed(i)
  BY <1>1, <1>2, FailureKeepsRows DEF HandlerCommit
<1>3. CASE ~ (\E i \in Ids : HandlerInserts(i) /\ Ticketed(i))
  <2>1. /\ syncer'.pc = "answered" /\ syncer'.posts = syncer.posts
        /\ syncer'.tickets = syncer.tickets /\ syncer'.deals = syncer.deals
        /\ syncer'.complete = syncer.complete
        /\ \A i \in Ids : /\ row'[i] = NewRow(row[i], d(i).row)
                          /\ order'[i] = NewOrder(i)
        /\ RowShape'
    BY <1>3, CommitEffect
  <2>2. \A i \in Ids : DecisionHolds(i, d(i))
    BY <1>1 DEF RInv, DecisionsHold
  <2>3. \A i \in Ids :
           /\ row[i] \in Rows
           /\ d(i).row \in RowDecisions
    BY DEF RInv, RowShape, IInv, Shape, SyncerShape, Decisions, RowDecisions
  <2>4. \A i \in Ids : /\ AnyRow(i) => AnyRow(i)'
                       /\ Ticketed(i) => Ticketed(i)'
                       /\ d(i).row \in Inserting => AnyRow(i)'
                       /\ ~ AnyRow(i) /\ d(i).row \notin Inserting
                             => d(i).row = "none" /\ row'[i] = row[i]
    BY <1>3, CommitMovesRows
  <2>5. PostsShape' /\ DealsAreReal' /\ DecisionsHold'
    BY <1>1, <2>1 DEF RInv, PostsShape, SyncerSteps, DealsAreReal, DecisionsHold, Entry, Exit
  <2>6. AnsweredRows'
    BY <2>1, <2>2, <2>4 DEF AnsweredRows, DecisionHolds, RoundTripRead, Entry, Exit
  <2>7. SentOnce'
    <3>1. \A i \in Ids : /\ order'[i].status = "REJECTED" => order[i].status = "REJECTED"
                         /\ d(i).absent => age[i] >= 1
                         /\ ~ d(i).absent => order'[i].absent = order[i].absent
      BY <1>1, <2>1, NewOrderEffect, NewOrderCount DEF IInv, AbsentIsUnresolved
    <3>2. \A i \in Ids : age[i] \in 0 .. 2
      BY DEF IInv, Shape, BrokerShape
    <3>. QED BY <1>1, <3>1, <3>2 DEF RInv, SentOnce, NeverFills, Filled
  <2>8. MissingCounted'
    <3>1. \A i \in Ids : row'[i].missing <= row[i].missing + (IF d(i).row = "missing" THEN 1 ELSE 0)
      BY <2>1, <2>3, NewRowCount
    <3>2. \A i \in Ids : row[i].missing \in Nat /\ row'[i].missing \in Nat
      BY <2>1 DEF RInv, RowShape, Rows
    <3>3. syncer.posts \in Nat
      BY BoundsAssumption DEF RInv, PostsShape
    <3>. QED BY <1>1, <2>1, <3>1, <3>2, <3>3 DEF RInv, MissingCounted, Pending
  <2>9. RowsAreReal'
    <3>. SUFFICES ASSUME NEW i \in Ids
                  PROVE  /\ AnyRow(i)' => Filled(i)'
                         /\ row'[i].ticketed => row'[i].api # "none"
                         /\ ~ AnyRow(i)' => row'[i].missing = 0
                         /\ order'[i].ticket => AnyRow(i)'
                         /\ At("await", i)' => ~ AnyRow(i)'
      BY DEF RowsAreReal
    <3>1. AnyRow(i)' => Filled(i)'
      BY <1>1, <2>2, <2>4 DEF RInv, RowsAreReal, AnyRow, Filled, DecisionHolds, Inserting
    <3>2. row'[i].ticketed => row'[i].api # "none"
      BY <2>1, <2>3, NewRowEffect DEF RInv, RowsAreReal
    <3>3. ~ AnyRow(i)' => row'[i].missing = 0
      BY <2>4 DEF RInv, RowsAreReal
    <3>4. order'[i].ticket => AnyRow(i)'
      <4>1. order'[i].ticket => order[i].ticket \/ d(i).mark
        BY <2>1, NewOrderCount
      <4>. QED BY <2>2, <2>4, <4>1 DEF RInv, RowsAreReal, DecisionHolds
    <3>5. At("await", i)' => ~ AnyRow(i)'
      <4>. SUFFICES ASSUME At("await", i) PROVE ~ AnyRow(i)'
        BY <1>1 DEF At
      <4>1. ~ AnyRow(i)
        BY DEF RInv, RowsAreReal
      <4>2. d(i).row = "none"
        BY CommitSparesAwaited
      <4>. QED BY <2>4, <4>1, <4>2 DEF AnyRow, Inserting
    <3>. QED BY <3>1, <3>2, <3>3, <3>4, <3>5
  <2>. QED BY <2>1, <2>5, <2>6, <2>7, <2>8, <2>9 DEF RInv
<1>. QED BY <1>2, <1>3

-----------------------------------------------------------------------------
\* RInv holds at first.
LEMMA InitRInv == Init => RInv
<1>. SUFFICES ASSUME Init PROVE RInv
  OBVIOUS
<1>1. RowShape /\ SentOnce /\ RowsAreReal
  BY DEF Init, RowShape, Rows, SentOnce, RowsAreReal, NoRow, NoOrder, IdleRunner, RowStatus,
     NeverFills, Filled, AnyRow, At
<1>2. PostsShape /\ DealsAreReal /\ DecisionsHold /\ AnsweredRows /\ MissingCounted
  BY BoundsAssumption DEF Init, PostsShape, DealsAreReal, DecisionsHold, AnsweredRows,
     MissingCounted, IdleSyncer, SyncerSteps
<1>. QED BY <1>1, <1>2 DEF RInv

\* RInv is a state predicate.
LEMMA StutterKeepsRows == RInv /\ UNCHANGED vars => RInv'
<1>. SUFFICES ASSUME RInv, UNCHANGED vars PROVE RInv'
  OBVIOUS
<1>. QED BY RunnerKeepsRows DEF vars, brokerVars, syncVars, At

\* RInv is inductive.
LEMMA NextKeepsRows ==
    ASSUME OlderTicket # "any"
    PROVE  IInv /\ RInv /\ [Next]_vars => RInv'
<1>. SUFFICES ASSUME IInv, RInv, Next PROVE RInv'
  BY StutterKeepsRows
<1>1. ASSUME NEW i \in Ids, StartRun(i) \/ RunnerStep(i) \/ Abort(i) \/ Interrupted(i)
      PROVE  RInv'
  BY <1>1, ApproachKeepsRows, ValidateKeepsRows, ReceiveReplyKeepsRows, LoseReplyKeepsRows,
     AbortKeepsRows, InterruptedKeepsRows DEF RunnerStep
<1>2. ASSUME NEW i \in Ids, \/ BrokerStep(i) \/ ClosePosition(i)
                             \/ GracePasses(i) \/ AmbiguousTtlPasses(i)
      PROVE  RInv'
  BY <1>2, ExecuteCallKeepsRows, LateFillKeepsRows, ClosePositionKeepsRows, TimeKeepsRows
     DEF BrokerStep
<1>3. CASE \/ TakeSnapshot \/ LoadDeals \/ HandlerStep \/ ReceiveAnswer \/ PostAgain
           \/ GiveUpCycle \/ ApiCrash \/ BridgeCrash
  BY <1>3, CycleKeepsRows, LoadDealsKeepsRows, HandlerReadKeepsRows, HandlerCommitKeepsRows,
     PostAgainKeepsRows, ApiCrashKeepsRows DEF HandlerStep
<1>. QED BY <1>1, <1>2, <1>3 DEF Next

-----------------------------------------------------------------------------
\* Once nothing can open a position for an attempt, only a new order call could.
LEMMA NeverFillsStays ==
    ASSUME IInv, RInv, [Next]_vars, NEW i \in Ids, NeverFills(i), ~ At("created", i)
    PROVE  NeverFills(i)'
<1>1. CASE UNCHANGED vars
  BY <1>1 DEF vars, NeverFills, Filled
<1>2. ASSUME NEW j \in Ids, Validate(j)
      PROVE  NeverFills(i)'
  <2>1. j # i /\ UNCHANGED <<broker, late>>
    BY <1>2 DEF Validate
  <2>2. call'[i] = call[i]
    BY <1>2, <2>1 DEF Validate, IInv, Shape, BrokerShape
  <2>. QED BY <2>1, <2>2 DEF NeverFills, Filled
<1>3. ASSUME NEW j \in Ids, BrokerStep(j) \/ ClosePosition(j)
      PROVE  NeverFills(i)'
  <2>1. j # i
    BY <1>3 DEF BrokerStep, ExecuteCall, LateFill, ClosePosition, NeverFills, Filled
  <2>2. broker'[i] = broker[i] /\ late'[i] = late[i] /\ call'[i] = call[i]
    BY <1>3, <2>1 DEF BrokerStep, ExecuteCall, Reply, LateFill, ClosePosition, IInv, Shape,
       BrokerShape
  <2>. QED BY <2>2 DEF NeverFills, Filled
<1>4. CASE \/ \E j \in Ids : \/ StartRun(j) \/ CheckSetup(j) \/ PlanOpenPositions(j)
                             \/ PlanPendingOrders(j) \/ PlanReservedSignals(j)
                             \/ EvaluateRisk(j) \/ CreateOrder(j) \/ Settle(j)
                             \/ GracePasses(j) \/ AmbiguousTtlPasses(j)
           \/ TakeSnapshot \/ LoadDeals \/ HandlerStep \/ ReceiveAnswer \/ PostAgain
           \/ GiveUpCycle
  <2>1. UNCHANGED brokerVars
    BY <1>4 DEF StartRun, CheckSetup, PlanOpenPositions, PlanPendingOrders,
       PlanReservedSignals, EvaluateRisk, CreateOrder, Settle, GracePasses,
       AmbiguousTtlPasses, TakeSnapshot, LoadDeals, HandlerStep, HandlerRead, HandlerCommit,
       ReceiveAnswer, PostAgain, GiveUpCycle
  <2>. QED BY <2>1 DEF brokerVars, NeverFills, Filled
<1>5. CASE \/ \E j \in Ids : ReceiveReply(j) \/ LoseReply(j) \/ Abort(j) \/ Interrupted(j)
           \/ ApiCrash \/ BridgeCrash
  <2>1. UNCHANGED <<broker, late>>
    BY <1>5 DEF ReceiveReply, LoseReply, Abort, Interrupted, ApiCrash, BridgeCrash
  <2>2. call'[i] # "queued"
    <3>1. call[i] # "queued"
      BY DEF NeverFills
    <3>2. ASSUME NEW j \in Ids, call' = [call EXCEPT ![j] = "none"]
          PROVE  call'[i] # "queued"
      BY <3>1, <3>2 DEF IInv, Shape, BrokerShape
    <3>3. ASSUME NEW j \in Ids, LoseReply(j) PROVE call'[i] # "queued"
      BY <3>1, <3>3 DEF LoseReply, IInv, Shape, BrokerShape
    <3>4. CASE ApiCrash \/ BridgeCrash
      BY <3>1, <3>4 DEF ApiCrash, BridgeCrash
    <3>. QED BY <1>5, <3>1, <3>2, <3>3, <3>4 DEF ReceiveReply, Abort, Interrupted
  <2>. QED BY <2>1, <2>2 DEF NeverFills, Filled
<1>. QED BY <1>1, <1>2, <1>3, <1>4, <1>5 DEF Next, RunnerStep

\* A row, once there, stays, and so does what an attempt that has one filled.
LEMMA RowsStay ==
    ASSUME IInv, RInv, [Next]_vars, NEW i \in Ids, AnyRow(i)
    PROVE  AnyRow(i)'
<1>1. CASE HandlerCommit
  <2>1. CASE \E j \in Ids : HandlerInserts(j) /\ Ticketed(j)
    BY <1>1, <2>1 DEF HandlerCommit, AnyRow
  <2>2. CASE ~ \E j \in Ids : HandlerInserts(j) /\ Ticketed(j)
    BY <1>1, <2>2, CommitMovesRows
  <2>. QED BY <2>1, <2>2
<1>2. ASSUME NEW j \in Ids, ReceiveReply(j)
      PROVE  AnyRow(i)'
  <2>1. \/ row' = row
        \/ \E t \in BOOLEAN : row' = [row EXCEPT ![j].api = "OPEN", ![j].ticketed = t]
        \/ \E k \in Ids : row' = [row EXCEPT ![k].sync = "OPEN"]
    BY <1>2 DEF ReceiveReply, Alike
  <2>2. row \in [Ids -> Rows]
    BY DEF RInv, RowShape
  <2>. QED BY <2>1, <2>2 DEF AnyRow, Rows
<1>3. CASE UNCHANGED row
  BY <1>3 DEF AnyRow
<1>. QED BY <1>1, <1>2, <1>3 DEF Next, RunnerStep, BrokerStep, HandlerStep, StartRun,
            CheckSetup, PlanOpenPositions, PlanPendingOrders, PlanReservedSignals,
            EvaluateRisk, CreateOrder, Validate, LoseReply, Settle, Abort, Interrupted,
            ExecuteCall, LateFill, ClosePosition, GracePasses, AmbiguousTtlPasses,
            TakeSnapshot, LoadDeals, HandlerRead, ReceiveAnswer, PostAgain, GiveUpCycle,
            ApiCrash, BridgeCrash, apiVars, vars

\* The only payload that misses a position counts it absent at most once a post.
LEMMA GivesUpUnfilled ==
    ASSUME IInv, RInv, FInv, MaxPosts < AbsentSyncs, NEW i \in Ids,
           syncer.pc = "commit", GivesUp(i)
    PROVE  NeverFills(i)
<1>1. syncer.decision[i].absent /\ order[i].absent + 1 >= AbsentSyncs
  BY DEF GivesUp
<1>2. DecisionHolds(i, syncer.decision[i])
  BY DEF RInv, DecisionsHold
<1>3. age[i] >= 1
  BY <1>1 DEF IInv, AbsentIsUnresolved
<1>4. ASSUME Filled(i) PROVE FALSE
  <2>1. Unseen(i) /\ Blind(i)
    BY <1>1, <1>2, <1>4 DEF Unseen, Blind, DecisionHolds
  <2>2. order[i].absent + 1 <= syncer.posts
    BY <1>1, <2>1 DEF FInv, AbsentCounted, Pending
  <2>3. syncer.posts \in 0 .. MaxPosts
    BY DEF RInv, PostsShape
  <2>4. order[i].absent \in Nat
    BY DEF IInv, Shape, DbShape
  <2>. QED BY <1>1, <2>2, <2>3, <2>4, BoundsAssumption
<1>. QED BY <1>3, <1>4 DEF NeverFills, RInv, SentOnce

\* Only a commit that counts the last absence gives an order up.
LEMMA FailedIsNew ==
    ASSUME IInv, RInv, FInv, MaxPosts < AbsentSyncs, [Next]_vars, NEW i \in Ids,
           order'[i].status = "FAILED"
    PROVE  NeverFills(i) /\ ~ At("created", i)
<1>1. CASE order[i].status = "FAILED"
  BY <1>1 DEF FInv, FailedStays, IInv, OrderFollowsRunner, At
<1>2. CASE order[i].status # "FAILED"
  <2>1. ASSUME NEW j \in Ids, ReceiveReply(j)
        PROVE  NeverFills(i) /\ ~ At("created", i)
    <3>1. PICK status \in {"EXECUTED", "FAILED", "RECONCILING"} :
             Return(j, status) /\ (status = "FAILED" => call[j] = "rejected")
      BY <2>1 DEF ReceiveReply
    <3>2. i = j /\ status = "FAILED"
      BY <1>2, <3>1, ReturnEffect DEF IInv, Shape, OrderStatus
    <3>. QED BY <2>1, <3>1, <3>2 DEF ReceiveReply, At, RInv, SentOnce
  <2>2. CASE HandlerCommit
    <3>1. order'[i] = NewOrder(i) /\ syncer.pc = "commit"
      BY <1>2, <2>2 DEF HandlerCommit
    <3>2. GivesUp(i)
      BY <1>2, <3>1, NewOrderEffect, NewOrderCount DEF IInv
    <3>3. syncer.decision[i].absent
      BY <3>2 DEF GivesUp
    <3>. QED BY <3>1, <3>2, <3>3, GivesUpUnfilled DEF IInv, AbsentIsUnresolved, OldIsDone, At
  <2>3. ASSUME NEW j \in Ids, NEW status \in OrderStatus \ {"FAILED"},
               order' = [order EXCEPT ![j].status = status] \/ Return(j, status)
        PROVE  FALSE
    BY <1>2, <2>3 DEF Return, IInv, Shape, DbShape
  <2>4. CASE UNCHANGED order
    BY <1>2, <2>4
  <2>. QED BY <2>1, <2>2, <2>3, <2>4 DEF Next, RunnerStep, BrokerStep, HandlerStep, StartRun,
            CheckSetup, PlanOpenPositions, PlanPendingOrders, PlanReservedSignals,
            EvaluateRisk, CreateOrder, Validate, LoseReply, Settle, Abort, Interrupted,
            ExecuteCall, LateFill, ClosePosition, GracePasses, AmbiguousTtlPasses,
            TakeSnapshot, LoadDeals, HandlerRead, ReceiveAnswer, PostAgain, GiveUpCycle,
            ApiCrash, BridgeCrash, apiVars, vars, OrderStatus
<1>. QED BY <1>1, <1>2

\* An order that was given up stays unfilled.
LEMMA NextKeepsFailed ==
    ASSUME IInv, RInv, FInv, MaxPosts < AbsentSyncs, [Next]_vars
    PROVE  FailedStays'
<1>. SUFFICES ASSUME NEW i \in Ids, order'[i].status = "FAILED"
              PROVE  NeverFills(i)'
  BY DEF FailedStays
<1>. QED BY FailedIsNew, NeverFillsStays

\* The part of FInv that depends on what the syncer has read.
Counting == ClosedUnseen /\ AbsentCounted

\* A step that leaves broker, syncer and counts alone.
LEMMA QuietKeepsCounting ==
    ASSUME Counting, UNCHANGED <<broker, syncer, acked>>,
           \A i \in Ids : (AnyRow(i) => AnyRow(i)') /\ order'[i].absent = order[i].absent
    PROVE  Counting'
  BY DEF Counting, ClosedUnseen, AbsentCounted, Unseen, Filled, Blind, RoundTripRead, Entry,
     Exit, Pending

\* The runner neither sees nor counts absences.
LEMMA RunnerKeepsCounting ==
    ASSUME IInv, RInv, FInv, [Next]_vars, NEW i \in Ids,
           \/ StartRun(i) \/ RunnerStep(i) \/ Interrupted(i)
           \/ GracePasses(i) \/ AmbiguousTtlPasses(i)
    PROVE  Counting'
<1>1. UNCHANGED <<broker, syncer, acked>>
  BY DEF StartRun, RunnerStep, CheckSetup, PlanOpenPositions, PlanPendingOrders,
     PlanReservedSignals, EvaluateRisk, CreateOrder, Validate, ReceiveReply, LoseReply,
     Settle, Interrupted, GracePasses, AmbiguousTtlPasses, brokerVars, syncVars
<1>2. \E status \in OrderStatus : \/ UNCHANGED order
                                  \/ order' = [order EXCEPT ![i].status = status]
                                  \/ Return(i, status)
  BY DEF StartRun, RunnerStep, CheckSetup, PlanOpenPositions, PlanPendingOrders,
     PlanReservedSignals, EvaluateRisk, CreateOrder, Validate, ReceiveReply, LoseReply,
     Settle, Interrupted, GracePasses, AmbiguousTtlPasses, OrderStatus, apiVars
<1>3. \A j \in Ids : order'[j].absent = order[j].absent
  <2>1. PICK status \in OrderStatus : \/ UNCHANGED order
                                     \/ order' = [order EXCEPT ![i].status = status]
                                     \/ Return(i, status)
    BY <1>2
  <2>2. CASE order' = [order EXCEPT ![i].status = status]
    BY <2>2 DEF IInv, Shape, DbShape
  <2>3. CASE Return(i, status)
    BY <2>3 DEF Return, IInv, Shape, DbShape
  <2>. QED BY <2>1, <2>2, <2>3
<1>. QED BY <1>1, <1>3, RowsStay, QuietKeepsCounting DEF FInv, Counting

\* The handler's transaction fails: what it had counted is not committed.
LEMMA FailureKeepsCounting ==
    ASSUME IInv, RInv, FInv, syncer.pc = "commit", syncer' = [syncer EXCEPT !.pc = "failed"],
           UNCHANGED <<order, row, broker, acked>>
    PROVE  Counting'
<1>1. /\ syncer'.pc = "failed" /\ syncer'.tickets = syncer.tickets
      /\ syncer'.deals = syncer.deals /\ syncer'.decision = syncer.decision
      /\ syncer'.complete = syncer.complete /\ syncer'.posts = syncer.posts
  BY DEF IInv, Shape, SyncerShape
<1>2. \A i \in Ids : order[i].absent \in Nat
  BY DEF IInv, Shape, DbShape
<1>3. syncer.posts \in Nat
  BY BoundsAssumption DEF RInv, PostsShape
<1>4. ClosedUnseen'
  BY <1>1 DEF FInv, ClosedUnseen, Unseen, Filled, AnyRow, Entry, Exit
<1>5. AbsentCounted'
  BY <1>1, <1>2, <1>3 DEF FInv, AbsentCounted, Unseen, Filled, AnyRow, Blind, RoundTripRead,
     Entry, Exit, Pending
<1>. QED BY <1>4, <1>5 DEF Counting

\* A deadlock aborts the runner, or the handler.
LEMMA AbortKeepsCounting ==
    ASSUME IInv, RInv, FInv, NEW i \in Ids, Abort(i)
    PROVE  Counting'
<1>1. UNCHANGED <<order, row, broker, acked>>
  BY DEF Abort, apiVars
<1>2. CASE UNCHANGED syncer
  BY <1>1, <1>2, QuietKeepsCounting DEF FInv, Counting, AnyRow
<1>3. CASE HandlerInserts(i) /\ syncer' = [syncer EXCEPT !.pc = "failed"]
  BY <1>1, <1>3, FailureKeepsCounting DEF HandlerInserts
<1>. QED BY <1>2, <1>3 DEF Abort

\* A position opens only while its order is young, and nothing has counted it.
LEMMA FillKeepsCounting ==
    ASSUME IInv, RInv, FInv, NEW i \in Ids, BrokerStep(i)
    PROVE  Counting'
<1>1. UNCHANGED <<order, row, age, syncer, acked>>
  BY DEF BrokerStep, ExecuteCall, LateFill, apiVars, syncVars
<1>2. late[i] \/ call[i] = "queued"
  BY DEF BrokerStep, ExecuteCall, LateFill
<1>3. broker' = broker \/ broker' = [broker EXCEPT ![i] = "open"]
  BY DEF BrokerStep, ExecuteCall, LateFill
<1>4. \A j \in Ids : broker'[j] = broker[j] \/ (j = i /\ broker'[j] = "open")
  BY <1>3 DEF IInv, Shape, BrokerShape
<1>5. broker[i] = "absent" /\ age[i] = 0 /\ order[i].absent = 0
  BY <1>2 DEF RInv, SentOnce, Filled, IInv, Shape, BrokerShape
<1>6. syncer.pc = "commit" => ~ syncer.decision[i].absent
  BY <1>5 DEF IInv, AbsentIsUnresolved
<1>7. syncer.posts \in Nat /\ MaxPosts \in Nat
  BY BoundsAssumption DEF RInv, PostsShape
<1>8. ClosedUnseen'
  BY <1>1, <1>4 DEF FInv, ClosedUnseen, Unseen, Filled, AnyRow, Entry, Exit
<1>9. AbsentCounted'
  BY <1>1, <1>4, <1>5, <1>6, <1>7 DEF FInv, AbsentCounted, Unseen, Filled, AnyRow, Blind,
     RoundTripRead, Entry, Exit, Pending
<1>. QED BY <1>8, <1>9 DEF Counting

\* A position that closes without ever having been seen has not been read by any
\* history pass either, so the next complete one brings both its deals.
LEMMA CloseKeepsCounting ==
    ASSUME IInv, RInv, FInv, ~ QuickRoundTrip, NEW i \in Ids, ClosePosition(i)
    PROVE  Counting'
<1>1. /\ UNCHANGED <<order, row, syncer, acked>>
      /\ broker[i] = "open"
      /\ AnyRow(i) \/ Entry(i) \notin syncer.deals \cup acked
  BY DEF ClosePosition, apiVars, syncVars, Entry
<1>2. broker'[i] = "closed" /\ \A j \in Ids : j # i => broker'[j] = broker[j]
  BY DEF ClosePosition, IInv, Shape, BrokerShape
<1>3. Exit(i) \notin acked
  BY <1>1 DEF RInv, DealsAreReal
<1>4. ClosedUnseen'
  BY <1>1, <1>2, <1>3 DEF FInv, ClosedUnseen, Unseen, Filled, AnyRow, Entry, Exit
<1>5. AbsentCounted'
  BY <1>1, <1>2 DEF FInv, AbsentCounted, Unseen, Filled, AnyRow, Blind, RoundTripRead,
     Entry, Exit, Pending
<1>. QED BY <1>4, <1>5 DEF Counting

\* A new cycle, or none: the snapshot holds every position that is open.
LEMMA CycleKeepsCounting ==
    ASSUME IInv, RInv, FInv, TakeSnapshot \/ ReceiveAnswer \/ GiveUpCycle \/ BridgeCrash
    PROVE  Counting'
<1>1. UNCHANGED <<row, order, broker>>
  BY DEF TakeSnapshot, ReceiveAnswer, GiveUpCycle, BridgeCrash, apiVars, brokerVars
<1>2. PICK step \in {"idle", "history"} :
         /\ syncer'.pc = step /\ ~ syncer'.complete
         /\ step # "idle" => syncer'.tickets = OpenAtBroker
  <2>1. CASE TakeSnapshot
    BY <2>1 DEF TakeSnapshot, IdleSyncer
  <2>2. CASE ReceiveAnswer \/ GiveUpCycle \/ BridgeCrash
    BY <2>2 DEF ReceiveAnswer, GiveUpCycle, BridgeCrash, IdleSyncer
  <2>. QED BY <2>1, <2>2
<1>3. \/ acked' \in {acked, {}}
      \/ /\ acked' = acked \cup syncer.deals
         /\ syncer.complete /\ syncer.pc = "answered"
  BY DEF TakeSnapshot, ReceiveAnswer, GiveUpCycle, BridgeCrash
<1>4. AbsentCounted'
  BY <1>1, <1>2 DEF FInv, AbsentCounted, Unseen, Filled, AnyRow, Blind, OpenAtBroker
<1>5. ASSUME NEW i \in Ids, Unseen(i), broker[i] = "closed"
      PROVE  Entry(i) \notin acked' /\ Exit(i) \notin acked'
  <2>1. Entry(i) \notin acked /\ Exit(i) \notin acked
    BY <1>5 DEF FInv, ClosedUnseen
  <2>2. syncer.complete /\ syncer.pc = "answered"
           => Entry(i) \notin syncer.deals /\ Exit(i) \notin syncer.deals
    BY <1>5, <2>1 DEF FInv, ClosedUnseen, RInv, AnsweredRows, DealsAreReal, RoundTripRead, Unseen
  <2>. QED BY <1>3, <2>1, <2>2
<1>6. ClosedUnseen'
  BY <1>1, <1>2, <1>5 DEF ClosedUnseen, Unseen, Filled, AnyRow, Entry, Exit
<1>. QED BY <1>4, <1>6 DEF Counting

\* A history pass is of what the broker has: both deals of a closed position.
LEMMA LoadDealsKeepsCounting ==
    ASSUME IInv, RInv, FInv, LoadDeals
    PROVE  Counting'
<1>1. \A i \in Ids : broker[i] = "closed" => Entry(i) \in DealsAtBroker /\ Exit(i) \in DealsAtBroker
  BY DEF DealsAtBroker, Deals, Entry, Exit
<1>2. ClosedUnseen'
  BY <1>1, LoadDealsEffect DEF FInv, ClosedUnseen, Unseen, Filled, AnyRow, Entry, Exit
<1>3. \A i \in Ids : Unseen(i) /\ Blind(i)' => Blind(i)
  <2>. SUFFICES ASSUME NEW i \in Ids, Unseen(i), Blind(i)'
                PROVE  Blind(i)
    OBVIOUS
  <2>1. i \notin syncer.tickets /\ syncer'.complete /\ ~ RoundTripRead(i)'
    BY LoadDealsEffect DEF Blind
  <2>2. broker[i] # "closed"
    BY <1>1, <2>1, LoadDealsEffect DEF FInv, ClosedUnseen, RoundTripRead, Entry, Exit
  <2>3. broker[i] = "open"
    BY <2>2 DEF Unseen, Filled, IInv, Shape, BrokerShape
  <2>. QED BY <2>1, <2>3, LoadDealsEffect DEF Blind
<1>4. AbsentCounted'
  BY <1>3, LoadDealsEffect DEF FInv, AbsentCounted, Unseen, Filled, AnyRow, Pending
<1>. QED BY <1>2, <1>4 DEF Counting

\* A read counts at most one absence for this post.
LEMMA HandlerReadKeepsCounting ==
    ASSUME IInv, RInv, FInv, HandlerRead
    PROVE  Counting'
<1>1. /\ syncer.posts \in Nat
      /\ \A i \in Ids : order[i].absent \in Nat
  BY BoundsAssumption DEF RInv, PostsShape, IInv, Shape, DbShape
<1>2. ClosedUnseen'
  BY HandlerReadEffect DEF FInv, ClosedUnseen, Unseen, Filled, AnyRow, Entry, Exit, apiVars,
     brokerVars
<1>3. AbsentCounted'
  BY <1>1, HandlerReadEffect DEF FInv, AbsentCounted, Unseen, Filled, AnyRow, Blind,
     RoundTripRead, Entry, Exit, Pending, apiVars, brokerVars
<1>. QED BY <1>2, <1>3 DEF Counting

\* A post that was counted already is repeated.
LEMMA PostAgainKeepsCounting ==
    ASSUME IInv, RInv, FInv, PostAgain
    PROVE  Counting'
<1>1. /\ syncer'.pc = "post" /\ syncer'.tickets = syncer.tickets
      /\ syncer'.deals = syncer.deals /\ syncer'.complete = syncer.complete
      /\ syncer'.posts = syncer.posts
      /\ syncer.pc \in {"answered", "failed"}
  BY DEF PostAgain, IInv, Shape, SyncerShape
<1>2. UNCHANGED <<row, order, broker, acked>>
  BY DEF PostAgain, apiVars, brokerVars
<1>3. ClosedUnseen'
  BY <1>1, <1>2 DEF FInv, ClosedUnseen, Unseen, Filled, AnyRow, Entry, Exit
<1>4. AbsentCounted'
  BY <1>1, <1>2 DEF FInv, AbsentCounted, Unseen, Filled, AnyRow, Blind, RoundTripRead,
     Entry, Exit, Pending
<1>. QED BY <1>3, <1>4 DEF Counting

\* A commit adds the absence that was decided.
LEMMA HandlerCommitKeepsCounting ==
    ASSUME IInv, RInv, FInv, MaxPosts < AbsentSyncs, HandlerCommit
    PROVE  Counting'
<1>1. syncer.pc = "commit" /\ UNCHANGED <<broker, acked>>
  BY DEF HandlerCommit, brokerVars
<1>2. CASE \E i \in Ids : HandlerInserts(i) /\ Ticketed(i)
  BY <1>1, <1>2, FailureKeepsCounting DEF HandlerCommit
<1>3. CASE ~ (\E i \in Ids : HandlerInserts(i) /\ Ticketed(i))
  <2>1. /\ syncer'.pc = "answered" /\ syncer'.posts = syncer.posts
        /\ syncer'.tickets = syncer.tickets /\ syncer'.deals = syncer.deals
        /\ syncer'.complete = syncer.complete
        /\ \A i \in Ids : order'[i] = NewOrder(i)
    BY <1>3, CommitEffect
  <2>2. \A i \in Ids : Unseen(i)' => Unseen(i)
    BY <1>1, <1>3, CommitMovesRows DEF Unseen, Filled
  <2>3. ClosedUnseen'
    BY <1>1, <2>1, <2>2 DEF FInv, ClosedUnseen, Entry, Exit
  <2>4. AbsentCounted'
    <3>. SUFFICES ASSUME NEW i \in Ids, Unseen(i)'
                  PROVE  /\ order'[i].absent <= MaxPosts
                         /\ Blind(i)' => order'[i].absent <= syncer.posts
      <4>1. \A i \in Ids : order'[i].absent \in Nat
        BY <2>1, NewOrderEffect DEF IInv
      <4>. QED BY <2>1, <4>1 DEF AbsentCounted, Pending
    <3>1. Unseen(i) /\ (Blind(i)' => Blind(i))
      BY <1>1, <2>1, <2>2 DEF Blind, RoundTripRead, Entry, Exit
    <3>2. /\ order[i].absent <= MaxPosts
          /\ Blind(i) => order[i].absent + Pending(syncer.decision[i].absent) <= syncer.posts
      BY <3>1 DEF FInv, AbsentCounted
    <3>3. /\ syncer.posts \in Nat /\ syncer.posts <= MaxPosts /\ MaxPosts \in Nat
          /\ order[i].absent \in Nat
      BY BoundsAssumption DEF RInv, PostsShape, IInv, Shape, DbShape
    <3>4. CASE ~ syncer.decision[i].absent
      BY <1>1, <2>1, <3>1, <3>2, <3>3, <3>4, NewOrderCount DEF Pending
    <3>5. CASE syncer.decision[i].absent
      <4>1. Blind(i)
        BY <1>1, <3>1, <3>5 DEF Blind, RInv, DecisionsHold, DecisionHolds
      <4>2. order[i].absent + 1 <= syncer.posts
        BY <1>1, <3>2, <3>5, <4>1 DEF Pending
      <4>3. ~ GivesUp(i)
        BY <1>1, <3>1, GivesUpUnfilled DEF NeverFills, Unseen
      <4>4. ~ syncer.decision[i].mark
        BY <1>1, <3>5 DEF RInv, DecisionsHold, DecisionHolds, Inserting
      <4>. QED BY <2>1, <3>3, <3>5, <4>2, <4>3, <4>4, NewOrderCount
    <3>. QED BY <3>4, <3>5
  <2>. QED BY <2>3, <2>4 DEF Counting
<1>. QED BY <1>2, <1>3

\* A crash forgets what the handler decided.
LEMMA ApiCrashKeepsCounting ==
    ASSUME IInv, RInv, FInv, ApiCrash
    PROVE  Counting'
<1>1. UNCHANGED <<order, row, broker, acked>>
  BY DEF ApiCrash, apiVars
<1>2. CASE syncer.pc = "commit"
  BY <1>1, <1>2, FailureKeepsCounting DEF ApiCrash
<1>3. CASE syncer.pc # "commit"
  BY <1>1, <1>3, QuietKeepsCounting DEF ApiCrash, FInv, Counting, AnyRow
<1>. QED BY <1>2, <1>3

\* FInv is inductive.
LEMMA NextKeepsFInv ==
    ASSUME IInv, RInv, FInv, MaxPosts < AbsentSyncs, ~ QuickRoundTrip, [Next]_vars
    PROVE  FInv'
<1>1. CASE UNCHANGED vars
  BY <1>1, QuietKeepsCounting DEF vars, FInv, Counting, FailedStays, NeverFills, Filled, AnyRow
<1>2. ASSUME NEW i \in Ids, \/ StartRun(i) \/ RunnerStep(i) \/ Abort(i) \/ Interrupted(i)
                             \/ BrokerStep(i) \/ ClosePosition(i)
                             \/ GracePasses(i) \/ AmbiguousTtlPasses(i)
      PROVE  Counting'
  BY <1>2, RunnerKeepsCounting, AbortKeepsCounting, FillKeepsCounting, CloseKeepsCounting
<1>3. CASE \/ TakeSnapshot \/ LoadDeals \/ HandlerStep \/ ReceiveAnswer \/ PostAgain
           \/ GiveUpCycle \/ ApiCrash \/ BridgeCrash
  <2>1. Counting'
    BY <1>3, CycleKeepsCounting, LoadDealsKeepsCounting, HandlerReadKeepsCounting,
       HandlerCommitKeepsCounting, PostAgainKeepsCounting, ApiCrashKeepsCounting
       DEF HandlerStep
  <2>. QED BY <2>1, NextKeepsFailed DEF FInv, Counting
<1>. QED BY <1>1, <1>2, <1>3, NextKeepsFailed DEF Next, FInv, Counting

\* FInv holds at first.
LEMMA InitFInv == Init => FInv
  BY DEF Init, FInv, ClosedUnseen, AbsentCounted, FailedStays, Unseen, Filled, NoOrder

(***************************************************************************)
(* An order is given up only if it never filled: one payload can miss a    *)
(* position that is there, it is posted MaxPosts times at most, and that   *)
(* is not enough to give the order up.  A position that closes between the *)
(* history pass and the next snapshot is excepted: it breaks the property  *)
(* (TorumOrders_v_roundtrip).                                              *)
(* An older position that is found in place of the new one has its row.    *)
(***************************************************************************)
THEOREM FailedIsUnfilled ==
    ASSUME OlderTicket # "any", MaxPosts < AbsentSyncs, ~ QuickRoundTrip
    PROVE  Spec => []FailedNeverFilled
<1>1. Init => IInv /\ RInv /\ FInv
  BY InitIInv, InitRInv, InitFInv
<1>2. IInv /\ RInv /\ FInv /\ [Next]_vars => (IInv /\ RInv /\ FInv)'
  BY NextKeeps, NextKeepsRows, NextKeepsFInv
<1>3. FInv => FailedNeverFilled
  BY DEF FInv, FailedStays, FailedNeverFilled, NeverFills
<1>. QED BY <1>1, <1>2, <1>3, PTL DEF Spec

-----------------------------------------------------------------------------
\* A position that is closed stays closed.
LEMMA ClosedAtBrokerStays ==
    ASSUME IInv, RInv, [Next]_vars, NEW i \in Ids, broker[i] = "closed"
    PROVE  broker'[i] = "closed"
<1>1. ASSUME NEW j \in Ids, BrokerStep(j)
      PROVE  broker'[i] = "closed"
  <2>1. i # j
    BY <1>1 DEF BrokerStep, ExecuteCall, LateFill, RInv, SentOnce, Filled
  <2>2. broker' = broker \/ broker' = [broker EXCEPT ![j] = "open"]
    BY <1>1 DEF BrokerStep, ExecuteCall, LateFill
  <2>. QED BY <2>1, <2>2 DEF IInv, Shape, BrokerShape
<1>2. ASSUME NEW j \in Ids, ClosePosition(j)
      PROVE  broker'[i] = "closed"
  BY <1>2 DEF ClosePosition, IInv, Shape, BrokerShape
<1>3. CASE UNCHANGED broker
  BY <1>3
<1>. QED BY <1>1, <1>2, <1>3 DEF Next, RunnerStep, HandlerStep, StartRun, CheckSetup,
            PlanOpenPositions, PlanPendingOrders, PlanReservedSignals, EvaluateRisk,
            CreateOrder, Validate, ReceiveReply, LoseReply, Settle, Abort, Interrupted,
            GracePasses, AmbiguousTtlPasses, TakeSnapshot, LoadDeals, HandlerRead,
            HandlerCommit, ReceiveAnswer, PostAgain, GiveUpCycle, ApiCrash, BridgeCrash,
            brokerVars, vars

\* The only decisions that close a row are a close deal and the last of several
\* absences, and one payload cannot bring that many about an open position.
LEMMA CommitClosesClosed ==
    ASSUME IInv, RInv, MaxPosts < Confirmations, ClosedMeansClosed, HandlerCommit,
           ~ (\E j \in Ids : HandlerInserts(j) /\ Ticketed(j)), NEW i \in Ids,
           row'[i].api = "CLOSED" \/ row'[i].sync = "CLOSED"
    PROVE  broker[i] = "closed"
<1>. DEFINE d == syncer.decision[i].row
<1>1. row'[i] = NewRow(row[i], d) /\ syncer.pc = "commit"
  BY CommitEffect
<1>2. row[i] \in Rows /\ d \in RowDecisions
  BY DEF RInv, RowShape, IInv, Shape, SyncerShape, Decisions, RowDecisions
<1>3. DecisionHolds(i, syncer.decision[i])
  BY <1>1 DEF RInv, DecisionsHold
<1>4. \/ row[i].api = "CLOSED" \/ row[i].sync = "CLOSED"
      \/ d \in {"close", "insertClosed"}
      \/ d = "missing" /\ row[i].missing + 1 >= Confirmations
  BY <1>1, <1>2, NewRowCount
<1>5. CASE row[i].api = "CLOSED" \/ row[i].sync = "CLOSED"
  BY <1>5 DEF ClosedMeansClosed
<1>6. CASE d \in {"close", "insertClosed"}
  BY <1>3, <1>6 DEF DecisionHolds, RInv, DealsAreReal
<1>7. CASE d = "missing" /\ row[i].missing + 1 >= Confirmations
  <2>1. i \notin syncer.tickets /\ Filled(i)
    BY <1>3, <1>7 DEF DecisionHolds
  <2>2. broker[i] = "open" => row[i].missing + 1 <= syncer.posts
    BY <1>1, <1>7, <2>1 DEF RInv, MissingCounted, Pending
  <2>3. syncer.posts \in 0 .. MaxPosts /\ row[i].missing \in Nat
    BY <1>2 DEF RInv, PostsShape, Rows
  <2>4. broker[i] # "open"
    BY <1>7, <2>2, <2>3, BoundsAssumption
  <2>. QED BY <2>1, <2>4 DEF Filled, IInv, Shape, BrokerShape
<1>. QED BY <1>4, <1>5, <1>6, <1>7

\* No step closes the row of an open position.
LEMMA NextKeepsClosed ==
    ASSUME IInv, RInv, MaxPosts < Confirmations, ClosedMeansClosed, [Next]_vars
    PROVE  ClosedMeansClosed'
<1>. SUFFICES ASSUME NEW i \in Ids, row'[i].api = "CLOSED" \/ row'[i].sync = "CLOSED"
              PROVE  broker[i] = "closed"
  BY ClosedAtBrokerStays DEF ClosedMeansClosed
<1>1. CASE HandlerCommit
  <2>1. CASE \E j \in Ids : HandlerInserts(j) /\ Ticketed(j)
    BY <1>1, <2>1 DEF HandlerCommit, ClosedMeansClosed
  <2>. QED BY <1>1, <2>1, CommitClosesClosed
<1>2. ASSUME NEW j \in Ids, ReceiveReply(j)
      PROVE  broker[i] = "closed"
  <2>1. \/ row' = row
        \/ \E t \in BOOLEAN : row' = [row EXCEPT ![j].api = "OPEN", ![j].ticketed = t]
        \/ \E k \in Ids : row' = [row EXCEPT ![k].sync = "OPEN"]
    BY <1>2 DEF ReceiveReply, Alike
  <2>2. row \in [Ids -> Rows]
    BY DEF RInv, RowShape
  <2>3. row[i].api = "CLOSED" \/ row[i].sync = "CLOSED"
    BY <2>1, <2>2 DEF Rows
  <2>. QED BY <2>3 DEF ClosedMeansClosed
<1>3. CASE UNCHANGED row
  BY <1>3 DEF ClosedMeansClosed
<1>. QED BY <1>1, <1>2, <1>3 DEF Next, RunnerStep, BrokerStep, HandlerStep, StartRun,
            CheckSetup, PlanOpenPositions, PlanPendingOrders, PlanReservedSignals,
            EvaluateRisk, CreateOrder, Validate, LoseReply, Settle, Abort, Interrupted,
            ExecuteCall, LateFill, ClosePosition, GracePasses, AmbiguousTtlPasses,
            TakeSnapshot, LoadDeals, HandlerRead, ReceiveAnswer, PostAgain, GiveUpCycle,
            ApiCrash, BridgeCrash, apiVars, vars

(***************************************************************************)
(* A row is CLOSED only after its position is: stale snapshots, repeated   *)
(* posts and crashes never close a live position, as long as one payload   *)
(* is posted less often than an absence has to be confirmed.               *)
(* An older position that is found in place of the new one has its row.    *)
(***************************************************************************)
THEOREM ClosedIsClosed ==
    ASSUME OlderTicket # "any", MaxPosts < Confirmations
    PROVE  Spec => []ClosedMeansClosed
<1>1. Init => IInv /\ RInv /\ ClosedMeansClosed
  <2>. SUFFICES ASSUME Init PROVE ClosedMeansClosed
    BY InitIInv, InitRInv
  <2>. QED BY DEF Init, ClosedMeansClosed, NoRow
<1>2. IInv /\ RInv /\ ClosedMeansClosed /\ [Next]_vars => (IInv /\ RInv /\ ClosedMeansClosed)'
  BY NextKeeps, NextKeepsRows, NextKeepsClosed
<1>. QED BY <1>1, <1>2, PTL DEF Spec

-----------------------------------------------------------------------------
(* One fill per setup.                                                     *)

\* An attempt whose signal protects no setup any more, or not yet, opens nothing.
UnprotectedNeverFills == \A i \in Ids : signal[i] \notin Protected => NeverFills(i)

\* The signal of an attempt on its way to the broker protects its setup until
\* the runner knows the result.
RunnerProtects ==
    /\ runner.pc \in {"sent", "created", "await", "settle"} => signal[runner.id] \in Protected
    /\ runner.pc = "settle" =>
          /\ runner.result \in {"EXECUTED", "REJECTED", "RECONCILING", "FAILED"}
          /\ runner.result \in {"REJECTED", "FAILED"} => NeverFills(runner.id)

\* Attempts start in the order of their ids, and the last one has the lock.
StartedInOrder ==
    /\ \A i, j \in Ids : i < j /\ signal[j] # "none" => signal[i] # "none"
    /\ \A j \in Ids : runner.pc # "idle" /\ signal[j] # "none" => j <= runner.id

\* Where the run is past its duplicate check and not yet finished.
Passing == {"plan", "planOrders", "planSignals", "approved", "sent", "created", "await", "settle"}
\* Attempt j is past the duplicate check.
Passed(j) == order[j].status # "none" \/ (runner.id = j /\ runner.pc \in Passing)

\* When an attempt passes its check, no earlier one of its setup can fill.
PassedExcludesEarlier ==
    \A i, j \in Ids : i < j /\ setup[i] = setup[j] /\ Passed(j) => NeverFills(i)

\* Which attempts protect their setup.
SInv == /\ UnprotectedNeverFills /\ RunnerProtects /\ StartedInOrder /\ PassedExcludesEarlier

\* Before its order call an attempt has nothing at the broker.
LEMMA UncalledNeverFills ==
    ASSUME IInv, NEW i \in Ids, runner.pc \in BeforeOrder \cup {"created"}, runner.id = i
    PROVE  NeverFills(i)
  BY DEF IInv, OrderFollowsRunner, NothingUnsent, NotSent, At, NeverFills, Filled

\* The steps that may write a signal, and what they write.
LEMMA SignalStep ==
    ASSUME IInv, RInv, [Next]_vars
    PROVE  \/ UNCHANGED signal
           \/ \E i \in Ids : /\ StartRun(i) \/ RunnerStep(i) \/ Interrupted(i)
                             /\ runner.pc = "idle" \/ runner.id = i
                             /\ \E s \in SignalStatus \ {"none"} : SetSignal(i, s)
           \/ HandlerCommit /\ \A i \in Ids : signal'[i] \in {signal[i], NewSignal(i)}
<1>1. ASSUME NEW i \in Ids, \/ StartRun(i) \/ CheckSetup(i) \/ PlanReservedSignals(i)
                             \/ EvaluateRisk(i) \/ Interrupted(i)
      PROVE  \/ UNCHANGED signal
             \/ /\ runner.pc = "idle" \/ runner.id = i
                /\ \E s \in SignalStatus \ {"none"} : SetSignal(i, s)
  BY <1>1 DEF StartRun, CheckSetup, PlanReservedSignals, EvaluateRisk, Interrupted, Reject,
     At, SignalStatus
<1>2. ASSUME NEW i \in Ids, Settle(i)
      PROVE  runner.id = i /\ \E s \in SignalStatus \ {"none"} : SetSignal(i, s)
  BY <1>2 DEF Settle, FinalStatus, At, SignalStatus
<1>3. CASE HandlerCommit
  BY <1>3 DEF HandlerCommit
<1>. QED BY <1>1, <1>2, <1>3 DEF Next, RunnerStep, BrokerStep, HandlerStep,
            PlanOpenPositions, PlanPendingOrders, CreateOrder, Validate, ReceiveReply,
            LoseReply, Abort, ExecuteCall, LateFill, ClosePosition, GracePasses,
            AmbiguousTtlPasses, TakeSnapshot, LoadDeals, HandlerRead, ReceiveAnswer,
            PostAgain, GiveUpCycle, ApiCrash, BridgeCrash, apiVars, vars

\* A setup loses its protection only when its attempt opens nothing any more.
LEMMA UnprotectedIsNew ==
    ASSUME IInv, RInv, FInv, SInv, MaxPosts < AbsentSyncs, [Next]_vars, NEW i \in Ids,
           signal'[i] \notin Protected
    PROVE  NeverFills(i) /\ ~ At("created", i)
<1>1. CASE signal[i] \notin Protected
  BY <1>1 DEF SInv, UnprotectedNeverFills, RunnerProtects, At
<1>2. CASE signal[i] \in Protected
  <2>1. ASSUME NEW j \in Ids, Reject(j), runner.pc \in BeforeOrder, runner.id = j
        PROVE  NeverFills(i) /\ ~ At("created", i)
    <3>1. i = j
      BY <1>2, <2>1, RejectEffect DEF IInv, Shape
    <3>. QED BY <2>1, <3>1, UncalledNeverFills DEF At, BeforeOrder
  <2>2. ASSUME NEW j \in Ids, StartRun(j)
        PROVE  FALSE
    <3>1. signal[j] = "none" /\ signal' = [signal EXCEPT ![j] = "GENERATED"]
      BY <2>2 DEF StartRun, SetSignal
    <3>. QED BY <1>2, <3>1 DEF Protected, IInv, Shape, DbShape
  <2>3. ASSUME NEW j \in Ids, CheckSetup(j) \/ PlanReservedSignals(j) \/ EvaluateRisk(j)
        PROVE  NeverFills(i) /\ ~ At("created", i)
    <3>1. runner.pc \in BeforeOrder /\ runner.id = j
      BY <2>3 DEF CheckSetup, PlanReservedSignals, EvaluateRisk, At, BeforeOrder
    <3>2. CASE Reject(j)
      BY <2>1, <3>1, <3>2
    <3>3. ASSUME NEW s \in Protected, SetSignal(j, s)
          PROVE  FALSE
      BY <1>2, <3>3 DEF SetSignal, IInv, Shape, DbShape
    <3>4. Reject(j) \/ UNCHANGED signal \/ \E s \in Protected : SetSignal(j, s)
      BY <2>3 DEF CheckSetup, PlanReservedSignals, EvaluateRisk, Protected
    <3>. QED BY <1>2, <3>2, <3>3, <3>4
  <2>4. ASSUME NEW j \in Ids, Settle(j)
        PROVE  NeverFills(i) /\ ~ At("created", i)
    <3>1. SetSignal(j, FinalStatus(runner.result)) /\ At("settle", j)
      BY <2>4 DEF Settle
    <3>2. i = j /\ FinalStatus(runner.result) \notin Protected
      BY <1>2, <3>1 DEF SetSignal, IInv, Shape, DbShape
    <3>. QED BY <3>1, <3>2 DEF SInv, RunnerProtects, FinalStatus, Protected, At
  <2>5. ASSUME NEW j \in Ids, Interrupted(j)
        PROVE  NeverFills(i) /\ ~ At("created", i)
    <3>1. \/ At("approved", j) /\ SetSignal(j, "ORDER_FAILED")
          \/ SetSignal(j, "ORDER_RECONCILING")
      BY <2>5 DEF Interrupted
    <3>2. At("approved", j) /\ i = j
      BY <1>2, <3>1 DEF SetSignal, Protected, IInv, Shape, DbShape
    <3>. QED BY <3>2, UncalledNeverFills DEF At, BeforeOrder
  <2>6. CASE HandlerCommit
    <3>1. signal'[i] \in {signal[i], NewSignal(i)} /\ syncer.pc = "commit"
      BY <2>6 DEF HandlerCommit
    <3>2. GivesUp(i)
      BY <1>2, <3>1 DEF NewSignal, Protected
    <3>. QED BY <3>1, <3>2, GivesUpUnfilled DEF GivesUp, IInv, AbsentIsUnresolved, OldIsDone, At
  <2>7. CASE UNCHANGED signal
    BY <1>2, <2>7
  <2>. QED BY <2>2, <2>3, <2>4, <2>5, <2>6, <2>7, SignalStep DEF RunnerStep,
              PlanOpenPositions, PlanPendingOrders, CreateOrder, Validate, ReceiveReply,
              LoseReply, apiVars
<1>. QED BY <1>1, <1>2

\* Where the runner is after a step, and which attempt it holds.
LEMMA RunnerMoves ==
    ASSUME IInv, [Next]_vars
    PROVE  \/ UNCHANGED runner
           \/ runner'.pc = "idle" /\ runner'.id = 0
           \/ \E i \in Ids : StartRun(i) /\ runner'.pc = "generated" /\ runner'.id = i
           \/ \E i \in Ids : /\ RunnerStep(i) /\ runner.id = i /\ runner'.id = i
                             /\ runner.pc # "idle" /\ runner'.pc # "idle"
<1>1. ASSUME NEW i \in Ids, NEW step \in Steps, runner' = [IdleRunner EXCEPT !.pc = step, !.id = i]
      PROVE  runner'.pc = step /\ runner'.id = i
  BY <1>1 DEF IdleRunner
<1>2. ASSUME NEW i \in Ids, RunnerStep(i)
      PROVE  \/ runner' = IdleRunner
             \/ runner'.id = i /\ runner.id = i /\ runner.pc # "idle" /\ runner'.pc # "idle"
  <2>1. runner.id = i /\ runner.pc # "idle"
    BY <1>2 DEF RunnerStep, CheckSetup, PlanOpenPositions, PlanPendingOrders,
       PlanReservedSignals, EvaluateRisk, CreateOrder, Validate, ReceiveReply, LoseReply,
       Settle, At
  <2>2. CASE PlanOpenPositions(i) \/ PlanPendingOrders(i)
    BY <2>1, <2>2 DEF PlanOpenPositions, PlanPendingOrders, IInv, Shape, RunnerShape
  <2>3. CASE PlanReservedSignals(i)
    BY <1>1, <2>1, <2>3 DEF PlanReservedSignals, Reject, Steps
  <2>4. CASE CheckSetup(i) \/ EvaluateRisk(i) \/ CreateOrder(i) \/ Settle(i)
    <3>1. runner' = IdleRunner \/ \E step \in Steps \ {"idle"} : Goto(step)
      BY <2>4 DEF CheckSetup, EvaluateRisk, CreateOrder, Settle, Reject, Steps
    <3>. QED BY <2>1, <3>1, GotoEffect DEF IInv, Shape
  <2>5. CASE Validate(i) \/ ReceiveReply(i) \/ LoseReply(i)
    <3>1. Goto("await") \/ \E status \in OrderStatus : Return(i, status)
      BY <2>5 DEF Validate, ReceiveReply, LoseReply, OrderStatus
    <3>. QED BY <2>1, <3>1, GotoEffect, ReturnEffect DEF IInv, Shape, Steps
  <2>. QED BY <1>2, <2>2, <2>3, <2>4, <2>5 DEF RunnerStep
<1>3. ASSUME NEW i \in Ids, StartRun(i)
      PROVE  runner'.pc = "generated" /\ runner'.id = i
  BY <1>1, <1>3 DEF StartRun, Steps
<1>4. runner' = IdleRunner => runner'.pc = "idle" /\ runner'.id = 0
  BY DEF IdleRunner
<1>5. CASE \E i \in Ids : StartRun(i) \/ RunnerStep(i)
  BY <1>2, <1>3, <1>4, <1>5
<1>6. CASE runner' \in {runner, IdleRunner}
  BY <1>4, <1>6
<1>. QED BY <1>5, <1>6 DEF Next, BrokerStep, HandlerStep, Abort, Interrupted, ExecuteCall,
            LateFill, ClosePosition, GracePasses, AmbiguousTtlPasses, TakeSnapshot,
            LoadDeals, HandlerRead, HandlerCommit, ReceiveAnswer, PostAgain, GiveUpCycle,
            ApiCrash, BridgeCrash, vars

\* Attempts start in the order of their numbers.
LEMMA StartedStays ==
    ASSUME IInv, RInv, StartedInOrder, [Next]_vars
    PROVE  StartedInOrder'
<1>1. \A i \in Ids : signal[i] # "none" => signal'[i] # "none"
  <2>1. ASSUME NEW j \in Ids, NEW s \in SignalStatus \ {"none"}, SetSignal(j, s)
        PROVE  \A i \in Ids : signal[i] # "none" => signal'[i] # "none"
    BY <2>1, SetSignalType DEF IInv, Shape
  <2>2. \A i \in Ids : NewSignal(i) \in {signal[i], "ORDER_EXECUTED", "ORDER_FAILED"}
    BY DEF NewSignal
  <2>. QED BY <2>1, <2>2, SignalStep
<1>2. \A i \in Ids : signal'[i] # "none" => signal[i] # "none" \/ StartRun(i)
  <2>1. ASSUME NEW j \in Ids, RunnerStep(j) \/ Interrupted(j), runner.pc = "idle" \/ runner.id = j,
               NEW s \in SignalStatus \ {"none"}, SetSignal(j, s)
        PROVE  \A i \in Ids : signal'[i] # "none" => signal[i] # "none"
    <3>1. signal[j] # "none"
      BY <2>1 DEF RunnerStep, CheckSetup, PlanOpenPositions, PlanPendingOrders,
         PlanReservedSignals, EvaluateRisk, CreateOrder, Validate, ReceiveReply, LoseReply,
         Settle, Interrupted, At, IInv, OrderFollowsRunner
    <3>. QED BY <2>1, <3>1, SetSignalType DEF IInv, Shape
  <2>2. ASSUME NEW j \in Ids, StartRun(j), NEW s \in SignalStatus \ {"none"}, SetSignal(j, s)
        PROVE  \A i \in Ids : signal'[i] # "none" => signal[i] # "none" \/ StartRun(i)
    BY <2>2, SetSignalType DEF IInv, Shape
  <2>3. CASE HandlerCommit
    <3>1. \A i \in Ids : signal[i] = "none" => NewSignal(i) = "none"
      BY <2>3 DEF HandlerCommit, NewSignal, GivesUp, IInv, EvidenceIsReal, NothingUnsent,
         NotSent, Filled, OrderFollowsRunner
    <3>. QED BY <2>3, <3>1 DEF HandlerCommit
  <2>. QED BY <2>1, <2>2, <2>3, SignalStep
<1>3. \A i, j \in Ids : i < j /\ signal'[j] # "none" => signal'[i] # "none"
  BY <1>1, <1>2 DEF StartedInOrder, StartRun
<1>4. \A j \in Ids : runner'.pc # "idle" /\ signal'[j] # "none" => j <= runner'.id
  <2>1. ASSUME NEW i \in Ids, StartRun(i)
        PROVE  \A j \in Ids : signal'[j] # "none" => j <= i
    <3>1. \A j \in Ids : signal[j] # "none" => j < i
      BY <2>1 DEF StartRun, StartedInOrder, Ids
    <3>2. \A j \in Ids : StartRun(j) => ~ (i < j)
      BY <2>1 DEF StartRun
    <3>. QED BY <1>2, <3>1, <3>2 DEF Ids
  <2>2. ASSUME runner.pc # "idle", runner'.id = runner.id
        PROVE  \A j \in Ids : signal'[j] # "none" => j <= runner.id
    BY <1>2, <2>2 DEF StartRun, StartedInOrder
  <2>3. UNCHANGED runner => runner'.pc = "idle" \/ (runner.pc # "idle" /\ runner'.id = runner.id)
    OBVIOUS
  <2>. QED BY <2>1, <2>2, <2>3, RunnerMoves
<1>. QED BY <1>3, <1>4 DEF StartedInOrder

\* The run that is under way protects the setup of its attempt.
LEMMA ProtectionStays ==
    ASSUME IInv, RInv, FInv, SInv, MaxPosts < AbsentSyncs, [Next]_vars
    PROVE  RunnerProtects'
<1>1. CASE runner'.pc \in {"idle", "generated"}
  BY <1>1 DEF RunnerProtects
<1>2. CASE UNCHANGED runner /\ runner.pc \in {"sent", "created", "await", "settle"}
  <2>1. PICK i \in Ids : i = runner.id /\ signal[i] \in Protected
    BY <1>2 DEF IInv, OrderFollowsRunner, SInv, RunnerProtects
  <2>2. signal'[i] \in Protected
    <3>1. ~ (\E j \in Ids : StartRun(j) \/ RunnerStep(j) \/ Interrupted(j)) \/ UNCHANGED signal
      <4>1. ASSUME NEW j \in Ids, StartRun(j) PROVE FALSE
        BY <1>2, <4>1 DEF StartRun
      <4>2. ASSUME NEW j \in Ids, Interrupted(j) PROVE FALSE
        BY <1>2, <4>2 DEF Interrupted, IdleRunner
      <4>3. ASSUME NEW j \in Ids, RunnerStep(j) PROVE UNCHANGED signal
        BY <1>2, <4>3, RejectEffect DEF RunnerStep, CheckSetup, PlanOpenPositions,
           PlanPendingOrders, PlanReservedSignals, EvaluateRisk, CreateOrder, Validate,
           ReceiveReply, LoseReply, Settle, IdleRunner, Goto, At, apiVars
      <4>. QED BY <4>1, <4>2, <4>3
    <3>2. HandlerCommit => NewSignal(i) \in Protected
      <4>. SUFFICES ASSUME HandlerCommit PROVE NewSignal(i) \in Protected
        OBVIOUS
      <4>1. syncer.pc = "commit"
        BY DEF HandlerCommit
      <4>2. ~ syncer.decision[i].absent
        BY <2>1, <4>1 DEF IInv, AbsentIsUnresolved, OldIsDone
      <4>. QED BY <2>1, <4>2 DEF NewSignal, GivesUp, Protected
    <3>. QED BY <2>1, <3>1, <3>2, SignalStep
  <2>3. NeverFills(i) /\ runner.pc = "settle" => NeverFills(i)'
    BY <2>1, NeverFillsStays DEF At
  <2>. QED BY <1>2, <2>1, <2>2, <2>3 DEF SInv, RunnerProtects, NeverFills, Filled
<1>3. CASE UNCHANGED runner /\ runner.pc \notin {"sent", "created", "await", "settle"}
  BY <1>3 DEF RunnerProtects
<1>4. ASSUME NEW j \in Ids, RunnerStep(j), runner'.pc \notin {"idle", "generated"}
      PROVE  RunnerProtects'
  <2>1. CASE CheckSetup(j) \/ PlanOpenPositions(j) \/ PlanPendingOrders(j) \/ PlanReservedSignals(j)
    <3>1. runner'.pc \in {"idle", "plan", "planOrders", "planSignals", "approved"}
      <4>1. CASE CheckSetup(j)
        BY <4>1, GotoEffect DEF CheckSetup, Reject, IdleRunner, IInv, Shape, Steps
      <4>2. CASE PlanOpenPositions(j) \/ PlanPendingOrders(j)
        BY <4>2 DEF PlanOpenPositions, PlanPendingOrders, IInv, Shape, RunnerShape
      <4>3. CASE PlanReservedSignals(j)
        <5>1. \/ runner' = IdleRunner
              \/ runner' = [IdleRunner EXCEPT !.pc = "approved", !.id = j]
          BY <4>3 DEF PlanReservedSignals, Reject
        <5>2. CASE runner' = IdleRunner
          BY <5>2 DEF IdleRunner
        <5>3. CASE runner' = [IdleRunner EXCEPT !.pc = "approved", !.id = j]
          <6>1. runner'.pc = "approved"
            BY <5>3 DEF IdleRunner
          <6>. QED BY <6>1
        <5>. QED BY <5>1, <5>2, <5>3
      <4>. QED BY <2>1, <4>1, <4>2, <4>3
    <3>. QED BY <3>1 DEF RunnerProtects
  <2>2. CASE EvaluateRisk(j)
    <3>1. SetSignal(j, "SENT_TO_ORDER_MANAGER") /\ Goto("sent") /\ runner.id = j
      BY <1>4, <2>2 DEF EvaluateRisk, Reject, IdleRunner, At
    <3>2. runner'.pc = "sent" /\ runner'.id = j
      BY <3>1, GotoEffect DEF IInv, Shape, Steps
    <3>3. signal'[j] = "SENT_TO_ORDER_MANAGER"
      BY <3>1 DEF SetSignal, IInv, Shape, DbShape
    <3>. QED BY <3>2, <3>3 DEF RunnerProtects, Protected
  <2>3. CASE CreateOrder(j) \/ (Validate(j) /\ Goto("await"))
    <3>1. /\ runner.pc \in {"sent", "created"} /\ runner.id = j /\ UNCHANGED signal
          /\ runner'.pc \in {"created", "await"} /\ runner'.id = j
      BY <2>3, GotoEffect DEF CreateOrder, Validate, At, IInv, Shape, Steps
    <3>. QED BY <3>1 DEF SInv, RunnerProtects
  <2>4. ASSUME NEW status \in {"EXECUTED", "REJECTED", "RECONCILING", "FAILED"}, Return(j, status),
               status \in {"REJECTED", "FAILED"} => NeverFills(j),
               runner.pc \in {"created", "await"}, runner.id = j, UNCHANGED signal,
               NeverFills(j) => NeverFills(j)'
        PROVE  RunnerProtects'
    <3>1. runner'.pc = "settle" /\ runner'.id = j /\ runner'.result = status
      BY <2>4, ReturnEffect DEF IInv, Shape, OrderStatus
    <3>2. signal'[j] \in Protected
      BY <2>4 DEF SInv, RunnerProtects
    <3>3. status \in {"REJECTED", "FAILED"} => NeverFills(j)'
      BY <2>4
    <3>. QED BY <3>1, <3>2, <3>3 DEF RunnerProtects, NeverFills, Filled
  <2>5. CASE Validate(j) /\ Return(j, "REJECTED") /\ UNCHANGED call
    <3>1. At("created", j) /\ UNCHANGED <<signal, broker, late, call>>
      BY <2>5 DEF Validate
    <3>2. NeverFills(j)
      BY <3>1, UncalledNeverFills DEF At
    <3>. QED BY <2>4, <2>5, <3>1, <3>2 DEF At, NeverFills, Filled
  <2>6. CASE ReceiveReply(j) \/ LoseReply(j)
    <3>1. At("await", j) /\ UNCHANGED signal
      BY <2>6 DEF ReceiveReply, LoseReply
    <3>2. PICK status \in {"EXECUTED", "FAILED", "RECONCILING"} :
             Return(j, status) /\ (status = "FAILED" => call[j] = "rejected")
      BY <2>6 DEF ReceiveReply, LoseReply
    <3>3. status = "FAILED" => NeverFills(j)
      BY <3>2 DEF RInv, SentOnce
    <3>4. NeverFills(j) => NeverFills(j)'
      BY <3>1, NeverFillsStays DEF At
    <3>. QED BY <2>4, <3>1, <3>2, <3>3, <3>4 DEF At
  <2>7. CASE Settle(j)
    BY <1>4, <2>7 DEF Settle, IdleRunner
  <2>. QED BY <1>4, <2>1, <2>2, <2>3, <2>5, <2>6, <2>7 DEF RunnerStep, Validate
<1>. QED BY <1>1, <1>2, <1>3, <1>4, RunnerMoves

\* Nobody passes the duplicate check but by checking.
LEMMA PassedIsNew ==
    ASSUME IInv, RInv, [Next]_vars, NEW j \in Ids, Passed(j)'
    PROVE  Passed(j) \/ (At("generated", j) /\ ~ DuplicateSetup(j))
<1>1. CASE order'[j].status # "none" /\ order[j].status = "none"
  <2>1. ASSUME NEW k \in Ids, CreateOrder(k) \/ Validate(k) \/ ReceiveReply(k) \/ LoseReply(k)
                              \/ Interrupted(k)
        PROVE  Passed(j)
    <3>1. runner.id = k
      BY <2>1 DEF CreateOrder, Validate, ReceiveReply, LoseReply, Interrupted, At
    <3>2. \E status \in OrderStatus : \/ UNCHANGED order
                                      \/ order' = [order EXCEPT ![k].status = status]
                                      \/ Return(k, status)
      BY <2>1 DEF CreateOrder, Validate, ReceiveReply, LoseReply, Interrupted, OrderStatus
    <3>3. k = j
      <4>1. PICK status \in OrderStatus : \/ UNCHANGED order
                                          \/ order' = [order EXCEPT ![k].status = status]
                                          \/ Return(k, status)
        BY <3>2
      <4>2. \A i \in Ids : i # k => order'[i] = order[i]
        BY <4>1, SetStatusEffect, ReturnEffect DEF IInv, Shape
      <4>. QED BY <1>1, <4>2
    <3>4. runner.pc \in Passing
      BY <2>1 DEF CreateOrder, Validate, ReceiveReply, LoseReply, Interrupted, At, Passing
    <3>. QED BY <3>1, <3>3, <3>4 DEF Passed
  <2>2. CASE HandlerCommit
    <3>1. order'[j] = NewOrder(j) /\ syncer.pc = "commit"
      BY <1>1, <2>2 DEF HandlerCommit
    <3>2. ~ syncer.decision[j].mark /\ ~ syncer.decision[j].absent
      BY <1>1, <3>1 DEF IInv, EvidenceIsReal, NothingUnsent, NotSent, Filled, AbsentIsUnresolved
    <3>3. NewOrder(j) = order[j]
      BY <3>2, NewOrderEffect DEF IInv
    <3>. QED BY <1>1, <3>1, <3>3
  <2>3. CASE UNCHANGED order
    BY <1>1, <2>3
  <2>. QED BY <2>1, <2>2, <2>3 DEF Next, RunnerStep, BrokerStep, HandlerStep, StartRun,
            CheckSetup, PlanOpenPositions, PlanPendingOrders, PlanReservedSignals,
            EvaluateRisk, Settle, Abort, ExecuteCall, LateFill, ClosePosition,
            GracePasses, AmbiguousTtlPasses, TakeSnapshot, LoadDeals, HandlerRead,
            ReceiveAnswer, PostAgain, GiveUpCycle, ApiCrash, BridgeCrash, apiVars, vars
<1>2. CASE runner'.id = j /\ runner'.pc \in Passing
  <2>1. CASE UNCHANGED runner
    BY <1>2, <2>1 DEF Passed
  <2>2. ASSUME NEW i \in Ids, RunnerStep(i), runner.id = i, runner'.id = i, runner.pc # "idle"
        PROVE  Passed(j) \/ (At("generated", j) /\ ~ DuplicateSetup(j))
    <3>1. i = j
      BY <1>2, <2>2
    <3>2. CASE runner.pc \in Passing
      BY <1>2, <2>2, <3>1, <3>2 DEF Passed
    <3>3. CASE runner.pc = "generated"
      BY <1>2, <2>2, <3>1, <3>3 DEF RunnerStep, CheckSetup, Reject, IdleRunner, Passing,
         PlanOpenPositions, PlanPendingOrders, PlanReservedSignals, EvaluateRisk,
         CreateOrder, Validate, ReceiveReply, LoseReply, Settle, At
    <3>. QED BY <2>2, <3>2, <3>3 DEF Passing, IInv, Shape, RunnerShape, Steps
  <2>. QED BY <1>2, <2>1, <2>2, RunnerMoves DEF Passing
<1>3. CASE order[j].status # "none"
  BY <1>3 DEF Passed
<1>. QED BY <1>1, <1>2, <1>3 DEF Passed

\* An earlier attempt that could not fill still cannot.
LEMMA PassedStaysExclusive ==
    ASSUME IInv, RInv, FInv, SInv, [Next]_vars
    PROVE  PassedExcludesEarlier'
<1>1. UNCHANGED setup
  BY DEF Next, RunnerStep, BrokerStep, HandlerStep, StartRun, CheckSetup, PlanOpenPositions,
     PlanPendingOrders, PlanReservedSignals, EvaluateRisk, CreateOrder, Validate,
     ReceiveReply, LoseReply, Settle, Abort, Interrupted, ExecuteCall, LateFill,
     ClosePosition, GracePasses, AmbiguousTtlPasses, TakeSnapshot, LoadDeals, HandlerRead,
     HandlerCommit, ReceiveAnswer, PostAgain, GiveUpCycle, ApiCrash, BridgeCrash, apiVars, vars
<1>. SUFFICES ASSUME NEW i \in Ids, NEW j \in Ids, i < j, setup[i] = setup[j], Passed(j)'
              PROVE  NeverFills(i)'
  BY <1>1 DEF PassedExcludesEarlier
<1>2. Passed(j) \/ (At("generated", j) /\ ~ DuplicateSetup(j))
  BY PassedIsNew
<1>3. NeverFills(i)
  <2>1. CASE Passed(j)
    BY <2>1 DEF SInv, PassedExcludesEarlier
  <2>2. CASE At("generated", j) /\ ~ DuplicateSetup(j)
    BY <2>2 DEF DuplicateSetup, SInv, UnprotectedNeverFills
  <2>. QED BY <1>2, <2>1, <2>2
<1>4. ~ At("created", i)
  <2>. SUFFICES ASSUME At("created", i) PROVE FALSE
    OBVIOUS
  <2>1. order[j].status # "none"
    BY <1>2 DEF Passed, At, Ids
  <2>2. signal[j] # "none"
    BY <2>1 DEF IInv, OrderFollowsRunner
  <2>. QED BY <2>2 DEF At, SInv, StartedInOrder, Ids
<1>. QED BY <1>3, <1>4, NeverFillsStays

\* SInv is inductive.
LEMMA NextKeepsSInv ==
    ASSUME IInv, RInv, FInv, SInv, MaxPosts < AbsentSyncs, [Next]_vars
    PROVE  SInv'
<1>1. UnprotectedNeverFills'
  BY UnprotectedIsNew, NeverFillsStays DEF UnprotectedNeverFills
<1>2. StartedInOrder'
  BY StartedStays DEF SInv
<1>. QED BY <1>1, <1>2, ProtectionStays, PassedStaysExclusive DEF SInv

\* SInv holds at first.
LEMMA InitSInv == Init => SInv
  BY DEF Init, SInv, UnprotectedNeverFills, RunnerProtects, StartedInOrder,
     PassedExcludesEarlier, Passed, Passing, NeverFills, Filled, NoOrder, IdleRunner

(***************************************************************************)
(* One technical setup buys once, for any number of attempts: an attempt   *)
(* releases its setup only when nothing at the broker can fill it any more,*)
(* whatever was lost, retried or interrupted on the way.                   *)
(* An older position that is found in place of the new one has its row.    *)
(***************************************************************************)
THEOREM SetupBuysOnce ==
    ASSUME OlderTicket # "any", MaxPosts < AbsentSyncs, ~ QuickRoundTrip
    PROVE  Spec => []OneFillPerSetup
<1>1. Init => IInv /\ RInv /\ FInv /\ SInv
  BY InitIInv, InitRInv, InitFInv, InitSInv
<1>2. IInv /\ RInv /\ FInv /\ SInv /\ [Next]_vars => (IInv /\ RInv /\ FInv /\ SInv)'
  BY NextKeeps, NextKeepsRows, NextKeepsFInv, NextKeepsSInv
<1>3. IInv /\ SInv => OneFillPerSetup
  <2>. SUFFICES ASSUME IInv, SInv, NEW i \in Ids, NEW j \in Ids, i < j, setup[i] = setup[j],
                       Filled(i), Filled(j)
                PROVE  FALSE
    BY DEF OneFillPerSetup, Ids
  <2>1. Passed(j)
    BY DEF IInv, NothingUnsent, NotSent, Filled, Passed
  <2>. QED BY <2>1 DEF SInv, PassedExcludesEarlier, NeverFills
<1>. QED BY <1>1, <1>2, <1>3, PTL DEF Spec

-----------------------------------------------------------------------------
(* One open row per position.                                              *)

\* Every position the broker reports filled is shown at once, so the order
\* manager never inserts a row without its ticket, and never a second one.
OInv ==
    \A i \in Ids : /\ call[i] # "filledNoTicket"
                   /\ row[i].api # "none" => row[i].ticketed /\ row[i].sync = "none"

\* A commit inserts no row beside the one that has the ticket.
LEMMA CommitKeepsOneRow ==
    ASSUME IInv, RInv, OInv, HandlerCommit, ~ (\E j \in Ids : HandlerInserts(j) /\ Ticketed(j)),
           NEW i \in Ids, row'[i].api # "none"
    PROVE  row'[i].ticketed /\ row'[i].sync = "none"
<1>. DEFINE d == syncer.decision[i].row
<1>1. row'[i] = NewRow(row[i], d) /\ syncer.pc = "commit"
  BY CommitEffect
<1>2. row[i] \in Rows /\ d \in RowDecisions
  BY DEF RInv, RowShape, IInv, Shape, SyncerShape, Decisions, RowDecisions
<1>3. DecisionHolds(i, syncer.decision[i])
  BY <1>1 DEF RInv, DecisionsHold
<1>4. row[i].api # "none" => row[i].ticketed /\ row[i].sync = "none"
  BY DEF OInv
<1>5. CASE d \in {"insert", "insertClosed"}
  <2>1. ~ Ticketed(i)
    BY <1>1, <1>5 DEF HandlerInserts
  <2>2. row[i].api # "none"
    BY <1>1, <1>2, <1>5, NewRowEffect
  <2>. QED BY <1>4, <2>1, <2>2 DEF Ticketed
<1>6. CASE d = "link"
  <2>1. row'[i].sync = row[i].sync /\ row[i].api # "none"
    BY <1>1, <1>2, <1>3, <1>6, NewRowEffect DEF DecisionHolds
  <2>. QED BY <1>1, <1>2, <1>4, <2>1, NewRowEffect
<1>7. CASE d \in {"refresh", "close", "missing"}
  <2>1. row[i].sync # "none" => row'[i].api = row[i].api
    BY <1>1, <1>2, <1>7, NewRowEffect
  <2>2. row[i].sync = "none" /\ row[i].ticketed
    BY <1>3, <1>4, <1>7, <2>1 DEF DecisionHolds, Ticketed
  <2>. QED BY <1>1, <1>2, <1>7, <2>2, NewRowEffect
<1>8. CASE d = "none"
  BY <1>1, <1>2, <1>4, <1>8, NewRowEffect
<1>. QED BY <1>2, <1>5, <1>6, <1>7, <1>8 DEF RowDecisions

\* OInv is inductive.
LEMMA NextKeepsOneRow ==
    ASSUME IInv, RInv, OInv, OlderTicket # "any", ~ TicketLag, [Next]_vars
    PROVE  OInv'
<1>1. \A i \in Ids : call'[i] # "filledNoTicket"
  <2>1. ASSUME NEW j \in Ids, NEW r \in CallState \ {"filledNoTicket"}, call' = [call EXCEPT ![j] = r]
        PROVE  \A i \in Ids : call'[i] # "filledNoTicket"
    BY <2>1 DEF OInv, IInv, Shape, BrokerShape
  <2>2. ASSUME NEW j \in Ids, \/ Validate(j) \/ ReceiveReply(j) \/ Abort(j)
                               \/ Interrupted(j) \/ ExecuteCall(j)
        PROVE  \/ UNCHANGED call
               \/ \E r \in CallState \ {"filledNoTicket"} : call' = [call EXCEPT ![j] = r]
    BY <2>2 DEF Validate, ReceiveReply, Abort, Interrupted, ExecuteCall, Reply, CallState
  <2>3. ASSUME NEW j \in Ids, LoseReply(j)
        PROVE  \E r \in CallState \ {"filledNoTicket"} : call' = [call EXCEPT ![j] = r]
    <3>1. call' = [call EXCEPT ![j] = IF call[j] = "queued" THEN call[j] ELSE "none"]
      BY <2>3 DEF LoseReply
    <3>2. CASE call[j] = "queued"
      BY <3>1, <3>2 DEF CallState
    <3>3. CASE call[j] # "queued"
      BY <3>1, <3>3 DEF CallState
    <3>. QED BY <3>2, <3>3
  <2>4. CASE ApiCrash \/ BridgeCrash
    BY <2>4 DEF ApiCrash, BridgeCrash, OInv
  <2>5. CASE UNCHANGED call
    BY <2>5 DEF OInv
  <2>. QED BY <2>1, <2>2, <2>3, <2>4, <2>5 DEF Next, RunnerStep, BrokerStep, HandlerStep,
              StartRun, CheckSetup, PlanOpenPositions, PlanPendingOrders,
              PlanReservedSignals, EvaluateRisk, CreateOrder, Settle, LateFill,
              ClosePosition, GracePasses, AmbiguousTtlPasses, TakeSnapshot, LoadDeals,
              HandlerRead, HandlerCommit, ReceiveAnswer, PostAgain, GiveUpCycle,
              brokerVars, vars
<1>2. \A i \in Ids : row'[i].api # "none" => row'[i].ticketed /\ row'[i].sync = "none"
  <2>1. CASE HandlerCommit
    <3>1. CASE \E j \in Ids : HandlerInserts(j) /\ Ticketed(j)
      BY <2>1, <3>1 DEF HandlerCommit, OInv
    <3>. QED BY <2>1, <3>1, CommitKeepsOneRow
  <2>2. ASSUME NEW j \in Ids, ReceiveReply(j)
        PROVE  \A i \in Ids : row'[i].api # "none" => row'[i].ticketed /\ row'[i].sync = "none"
    <3>1. ~ AnyRow(j)
      BY <2>2 DEF ReceiveReply, RInv, RowsAreReal
    <3>2. \/ row' = row
          \/ row' = [row EXCEPT ![j].api = "OPEN", ![j].ticketed = TRUE]
      BY <2>2 DEF ReceiveReply, OInv
    <3>3. row \in [Ids -> Rows]
      BY DEF RInv, RowShape
    <3>. QED BY <3>1, <3>2, <3>3 DEF OInv, AnyRow, Rows
  <2>3. CASE UNCHANGED row
    BY <2>3 DEF OInv
  <2>. QED BY <2>1, <2>2, <2>3 DEF Next, RunnerStep, BrokerStep, HandlerStep, StartRun,
            CheckSetup, PlanOpenPositions, PlanPendingOrders, PlanReservedSignals,
            EvaluateRisk, CreateOrder, Validate, LoseReply, Settle, Abort, Interrupted,
            ExecuteCall, LateFill, ClosePosition, GracePasses, AmbiguousTtlPasses,
            TakeSnapshot, LoadDeals, HandlerRead, ReceiveAnswer, PostAgain, GiveUpCycle,
            ApiCrash, BridgeCrash, apiVars, vars
<1>. QED BY <1>1, <1>2 DEF OInv

\* OInv holds at first.
LEMMA InitOInv == Init => OInv
  BY DEF Init, OInv, NoRow

(***************************************************************************)
(* One broker position is one OPEN row, whether the order manager or the   *)
(* handler inserts it first and whoever retries: the ticket decides.  What *)
(* the theorem needs is that positions_get shows a ticket as soon as       *)
(* order_send has returned it, or that the older position which is found   *)
(* in place of the new one has its row.                                    *)
(***************************************************************************)
THEOREM PositionIsOneRow ==
    ASSUME OlderTicket # "any", ~ TicketLag
    PROVE  Spec => []OneOpenRow
<1>1. Init => IInv /\ RInv /\ OInv
  BY InitIInv, InitRInv, InitOInv
<1>2. IInv /\ RInv /\ OInv /\ [Next]_vars => (IInv /\ RInv /\ OInv)'
  BY NextKeeps, NextKeepsRows, NextKeepsOneRow
<1>3. OInv => OneOpenRow
  BY DEF OInv, OneOpenRow
<1>. QED BY <1>1, <1>2, <1>3, PTL DEF Spec

-----------------------------------------------------------------------------
(***************************************************************************)
(* The capacity: the positions open in the account never exceed the        *)
(* configured maximum, for any number of attempts and any multipliers.     *)
(*                                                                         *)
(* First what sums over finite sets do.  MapThenSumSet is a fold over a    *)
(* recursive function; the induction over subsets is on a set P of subsets *)
(* instead of a property, with the least element that a well-founded       *)
(* ordering gives.  Then CInv: everything that is or may yet be open       *)
(* (AtRisk) fits, and one of the three SELECTs of a plan finds it.         *)
(***************************************************************************)

\* The sum of a function over a finite set, as the modules write it.
SumF(f, S) == MapThenSumSet(LAMBDA j : f[j], S)

\* The recursive function behind it.
Some(s) == CHOOSE x \in s : TRUE
Sums(f, S, g) == g = [s \in SUBSET S |-> IF s = {} THEN 0 ELSE f[Some(s)] + g[s \ {Some(s)}]]

\* The sum is the value of that recursive function.
LEMMA SumIsSums ==
    ASSUME NEW f, NEW S
    PROVE  SumF(f, S) = (CHOOSE g : Sums(f, S, g))[S]
  BY DEF SumF, MapThenSumSet, MapThenFoldSet, Sums, Some

\* Induction over the subsets of a finite set, with a set for the property.
LEMMA SubsetInduction ==
    ASSUME NEW S, IsFiniteSet(S), NEW P,
           \A T \in SUBSET S : (\A U \in SUBSET T : U # T => U \in P) => T \in P
    PROVE  \A T \in SUBSET S : T \in P
<1>. SUFFICES ASSUME (SUBSET S) \ P # {} PROVE FALSE
  OBVIOUS
<1>1. IsWellFoundedOn(StrictSubsetOrdering(S), FiniteSubsetsOf(S))
  BY FS_StrictSubsetOrderingWellFounded
<1>2. (SUBSET S) \ P \subseteq FiniteSubsetsOf(S)
  BY FS_Subset DEF FiniteSubsetsOf
<1>3. PICK T \in (SUBSET S) \ P : \A U \in (SUBSET S) \ P : ~ (<<U, T>> \in StrictSubsetOrdering(S))
  <2>. DEFINE R == StrictSubsetOrdering(S)
              F == FiniteSubsetsOf(S)
              Bad == (SUBSET S) \ P
  <2>1. IsWellFoundedOn(R, F) /\ Bad \subseteq F /\ Bad # {}
    BY <1>1, <1>2
  <2>2. \E T \in Bad : \A U \in Bad : ~ (<<U, T>> \in R)
    <3>. HIDE DEF R, F, Bad
    <3>. QED BY <2>1, WFMin
  <2>. QED BY <2>2
<1>4. \A U \in SUBSET T : U # T => U \in P
  BY <1>3 DEF StrictSubsetOrdering
<1>. QED BY <1>3, <1>4

\* CHOOSE takes an element of the set.
LEMMA SomeIsIn ==
    ASSUME NEW s, s # {}
    PROVE  Some(s) \in s
  BY DEF Some

\* The recursion has one solution over a finite set ...
LEMMA SumsUnique ==
    ASSUME NEW f, NEW S, IsFiniteSet(S), NEW g, NEW h, Sums(f, S, g), Sums(f, S, h)
    PROVE  g = h
<1>. DEFINE P == {s \in SUBSET S : g[s] = h[s]}
<1>1. ASSUME NEW T \in SUBSET S, \A U \in SUBSET T : U # T => U \in P
      PROVE  T \in P
  <2>1. CASE T = {}
    BY <2>1 DEF Sums
  <2>2. CASE T # {}
    <3>1. T \ {Some(T)} \in P
      BY <1>1, <2>2, SomeIsIn
    <3>2. g[T] = f[Some(T)] + g[T \ {Some(T)}] /\ h[T] = f[Some(T)] + h[T \ {Some(T)}]
      BY <2>2 DEF Sums
    <3>. QED BY <3>1, <3>2
  <2>. QED BY <2>1, <2>2
<1>2. \A s \in SUBSET S : s \in P
  <2>. HIDE DEF P
  <2>. QED BY <1>1, SubsetInduction
<1>. QED BY <1>2 DEF Sums

\* ... whose restriction solves it over a subset ...
LEMMA SumsRestrict ==
    ASSUME NEW f, NEW S, NEW T \in SUBSET S, NEW g, Sums(f, S, g),
           NEW h, h = [s \in SUBSET T |-> g[s]]
    PROVE  Sums(f, T, h)
<1>1. \A s \in SUBSET T : h[s] = g[s]
  OBVIOUS
<1>2. \A s \in SUBSET T : g[s] = IF s = {} THEN 0 ELSE f[Some(s)] + g[s \ {Some(s)}]
  BY DEF Sums
<1>3. \A s \in SUBSET T : h[s] = IF s = {} THEN 0 ELSE f[Some(s)] + h[s \ {Some(s)}]
  BY <1>1, <1>2
<1>. QED BY <1>3 DEF Sums

\* What the sum over S is when its recursion has a solution.
LEMMA SumIsSolution ==
    ASSUME NEW f, NEW S, IsFiniteSet(S), NEW g, Sums(f, S, g)
    PROVE  \A T \in SUBSET S : SumF(f, T) = g[T]
<1>. TAKE T \in SUBSET S
<1>1. IsFiniteSet(T)
  BY FS_Subset
<1>. DEFINE restricted == [s \in SUBSET T |-> g[s]]
<1>2. Sums(f, T, restricted)
  <2>1. restricted = [s \in SUBSET T |-> g[s]]
    OBVIOUS
  <2>. HIDE DEF restricted
  <2>. QED BY <2>1, SumsRestrict
<1>3. Sums(f, T, CHOOSE h : Sums(f, T, h))
  BY <1>2
<1>4. (CHOOSE h : Sums(f, T, h)) = restricted
  <2>. HIDE DEF restricted
  <2>. QED BY <1>1, <1>2, <1>3, SumsUnique
<1>. QED BY <1>4, SumIsSums

\* ... and it has one: the sum over every subset.
LEMMA SumsExist ==
    ASSUME NEW f, NEW S, IsFiniteSet(S)
    PROVE  Sums(f, S, [T \in SUBSET S |-> SumF(f, T)])
<1>. DEFINE Solved(T) == Sums(f, T, [U \in SUBSET T |-> SumF(f, U)])
            P == {T \in SUBSET S : Solved(T)}
<1>1. ASSUME NEW T \in SUBSET S, \A U \in SUBSET T : U # T => U \in P
      PROVE  T \in P
  <2>. DEFINE step(s) == IF s = {} THEN 0 ELSE f[Some(s)] + SumF(f, s \ {Some(s)})
              h == [U \in SUBSET T |-> IF U = T THEN step(T) ELSE SumF(f, U)]
  <2>1. \A U \in SUBSET T : U # T => SumF(f, U) = step(U)
    <3>. SUFFICES ASSUME NEW U \in SUBSET T, U # T
                  PROVE  SumF(f, U) = step(U)
      OBVIOUS
    <3>1. Solved(U)
      BY <1>1
    <3>2. U \ {Some(U)} \in SUBSET U /\ U \in SUBSET U
      OBVIOUS
    <3>. QED BY <3>1, <3>2 DEF Sums
  <2>2. \A U \in SUBSET T : h[U] = IF U = {} THEN 0 ELSE f[Some(U)] + h[U \ {Some(U)}]
    <3>. SUFFICES ASSUME NEW U \in SUBSET T
                  PROVE  h[U] = IF U = {} THEN 0 ELSE f[Some(U)] + h[U \ {Some(U)}]
      OBVIOUS
    <3>1. U # {} => U \ {Some(U)} \in SUBSET T /\ U \ {Some(U)} # T
      BY SomeIsIn
    <3>2. U # {} => h[U \ {Some(U)}] = SumF(f, U \ {Some(U)})
      BY <3>1
    <3>3. h[U] = step(U)
      BY <2>1
    <3>. QED BY <3>2, <3>3
  <2>3. Sums(f, T, h)
    <3>. HIDE DEF step
    <3>. QED BY <2>2 DEF Sums
  <2>4. IsFiniteSet(T)
    BY FS_Subset
  <2>5. \A U \in SUBSET T : SumF(f, U) = h[U]
    <3>. HIDE DEF h, step
    <3>. QED BY <2>3, <2>4, SumIsSolution
  <2>6. [U \in SUBSET T |-> SumF(f, U)] = h
    <3>. HIDE DEF step
    <3>. QED BY <2>5
  <2>. QED BY <2>3, <2>6
<1>2. \A T \in SUBSET S : T \in P
  <2>. HIDE DEF P
  <2>. QED BY <1>1, SubsetInduction
<1>. QED BY <1>2

\* The two equations of the fold.
LEMMA SumEmpty ==
    ASSUME NEW f
    PROVE  SumF(f, {}) = 0
<1>1. Sums(f, {}, [T \in SUBSET {} |-> SumF(f, T)])
  BY SumsExist, FS_EmptySet
<1>. QED BY <1>1 DEF Sums

\* The sum takes the chosen element out.
LEMMA SumSome ==
    ASSUME NEW f, NEW S, IsFiniteSet(S), S # {}
    PROVE  SumF(f, S) = f[Some(S)] + SumF(f, S \ {Some(S)})
<1>1. Sums(f, S, [T \in SUBSET S |-> SumF(f, T)])
  BY SumsExist
<1>2. S \in SUBSET S /\ S \ {Some(S)} \in SUBSET S
  OBVIOUS
<1>. QED BY <1>1, <1>2 DEF Sums

\* A sum of natural numbers is one.
LEMMA SumType ==
    ASSUME NEW f, NEW S, IsFiniteSet(S), \A x \in S : f[x] \in Nat
    PROVE  SumF(f, S) \in Nat
<1>. DEFINE P == {T \in SUBSET S : SumF(f, T) \in Nat}
<1>1. ASSUME NEW T \in SUBSET S, \A U \in SUBSET T : U # T => U \in P
      PROVE  T \in P
  <2>1. CASE T = {}
    BY <2>1, SumEmpty
  <2>2. CASE T # {}
    <3>1. T \ {Some(T)} \in P /\ f[Some(T)] \in Nat
      BY <1>1, <2>2, SomeIsIn
    <3>2. SumF(f, T) = f[Some(T)] + SumF(f, T \ {Some(T)})
      BY <2>2, SumSome, FS_Subset
    <3>. QED BY <3>1, <3>2
  <2>. QED BY <2>1, <2>2
<1>2. \A T \in SUBSET S : T \in P
  <2>. HIDE DEF P
  <2>. QED BY <1>1, SubsetInduction
<1>. QED BY <1>2

\* Any element can be taken out of a sum, not only the one the fold chooses.
LEMMA SumRemove ==
    ASSUME NEW f, NEW S, IsFiniteSet(S), \A x \in S : f[x] \in Nat, NEW a \in S
    PROVE  SumF(f, S) = f[a] + SumF(f, S \ {a})
<1>. DEFINE P == {T \in SUBSET S : \A x \in T : SumF(f, T) = f[x] + SumF(f, T \ {x})}
<1>1. ASSUME NEW T \in SUBSET S, \A U \in SUBSET T : U # T => U \in P
      PROVE  T \in P
  <2>. SUFFICES ASSUME NEW x \in T
                PROVE  SumF(f, T) = f[x] + SumF(f, T \ {x})
    OBVIOUS
  <2>. DEFINE c == Some(T)
  <2>0. c \in T
    BY SomeIsIn
  <2>1. SumF(f, T) = f[c] + SumF(f, T \ {c})
    BY SumSome, FS_Subset
  <2>. HIDE DEF c
  <2>2. CASE x = c
    BY <2>1, <2>2
  <2>3. CASE x # c
    <3>1. T \ {c} \in P /\ T \ {x} \in P
      BY <1>1, <2>0
    <3>2. SumF(f, T \ {c}) = f[x] + SumF(f, (T \ {c}) \ {x})
      BY <2>3, <3>1
    <3>3. SumF(f, T \ {x}) = f[c] + SumF(f, (T \ {x}) \ {c})
      BY <2>0, <2>3, <3>1
    <3>4. (T \ {c}) \ {x} = (T \ {x}) \ {c}
      OBVIOUS
    <3>5. SumF(f, (T \ {x}) \ {c}) \in Nat
      BY SumType, FS_Subset
    <3>6. f[x] \in Nat /\ f[c] \in Nat
      BY <2>0
    <3>. QED BY <2>1, <3>2, <3>3, <3>4, <3>5, <3>6
  <2>. QED BY <2>2, <2>3
<1>2. \A T \in SUBSET S : T \in P
  <2>. HIDE DEF P
  <2>. QED BY <1>1, SubsetInduction
<1>. QED BY <1>2

\* An element can be added.
LEMMA SumAdd ==
    ASSUME NEW f, NEW S, IsFiniteSet(S), NEW a, a \notin S, f[a] \in Nat,
           \A x \in S : f[x] \in Nat
    PROVE  SumF(f, S \cup {a}) = f[a] + SumF(f, S)
<1>1. IsFiniteSet(S \cup {a}) /\ (S \cup {a}) \ {a} = S
  BY FS_AddElement
<1>2. SumF(f, S \cup {a}) = f[a] + SumF(f, (S \cup {a}) \ {a})
  BY <1>1, SumRemove
<1>. QED BY <1>1, <1>2

\* A sum only looks at the elements summed over.
LEMMA SumSame ==
    ASSUME NEW f, NEW g, NEW S, IsFiniteSet(S), \A x \in S : f[x] = g[x]
    PROVE  SumF(f, S) = SumF(g, S)
<1>. DEFINE P == {T \in SUBSET S : SumF(f, T) = SumF(g, T)}
<1>1. ASSUME NEW T \in SUBSET S, \A U \in SUBSET T : U # T => U \in P
      PROVE  T \in P
  <2>1. CASE T = {}
    BY <2>1, SumEmpty
  <2>2. CASE T # {}
    <3>1. T \ {Some(T)} \in P /\ f[Some(T)] = g[Some(T)]
      BY <1>1, <2>2, SomeIsIn
    <3>2. /\ SumF(f, T) = f[Some(T)] + SumF(f, T \ {Some(T)})
          /\ SumF(g, T) = g[Some(T)] + SumF(g, T \ {Some(T)})
      BY <2>2, SumSome, FS_Subset
    <3>. QED BY <3>1, <3>2
  <2>. QED BY <2>1, <2>2
<1>2. \A T \in SUBSET S : T \in P
  <2>. HIDE DEF P
  <2>. QED BY <1>1, SubsetInduction
<1>. QED BY <1>2

\* What a union sums to at most; overlaps are counted once.
LEMMA SumUnion ==
    ASSUME NEW f, NEW S, IsFiniteSet(S), \A x \in S : f[x] \in Nat, NEW A \in SUBSET S
    PROVE  \A B \in SUBSET S : SumF(f, A \cup B) <= SumF(f, A) + SumF(f, B)
<1>. DEFINE P == {B \in SUBSET S : SumF(f, A \cup B) <= SumF(f, A) + SumF(f, B)}
<1>0. \A T \in SUBSET S : IsFiniteSet(T) /\ SumF(f, T) \in Nat
  BY FS_Subset, SumType
<1>1. ASSUME NEW B \in SUBSET S, \A U \in SUBSET B : U # B => U \in P
      PROVE  B \in P
  <2>1. CASE B = {}
    <3>1. A \cup B = A
      BY <2>1
    <3>. QED BY <1>0, <2>1, <3>1, SumEmpty
  <2>2. CASE B # {}
    <3>1. PICK b \in B : TRUE
      BY <2>2
    <3>. DEFINE C == B \ {b}
    <3>2. C \in P /\ b \notin C
      BY <1>1, <3>1
    <3>3. SumF(f, B) = f[b] + SumF(f, C) /\ f[b] \in Nat
      BY <1>0, <3>1, SumRemove
    <3>4. CASE b \in A
      <4>1. A \cup B = A \cup C
        BY <3>4
      <4>2. SumF(f, A \cup C) <= SumF(f, A) + SumF(f, C) /\ C \in SUBSET S
        BY <3>2
      <4>3. SumF(f, A \cup C) \in Nat /\ SumF(f, A) \in Nat /\ SumF(f, C) \in Nat
        BY <1>0, <4>2
      <4>4. SumF(f, A) + SumF(f, C) <= SumF(f, A) + SumF(f, B)
        BY <3>3, <4>3
      <4>5. SumF(f, B) \in Nat
        BY <1>0
      <4>6. SumF(f, A \cup B) <= SumF(f, A) + SumF(f, B)
        <5>1. SumF(f, A \cup B) = SumF(f, A \cup C)
          BY <4>1
        <5>. HIDE DEF C
        <5>. QED BY <4>2, <4>3, <4>4, <4>5, <5>1
      <4>. QED BY <4>6
    <3>5. CASE b \notin A
      <4>1. A \cup B \in SUBSET S /\ (A \cup B) \ {b} = A \cup C /\ b \in A \cup B
        BY <3>1, <3>5
      <4>2. SumF(f, A \cup B) = f[b] + SumF(f, A \cup C)
        BY <1>0, <4>1, SumRemove
      <4>3. SumF(f, A \cup C) <= SumF(f, A) + SumF(f, C) /\ C \in SUBSET S
        BY <3>2
      <4>4. SumF(f, A \cup C) \in Nat /\ SumF(f, A) \in Nat /\ SumF(f, C) \in Nat
        BY <1>0, <4>3
      <4>. QED BY <3>3, <4>2, <4>3, <4>4
    <3>. QED BY <3>4, <3>5
  <2>. QED BY <2>1, <2>2
<1>2. \A T \in SUBSET S : T \in P
  <2>. HIDE DEF P
  <2>. QED BY <1>1, SubsetInduction
<1>. QED BY <1>2

\* A sum over more elements, of a function that is nowhere smaller, is not smaller.
LEMMA SumMonotone ==
    ASSUME NEW f, NEW S, IsFiniteSet(S), \A x \in S : f[x] \in Nat, NEW T \in SUBSET S
    PROVE  SumF(f, T) <= SumF(f, S)
<1>. DEFINE P == {U \in SUBSET S : T \subseteq U => SumF(f, T) <= SumF(f, U)}
<1>0. \A U \in SUBSET S : IsFiniteSet(U) /\ SumF(f, U) \in Nat
  BY FS_Subset, SumType
<1>1. ASSUME NEW U \in SUBSET S, \A V \in SUBSET U : V # U => V \in P
      PROVE  U \in P
  <2>1. CASE U = T
    BY <1>0, <2>1
  <2>2. CASE T \subseteq U /\ U # T
    <3>1. PICK u \in U \ T : TRUE
      BY <2>2
    <3>2. U \ {u} \in P /\ T \subseteq U \ {u}
      BY <1>1, <2>2, <3>1
    <3>3. SumF(f, U) = f[u] + SumF(f, U \ {u}) /\ f[u] \in Nat
      BY <1>0, <3>1, SumRemove
    <3>. QED BY <1>0, <3>2, <3>3
  <2>. QED BY <2>1, <2>2
<1>2. \A U \in SUBSET S : U \in P
  <2>. HIDE DEF P
  <2>. QED BY <1>1, SubsetInduction
<1>. QED BY <1>2

-----------------------------------------------------------------------------
(* The capacity.                                                           *)

\* Attempt j is open at the broker, or something may still open it.
Risky(j) ==
    \/ broker[j] = "open" \/ late[j] \/ call[j] = "queued"
    \/ runner.id = j /\ runner.pc \in {"approved", "sent", "created"}

\* The positions the first SELECT counts, and what can be open in the account.
OpenRows == {j \in Ids : TicketedOpen(j)}
AtRisk == {j \in Ids : Risky(j)}

\* What the planner finds attempt j by.
Tracked(j) ==
    \/ AnyRow(j)
    \/ order[j].status \in {"SENT", "RECONCILING"}
    \/ signal[j] \in {"SENT_TO_ORDER_MANAGER", "ORDER_RECONCILING"}

\* The bridge has not been called for attempt j.
Uncalled(j) == runner.id = j /\ runner.pc \in BeforeOrder \cup {"created"}

\* Multipliers are numbers.
VolumeShape == volume \in [Ids -> Nat]
\* Without an outage no reservation outlives its window.
NeverAway == \A j \in Ids : age[j] < 2
\* An executed order has its position row, which the first SELECT reads.
ExecutedHasRow == \A j \in Ids : order[j].status = "EXECUTED" => AnyRow(j)
\* While the runner waits for the bridge its signal is reserved.
CalledIsReserved ==
    runner.pc \in {"sent", "created", "await", "settle"} =>
        signal[runner.id] = "SENT_TO_ORDER_MANAGER" \/ AnyRow(runner.id)
\* What is at risk is found.
RiskIsTracked == \A j \in Ids : Risky(j) /\ ~ Uncalled(j) => Tracked(j)
\* What a plan has added up so far covers the SELECTs it has made.
PlanCounts ==
    /\ Planning => runner.used \in Nat
    /\ runner.pc = "planOrders" => SumOver(OpenRows) <= runner.used
    /\ runner.pc = "planSignals" =>
          /\ runner.pending \subseteq Ids
          /\ SumOver(OpenRows) + SumOver(runner.pending) <= runner.used
          /\ \A j \in Ids : order[j].status \in {"SENT", "RECONCILING"} => j \in runner.pending
\* What is or may yet be open fits.
RiskFits == SumOver(AtRisk) <= MaxEquiv

\* What is at risk is found by every plan, and fits.
CInv == /\ VolumeShape /\ NeverAway /\ ExecutedHasRow /\ CalledIsReserved
        /\ RiskIsTracked /\ PlanCounts /\ RiskFits

-----------------------------------------------------------------------------
\* Sums over attempts are finite.
LEMMA IdsAreFinite == IsFiniteSet(Ids)
  BY FS_Interval, BoundsAssumption DEF Ids

\* The sum of the model is the sum of the lemmas, before a step ...
LEMMA SumOverIsSumF == \A S : SumOver(S) = SumF(volume, S)
  BY DEF SumOver, SumF, MapThenSumSet, MapThenFoldSet

\* ... and after it.
LEMMA SumOverIsSumFNext ==
    /\ SumOver(AtRisk)' = SumF(volume', AtRisk')
    /\ SumOver(OpenRows)' = SumF(volume', OpenRows')
    /\ SumOver(runner.pending)' = SumF(volume', runner'.pending)
  BY DEF SumOver, SumF, MapThenSumSet, MapThenFoldSet

\* A sum of volumes is a volume.
LEMMA SumOverNat ==
    ASSUME VolumeShape, NEW S \in SUBSET Ids
    PROVE  SumOver(S) \in Nat
  BY IdsAreFinite, FS_Subset, SumOverIsSumF, SumType DEF VolumeShape

\* The smaller of two numbers.
LEMMA MinOfTwo ==
    ASSUME NEW a \in Nat, NEW b \in Nat
    PROVE  Min({a, b}) \in Nat /\ Min({a, b}) <= a /\ Min({a, b}) <= b
<1>1. \E x \in {a, b} : \A y \in {a, b} : x <= y
  <2>1. CASE a <= b
    BY <2>1
  <2>2. CASE b <= a
    BY <2>2
  <2>. QED BY <2>1, <2>2
<1>2. Min({a, b}) \in {a, b} /\ \A y \in {a, b} : Min({a, b}) <= y
  BY <1>1 DEF Min
<1>. QED BY <1>2

\* What the planner adds up for attempt i in its third SELECT.
Reserved(i) == {j \in Ids \ {i} : ReservedSignal(j)} \ runner.pending
\* What the plan of attempt i counts as used when it has read everything.
UsedBy(i) == runner.used + SumOver(Reserved(i))

\* The plan rejects the attempt, or accepts what is left at most.
LEMMA PlanDecides ==
    ASSUME IInv, VolumeShape, PlanCounts, NEW i \in Ids, PlanReservedSignals(i)
    PROVE  \/ Reject(i) /\ UNCHANGED volume
           \/ /\ \E v \in Nat : v + UsedBy(i) <= MaxEquiv /\ volume' = [volume EXCEPT ![i] = v]
              /\ runner'.pc = "approved" /\ runner'.id = i
              /\ signal' = [signal EXCEPT ![i] = "RISK_APPROVED"]
<1>. DEFINE left == IF UsedBy(i) >= MaxEquiv THEN 0 ELSE MaxEquiv - UsedBy(i)
<1>1. \/ /\ left > 0
         /\ \E desired \in 1 .. MaxEquiv : volume' = [volume EXCEPT ![i] = Accepted(desired, left)]
         /\ SetSignal(i, "RISK_APPROVED")
         /\ runner' = [IdleRunner EXCEPT !.pc = "approved", !.id = i]
      \/ Reject(i)
  BY DEF PlanReservedSignals, Reserved, UsedBy
<1>2. UsedBy(i) \in Nat /\ MaxEquiv \in Nat
  <2>1. runner.used \in Nat
    BY DEF PlanCounts, Planning, PlanReservedSignals, At
  <2>2. Reserved(i) \in SUBSET Ids
    BY DEF Reserved
  <2>. QED BY <2>1, <2>2, SumOverNat, BoundsAssumption DEF UsedBy
<1>3. CASE Reject(i)
  BY <1>3 DEF Reject
<1>4. CASE /\ left > 0
           /\ \E desired \in 1 .. MaxEquiv : volume' = [volume EXCEPT ![i] = Accepted(desired, left)]
           /\ SetSignal(i, "RISK_APPROVED")
           /\ runner' = [IdleRunner EXCEPT !.pc = "approved", !.id = i]
  <2>1. left \in Nat /\ left + UsedBy(i) <= MaxEquiv
    BY <1>2, <1>4
  <2>2. PICK desired \in 1 .. MaxEquiv : volume' = [volume EXCEPT ![i] = Accepted(desired, left)]
    BY <1>4
  <2>. HIDE DEF left
  <2>3. Accepted(desired, left) \in Nat /\ Accepted(desired, left) <= left
    BY <1>2, <2>1, MinOfTwo DEF Accepted
  <2>4. Accepted(desired, left) + UsedBy(i) <= MaxEquiv
    BY <1>2, <2>1, <2>3
  <2>5. runner'.pc = "approved" /\ runner'.id = i
    BY <1>4 DEF IdleRunner
  <2>. QED BY <1>4, <2>2, <2>3, <2>4, <2>5 DEF SetSignal
<1>. QED BY <1>1, <1>3, <1>4

\* Only the end of a plan changes a volume.
LEMMA VolumeStep ==
    ASSUME [Next]_vars
    PROVE  UNCHANGED volume \/ \E i \in Ids : PlanReservedSignals(i)
  BY DEF Next, RunnerStep, BrokerStep, HandlerStep, StartRun, CheckSetup, Reject,
     PlanOpenPositions, PlanPendingOrders, EvaluateRisk, CreateOrder, Validate, ReceiveReply,
     LoseReply, Settle, Abort, Interrupted, ExecuteCall, LateFill, ClosePosition,
     GracePasses, AmbiguousTtlPasses, TakeSnapshot, LoadDeals, HandlerRead, HandlerCommit,
     ReceiveAnswer, PostAgain, GiveUpCycle, ApiCrash, BridgeCrash, apiVars, vars

\* Between the SELECTs of a plan nothing changes that they read.
LEMMA PlanIsFrozen ==
    ASSUME IInv, ~ SyncMidPlan, Planning, UNCHANGED runner, [Next]_vars
    PROVE  UNCHANGED <<order, row, volume>>
<1>1. ASSUME NEW i \in Ids, PlanReservedSignals(i)
      PROVE  FALSE
  <2>1. runner'.pc \in {"idle", "approved"}
    <3>1. runner' = IdleRunner \/ runner' = [IdleRunner EXCEPT !.pc = "approved", !.id = i]
      BY <1>1 DEF PlanReservedSignals, Reject
    <3>2. CASE runner' = IdleRunner
      BY <3>2 DEF IdleRunner
    <3>3. CASE runner' = [IdleRunner EXCEPT !.pc = "approved", !.id = i]
      <4>1. runner'.pc = "approved"
        BY <3>3 DEF IdleRunner
      <4>. QED BY <4>1
    <3>. QED BY <3>1, <3>2, <3>3
  <2>. QED BY <2>1 DEF Planning
<1>. QED BY <1>1 DEF Planning, At, Next, RunnerStep, BrokerStep, HandlerStep, StartRun,
     CheckSetup, PlanOpenPositions, PlanPendingOrders, EvaluateRisk, CreateOrder, Validate,
     ReceiveReply, LoseReply, Settle, Abort, Interrupted, ExecuteCall, LateFill,
     ClosePosition, GracePasses, AmbiguousTtlPasses, TakeSnapshot, LoadDeals, HandlerRead,
     HandlerCommit, ReceiveAnswer, PostAgain, GiveUpCycle, ApiCrash, BridgeCrash, apiVars, vars

-----------------------------------------------------------------------------
(* What is at risk: it grows only when a plan is accepted.                 *)

\* Attempt j is open at the broker, or the broker may still open it.
AtBroker(j) == broker[j] = "open" \/ late[j] \/ call[j] = "queued"

\* A position comes from a request, and a request from the runner's call.
LEMMA BrokerRiskStays ==
    ASSUME OlderTicket # "any", IInv, RInv, [Next]_vars, NEW j \in Ids, AtBroker(j)'
    PROVE  AtBroker(j) \/ At("created", j)
<1>1. CASE broker[j] = "open"
  BY <1>1 DEF AtBroker
<1>2. CASE broker[j] = "closed"
  <2>1. broker'[j] = "closed"
    BY <1>2, ClosedAtBrokerStays
  <2>2. RInv'
    BY NextKeepsRows
  <2>. QED BY <2>1, <2>2 DEF RInv, SentOnce, Filled, AtBroker
<1>3. CASE broker[j] = "absent"
  <2>1. ~ NeverFills(j)'
    BY DEF AtBroker, NeverFills, Filled
  <2>. QED BY <1>3, <2>1, NeverFillsStays DEF AtBroker, NeverFills, Filled
<1>. QED BY <1>1, <1>2, <1>3 DEF IInv, Shape, BrokerShape

\* Past the plan, and not yet past the call.
Approved == {"approved", "sent", "created"}

\* An attempt between approval and call was approved by its plan.
LEMMA RunnerRiskStays ==
    ASSUME IInv, [Next]_vars, runner'.pc \in Approved
    PROVE  \/ runner'.id = runner.id /\ runner.pc \in Approved
           \/ \E i \in Ids : PlanReservedSignals(i)
<1>1. ASSUME NEW i \in Ids, RunnerStep(i), runner.id = i, runner'.id = i
      PROVE  runner.pc \in Approved \/ PlanReservedSignals(i)
  <2>1. CASE CheckSetup(i)
    BY <2>1, GotoEffect DEF CheckSetup, Reject, IdleRunner, IInv, Shape, Steps, Approved
  <2>2. CASE PlanOpenPositions(i) \/ PlanPendingOrders(i)
    BY <2>2 DEF PlanOpenPositions, PlanPendingOrders, IInv, Shape, RunnerShape, Approved
  <2>3. CASE EvaluateRisk(i) \/ CreateOrder(i) \/ Validate(i)
    BY <2>3 DEF EvaluateRisk, CreateOrder, Validate, At, Approved
  <2>4. CASE ReceiveReply(i) \/ LoseReply(i)
    <3>1. \E status \in OrderStatus : Return(i, status)
      BY <2>4 DEF ReceiveReply, LoseReply, OrderStatus
    <3>. QED BY <3>1, ReturnEffect DEF IInv, Shape, Approved
  <2>5. CASE Settle(i)
    BY <2>5 DEF Settle, IdleRunner, Approved
  <2>. QED BY <1>1, <2>1, <2>2, <2>3, <2>4, <2>5 DEF RunnerStep
<1>. QED BY <1>1, RunnerMoves DEF Approved

\* Only the end of a plan puts an attempt at risk.
LEMMA RiskShrinks ==
    ASSUME OlderTicket # "any", IInv, RInv, [Next]_vars,
           ~ \E i \in Ids : PlanReservedSignals(i)
    PROVE  AtRisk' \subseteq AtRisk
<1>. SUFFICES ASSUME NEW j \in Ids, Risky(j)'
              PROVE  Risky(j)
  BY DEF AtRisk
<1>1. CASE AtBroker(j)'
  BY <1>1, BrokerRiskStays DEF AtBroker, Risky, At
<1>2. CASE runner'.id = j /\ runner'.pc \in Approved
  BY <1>2, RunnerRiskStays DEF Risky, Approved
<1>. QED BY <1>1, <1>2 DEF Risky, AtBroker, Approved

\* A plan adds its own attempt to what is at risk and nothing else.
LEMMA PlanAddsItself ==
    ASSUME IInv, RInv, [Next]_vars, NEW i \in Ids, PlanReservedSignals(i)
    PROVE  /\ AtRisk' \subseteq AtRisk \cup {i} /\ i \notin AtRisk
           /\ Reject(i) => AtRisk' \subseteq AtRisk
<1>1. At("planSignals", i) /\ UNCHANGED <<broker, late, call>>
  BY DEF PlanReservedSignals, brokerVars
<1>2. i \notin AtRisk
  BY <1>1, UncalledNeverFills DEF At, BeforeOrder, AtRisk, Risky, NeverFills, Filled
<1>3. runner'.id \in {i, 0}
  <2>1. \/ runner' = IdleRunner
        \/ runner' = [IdleRunner EXCEPT !.pc = "approved", !.id = i]
    BY DEF PlanReservedSignals, Reject
  <2>2. CASE runner' = IdleRunner
    BY <2>2 DEF IdleRunner
  <2>3. CASE runner' = [IdleRunner EXCEPT !.pc = "approved", !.id = i]
    <3>1. runner'.id = i
      BY <2>3 DEF IdleRunner
    <3>. QED BY <3>1
  <2>. QED BY <2>1, <2>2, <2>3
<1>4. Reject(i) => runner'.id = 0
  BY DEF Reject, IdleRunner
<1>. QED BY <1>1, <1>2, <1>3, <1>4 DEF AtRisk, Risky, Ids

\* What is at risk is what the planner has found by its third SELECT.
LEMMA PlanFindsRisk ==
    ASSUME IInv, RInv, OInv, ClosedMeansClosed, CInv, NEW i \in Ids, At("planSignals", i)
    PROVE  AtRisk \subseteq OpenRows \cup runner.pending \cup Reserved(i)
<1>. SUFFICES ASSUME NEW j \in Ids, Risky(j)
              PROVE  j \in OpenRows \cup runner.pending \cup Reserved(i)
  BY DEF AtRisk
<1>1. j # i
  BY UncalledNeverFills DEF At, BeforeOrder, Risky, NeverFills, Filled
<1>2. Tracked(j) /\ AtBroker(j) /\ age[j] < 2
  BY <1>1 DEF CInv, RiskIsTracked, Uncalled, At, Risky, AtBroker, NeverAway
<1>3. CASE AnyRow(j)
  <2>1. broker[j] = "open"
    BY <1>2, <1>3 DEF RInv, RowsAreReal, SentOnce, AtBroker
  <2>2. row[j].api # "CLOSED" /\ row[j].sync # "CLOSED"
    BY <2>1 DEF ClosedMeansClosed
  <2>3. row[j] \in Rows
    BY DEF RInv, RowShape
  <2>4. TicketedOpen(j)
    BY <1>3, <2>2, <2>3 DEF TicketedOpen, AnyRow, OInv, Rows, RowStatus
  <2>. QED BY <2>4 DEF OpenRows
<1>4. CASE order[j].status \in {"SENT", "RECONCILING"}
  BY <1>4 DEF CInv, PlanCounts, At
<1>5. CASE signal[j] \in {"SENT_TO_ORDER_MANAGER", "ORDER_RECONCILING"}
  BY <1>1, <1>2, <1>5 DEF Reserved, ReservedSignal
<1>. QED BY <1>2, <1>3, <1>4, <1>5 DEF Tracked

\* What the planner adds up is at least what is at risk.
LEMMA UsedCoversRisk ==
    ASSUME IInv, RInv, OInv, ClosedMeansClosed, CInv, NEW i \in Ids, At("planSignals", i)
    PROVE  SumF(volume, AtRisk) <= UsedBy(i)
<1>. DEFINE f == volume
            O == OpenRows
            W == runner.pending
            R == Reserved(i)
<1>1. IsFiniteSet(Ids) /\ \A x \in Ids : f[x] \in Nat
  BY IdsAreFinite DEF CInv, VolumeShape
<1>2. AtRisk \in SUBSET Ids /\ O \in SUBSET Ids /\ W \in SUBSET Ids /\ R \in SUBSET Ids
  BY DEF AtRisk, OpenRows, Reserved, CInv, PlanCounts, At
<1>3. AtRisk \in SUBSET ((O \cup W) \cup R)
  BY PlanFindsRisk
<1>4. SumF(f, O) + SumF(f, W) <= runner.used /\ runner.used \in Nat
  BY SumOverIsSumF DEF CInv, PlanCounts, At, Planning
<1>5. UsedBy(i) = runner.used + SumF(f, R)
  BY SumOverIsSumF DEF UsedBy
<1>. HIDE DEF f, O, W, R
<1>6. \A S \in SUBSET Ids : IsFiniteSet(S) /\ SumF(f, S) \in Nat
  BY <1>1, FS_Subset, SumType
<1>7. (O \cup W) \cup R \in SUBSET Ids /\ O \cup W \in SUBSET Ids
  BY <1>2
<1>8. SumF(f, AtRisk) <= SumF(f, (O \cup W) \cup R)
  BY <1>1, <1>3, <1>6, <1>7, SumMonotone
<1>9. SumF(f, (O \cup W) \cup R) <= SumF(f, O \cup W) + SumF(f, R)
  BY <1>1, <1>2, <1>7, SumUnion
<1>10. SumF(f, O \cup W) <= SumF(f, O) + SumF(f, W)
  BY <1>1, <1>2, SumUnion
<1>11. /\ SumF(f, AtRisk) \in Nat /\ SumF(f, (O \cup W) \cup R) \in Nat
       /\ SumF(f, O \cup W) \in Nat /\ SumF(f, O) \in Nat /\ SumF(f, W) \in Nat
       /\ SumF(f, R) \in Nat
  BY <1>2, <1>6, <1>7
<1>12. SumF(f, AtRisk) <= runner.used + SumF(f, R)
  BY <1>4, <1>8, <1>9, <1>10, <1>11
<1>. QED BY <1>5, <1>12 DEF f

\* What a plan adds fits beside what was at risk.
LEMMA RiskStaysInLimit ==
    ASSUME OlderTicket # "any", IInv, RInv, OInv, ClosedMeansClosed, CInv, [Next]_vars
    PROVE  RiskFits'
<1>. USE IdsAreFinite
<1>1. \A S \in SUBSET Ids : IsFiniteSet(S) /\ SumF(volume, S) \in Nat
  BY FS_Subset, SumType DEF CInv, VolumeShape
<1>2. AtRisk \in SUBSET Ids /\ SumF(volume, AtRisk) <= MaxEquiv
  BY SumOverIsSumF DEF AtRisk, CInv, RiskFits
<1>3. CASE ~ \E i \in Ids : PlanReservedSignals(i)
  <2>1. AtRisk' \in SUBSET AtRisk /\ UNCHANGED volume
    BY <1>3, RiskShrinks, VolumeStep
  <2>2. SumF(volume, AtRisk') <= SumF(volume, AtRisk)
    BY <1>1, <1>2, <2>1, SumMonotone DEF CInv, VolumeShape
  <2>3. SumF(volume, AtRisk') <= MaxEquiv
    BY <1>1, <1>2, <2>1, <2>2, BoundsAssumption
  <2>. QED BY <2>1, <2>3, SumOverIsSumFNext DEF RiskFits
<1>4. ASSUME NEW i \in Ids, PlanReservedSignals(i)
      PROVE  RiskFits'
  <2>1. AtRisk' \subseteq AtRisk \cup {i} /\ i \notin AtRisk
    BY <1>4, PlanAddsItself
  <2>2. CASE Reject(i) /\ UNCHANGED volume
    <3>1. AtRisk' \in SUBSET AtRisk /\ UNCHANGED volume
      BY <1>4, <2>2, PlanAddsItself
    <3>2. SumF(volume, AtRisk') <= SumF(volume, AtRisk)
      BY <1>1, <1>2, <3>1, SumMonotone DEF CInv, VolumeShape
    <3>3. SumF(volume, AtRisk') <= MaxEquiv
      BY <1>1, <1>2, <3>1, <3>2, BoundsAssumption
    <3>. QED BY <3>1, <3>3, SumOverIsSumFNext DEF RiskFits
  <2>3. ASSUME NEW v \in Nat, v + UsedBy(i) <= MaxEquiv, volume' = [volume EXCEPT ![i] = v]
        PROVE  RiskFits'
    <3>1. volume' \in [Ids -> Nat] /\ volume'[i] = v /\ \A j \in AtRisk : volume'[j] = volume[j]
      BY <1>2, <2>1, <2>3 DEF CInv, VolumeShape
    <3>2. AtRisk \cup {i} \in SUBSET Ids /\ AtRisk' \in SUBSET (AtRisk \cup {i})
      BY <1>2, <2>1
    <3>3. \A S \in SUBSET Ids : SumF(volume', S) \in Nat
      BY <1>1, <3>1, SumType
    <3>4. SumF(volume', AtRisk') <= SumF(volume', AtRisk \cup {i})
      BY <1>1, <3>1, <3>2, SumMonotone
    <3>5. SumF(volume', AtRisk \cup {i}) = v + SumF(volume', AtRisk)
      BY <1>1, <1>2, <2>1, <3>1, SumAdd
    <3>6. SumF(volume', AtRisk) = SumF(volume, AtRisk)
      BY <1>1, <1>2, <3>1, SumSame
    <3>7. SumF(volume, AtRisk) <= UsedBy(i)
      BY <1>4, UsedCoversRisk DEF PlanReservedSignals
    <3>8. UsedBy(i) \in Nat
      <4>1. Reserved(i) \in SUBSET Ids /\ runner.used \in Nat
        BY <1>4 DEF Reserved, CInv, PlanCounts, Planning, PlanReservedSignals, At
      <4>. QED BY <4>1, SumOverNat DEF UsedBy, CInv
    <3>9. SumF(volume', AtRisk') <= MaxEquiv
      <4>1. SumF(volume', AtRisk') \in Nat /\ SumF(volume, AtRisk) \in Nat
        BY <1>1, <1>2, <3>2, <3>3
      <4>2. SumF(volume', AtRisk') <= v + SumF(volume, AtRisk)
        BY <3>4, <3>5, <3>6
      <4>. QED BY <2>3, <3>7, <3>8, <4>1, <4>2, BoundsAssumption
    <3>. QED BY <3>9, SumOverIsSumFNext DEF RiskFits
  <2>. QED BY <1>4, <2>2, <2>3, PlanDecides DEF CInv
<1>. QED BY <1>3, <1>4

-----------------------------------------------------------------------------
\* Volumes stay numbers, and without an outage no reservation outlives its window.
LEMMA VolumesStay ==
    ASSUME IInv, CInv, ~ Outage, [Next]_vars
    PROVE  VolumeShape' /\ NeverAway'
<1>1. VolumeShape'
  <2>1. ASSUME NEW i \in Ids, PlanReservedSignals(i)
        PROVE  VolumeShape'
    BY <2>1, PlanDecides DEF CInv, VolumeShape
  <2>2. CASE UNCHANGED volume
    BY <2>2 DEF CInv, VolumeShape
  <2>. QED BY <2>1, <2>2, VolumeStep
<1>2. NeverAway'
  <2>1. ASSUME NEW i \in Ids, GracePasses(i)
        PROVE  NeverAway'
    BY <2>1 DEF GracePasses, CInv, NeverAway, IInv, Shape, BrokerShape
  <2>2. CASE UNCHANGED age
    BY <2>2 DEF CInv, NeverAway
  <2>. QED BY <2>1, <2>2 DEF Next, RunnerStep, BrokerStep, HandlerStep, StartRun, CheckSetup,
       PlanOpenPositions, PlanPendingOrders, PlanReservedSignals, EvaluateRisk, CreateOrder,
       Validate, ReceiveReply, LoseReply, Settle, Abort, Interrupted, ExecuteCall,
       LateFill, ClosePosition, AmbiguousTtlPasses, TakeSnapshot, LoadDeals, HandlerRead,
       HandlerCommit, ReceiveAnswer, PostAgain, GiveUpCycle, ApiCrash, BridgeCrash, apiVars,
       vars
<1>. QED BY <1>1, <1>2

\* An executed order has its row, because a broker that reports a fill shows it.
LEMMA ExecutedRowStays ==
    ASSUME OlderTicket # "any", IInv, RInv, OInv, CInv, [Next]_vars
    PROVE  ExecutedHasRow'
<1>1. \A i \in Ids : AnyRow(i) => AnyRow(i)'
  BY RowsStay
<1>2. ASSUME NEW i \in Ids, NEW status \in OrderStatus \ {"EXECUTED"},
             order' = [order EXCEPT ![i].status = status] \/ Return(i, status)
      PROVE  \A j \in Ids : order'[j].status = "EXECUTED" => order[j].status = "EXECUTED"
  BY <1>2, SetStatusEffect, ReturnEffect DEF IInv, Shape
<1>3. ASSUME NEW i \in Ids, CreateOrder(i) \/ Validate(i) \/ LoseReply(i) \/ Interrupted(i)
      PROVE  \/ UNCHANGED order
             \/ \E status \in OrderStatus \ {"EXECUTED"} :
                   order' = [order EXCEPT ![i].status = status] \/ Return(i, status)
  BY <1>3 DEF CreateOrder, Validate, LoseReply, Interrupted, OrderStatus
<1>4. ASSUME NEW i \in Ids, ReceiveReply(i)
      PROVE  ExecutedHasRow'
  <2>1. CASE \E status \in OrderStatus \ {"EXECUTED"} : Return(i, status)
    BY <1>1, <1>2, <2>1 DEF CInv, ExecutedHasRow
  <2>2. CASE Return(i, "EXECUTED") /\ row' = [row EXCEPT ![i].api = "OPEN", ![i].ticketed = (call[i] = "filled")]
    <3>1. AnyRow(i)'
      BY <2>2 DEF RInv, RowShape, Rows, AnyRow
    <3>2. \A j \in Ids : j # i => order'[j] = order[j]
      BY <2>2, ReturnEffect DEF IInv, Shape, OrderStatus
    <3>. QED BY <1>1, <3>1, <3>2 DEF CInv, ExecutedHasRow
  <2>. QED BY <1>4, <2>1, <2>2 DEF ReceiveReply, OrderStatus
<1>5. CASE HandlerCommit
  <2>1. CASE \E i \in Ids : HandlerInserts(i) /\ Ticketed(i)
    BY <1>1, <1>5, <2>1 DEF HandlerCommit, CInv, ExecutedHasRow
  <2>2. CASE ~ \E i \in Ids : HandlerInserts(i) /\ Ticketed(i)
    <3>. SUFFICES ASSUME NEW i \in Ids, order'[i].status = "EXECUTED"
                  PROVE  AnyRow(i)'
      BY DEF ExecutedHasRow
    <3>1. order'[i] = NewOrder(i) /\ syncer.pc = "commit"
      BY <1>5, <2>2, CommitEffect
    <3>2. CASE syncer.decision[i].mark
      <4>1. syncer.decision[i].row \in Inserting
        BY <3>1, <3>2 DEF RInv, DecisionsHold, DecisionHolds
      <4>. QED BY <1>5, <2>2, <4>1, CommitMovesRows
    <3>3. CASE ~ syncer.decision[i].mark
      <4>1. order[i].status = "EXECUTED"
        BY <3>1, <3>3 DEF NewOrder, IInv, Shape, DbShape
      <4>. QED BY <1>1, <4>1 DEF CInv, ExecutedHasRow
    <3>. QED BY <3>2, <3>3
  <2>. QED BY <2>1, <2>2
<1>6. CASE UNCHANGED order
  BY <1>1, <1>6 DEF CInv, ExecutedHasRow
<1>7. ASSUME NEW i \in Ids, CreateOrder(i) \/ Validate(i) \/ LoseReply(i) \/ Interrupted(i)
      PROVE  ExecutedHasRow'
  BY <1>1, <1>2, <1>3, <1>6, <1>7 DEF CInv, ExecutedHasRow
<1>. QED BY <1>4, <1>5, <1>6, <1>7 DEF Next, RunnerStep, BrokerStep, HandlerStep, StartRun,
     CheckSetup, PlanOpenPositions, PlanPendingOrders, PlanReservedSignals, EvaluateRisk,
     Settle, Abort, ExecuteCall, LateFill, ClosePosition, GracePasses,
     AmbiguousTtlPasses, TakeSnapshot, LoadDeals, HandlerRead, ReceiveAnswer, PostAgain,
     GiveUpCycle, ApiCrash, BridgeCrash, apiVars, vars

\* The counts of a plan stay right while it is made.
LEMMA PlanKeepsCounting ==
    ASSUME IInv, RInv, CInv, ~ Outage, ~ SyncMidPlan, [Next]_vars
    PROVE  PlanCounts'
<1>1. CASE runner'.pc \notin {"planOrders", "planSignals"}
  BY <1>1 DEF PlanCounts, Planning
<1>2. CASE UNCHANGED runner /\ Planning
  <2>1. UNCHANGED <<order, row, volume>>
    BY <1>2, PlanIsFrozen
  <2>2. OpenRows' = OpenRows
    BY <2>1 DEF OpenRows, TicketedOpen
  <2>3. /\ SumOver(OpenRows)' = SumOver(OpenRows)
        /\ SumOver(runner.pending)' = SumOver(runner.pending)
    BY <1>2, <2>1, <2>2, SumOverIsSumF, SumOverIsSumFNext
  <2>. QED BY <1>2, <2>1, <2>3 DEF CInv, PlanCounts, Planning
<1>3. ASSUME NEW i \in Ids, PlanOpenPositions(i)
      PROVE  PlanCounts'
  <2>1. /\ runner'.pc = "planOrders" /\ runner'.used = SumOver(OpenRows)
        /\ UNCHANGED <<row, volume>>
    BY <1>3 DEF PlanOpenPositions, OpenRows, IInv, Shape, RunnerShape, apiVars
  <2>2. OpenRows' = OpenRows /\ OpenRows \in SUBSET Ids
    BY <2>1 DEF OpenRows, TicketedOpen
  <2>3. SumOver(OpenRows)' = runner'.used
    BY <2>1, <2>2, SumOverIsSumF, SumOverIsSumFNext
  <2>4. runner'.used \in Nat
    BY <2>1, <2>2, SumOverNat DEF CInv
  <2>. QED BY <2>1, <2>3, <2>4 DEF PlanCounts, Planning
<1>4. ASSUME NEW i \in Ids, PlanPendingOrders(i)
      PROVE  PlanCounts'
  <2>. DEFINE W == {j \in Ids : PendingOrder(j)}
  <2>1. /\ runner'.pc = "planSignals" /\ runner'.used = runner.used + SumOver(W)
        /\ runner'.pending = W /\ UNCHANGED <<order, row, volume, age>>
        /\ runner.pc = "planOrders"
    BY <1>4 DEF PlanPendingOrders, At, IInv, Shape, RunnerShape, apiVars
  <2>2. OpenRows' = OpenRows /\ W \in SUBSET Ids /\ OpenRows \in SUBSET Ids
    BY <2>1 DEF OpenRows, TicketedOpen
  <2>3. SumOver(OpenRows)' = SumOver(OpenRows) /\ SumOver(runner.pending)' = SumOver(W)
    BY <2>1, <2>2, SumOverIsSumF, SumOverIsSumFNext
  <2>4. /\ SumOver(W) \in Nat /\ SumOver(OpenRows) \in Nat /\ runner.used \in Nat
        /\ SumOver(OpenRows) <= runner.used
    BY <2>1, <2>2, SumOverNat DEF CInv, PlanCounts, Planning
  <2>5. \A j \in Ids : order'[j].status \in {"SENT", "RECONCILING"} => j \in W
    BY <2>1 DEF PendingOrder, CInv, NeverAway
  <2>6. SumOver(OpenRows)' + SumOver(runner.pending)' <= runner'.used /\ runner'.used \in Nat
    BY <2>1, <2>3, <2>4
  <2>. QED BY <2>1, <2>2, <2>5, <2>6 DEF PlanCounts, Planning
<1>5. ASSUME NEW i \in Ids, RunnerStep(i), runner.id = i, runner'.id = i, runner'.pc # "idle"
      PROVE  PlanCounts'
  <2>1. CASE CheckSetup(i)
    BY <1>1, <1>5, <2>1, GotoEffect DEF CheckSetup, Reject, IdleRunner, IInv, Shape, Steps
  <2>2. CASE EvaluateRisk(i) \/ CreateOrder(i) \/ Settle(i)
    <3>1. runner' = IdleRunner \/ Goto("sent") \/ Goto("created")
      BY <2>2 DEF EvaluateRisk, CreateOrder, Settle, Reject
    <3>. QED BY <1>1, <1>5, <3>1, GotoEffect DEF IdleRunner, IInv, Shape, Steps
  <2>3. CASE Validate(i) \/ ReceiveReply(i) \/ LoseReply(i)
    <3>1. Goto("await") \/ \E status \in OrderStatus : Return(i, status)
      BY <2>3 DEF Validate, ReceiveReply, LoseReply, OrderStatus
    <3>. QED BY <1>1, <3>1, GotoEffect, ReturnEffect DEF IInv, Shape, Steps
  <2>4. CASE PlanReservedSignals(i)
    <3>1. \/ runner' = IdleRunner
          \/ runner' = [IdleRunner EXCEPT !.pc = "approved", !.id = i]
      BY <2>4 DEF PlanReservedSignals, Reject
    <3>2. CASE runner' = [IdleRunner EXCEPT !.pc = "approved", !.id = i]
      <4>1. runner'.pc = "approved"
        BY <3>2 DEF IdleRunner
      <4>. QED BY <1>1, <4>1
    <3>. QED BY <1>5, <3>1, <3>2 DEF IdleRunner
  <2>. QED BY <1>3, <1>4, <1>5, <2>1, <2>2, <2>3, <2>4 DEF RunnerStep
<1>. QED BY <1>1, <1>2, <1>5, RunnerMoves DEF Planning

-----------------------------------------------------------------------------
(* What is at risk stays where the planner looks for it.                   *)

\* A commit that touches the signal or the order of something at risk gives it
\* a row: an order is never given up while it may fill.
LEMMA CommitTracks ==
    ASSUME IInv, RInv, FInv, MaxPosts < AbsentSyncs, HandlerCommit, NEW j \in Ids,
           \/ signal'[j] # signal[j]
           \/ order'[j].status # order[j].status,
           AtBroker(j) \/ runner.id = j
    PROVE  AnyRow(j)'
<1>1. ~ (\E i \in Ids : HandlerInserts(i) /\ Ticketed(i)) /\ syncer.pc = "commit"
  BY DEF HandlerCommit
<1>2. order'[j] = NewOrder(j) /\ signal'[j] = NewSignal(j)
  BY <1>1, CommitEffect
<1>3. ~ GivesUp(j)
  <2>. SUFFICES ASSUME GivesUp(j) PROVE FALSE
    OBVIOUS
  <2>1. NeverFills(j)
    BY <1>1, GivesUpUnfilled
  <2>2. runner.id # j
    BY <1>1 DEF GivesUp, IInv, AbsentIsUnresolved, OldIsDone
  <2>. QED BY <2>1, <2>2 DEF AtBroker, NeverFills, Filled
<1>4. syncer.decision[j].mark
  BY <1>2, <1>3, NewOrderCount DEF NewSignal
<1>5. syncer.decision[j].row \in Inserting
  BY <1>1, <1>4 DEF RInv, DecisionsHold, DecisionHolds
<1>. QED BY <1>1, <1>5, CommitMovesRows

\* The signal of an order under way stays reserved until its row exists.
LEMMA CalledStaysReserved ==
    ASSUME IInv, RInv, FInv, SInv, CInv, MaxPosts < AbsentSyncs, [Next]_vars
    PROVE  CalledIsReserved'
<1>. DEFINE Called == {"sent", "created", "await", "settle"}
<1>1. CASE runner'.pc \notin Called
  BY <1>1 DEF CalledIsReserved
<1>2. CASE UNCHANGED runner /\ runner.pc \in Called
  <2>1. PICK i \in Ids : i = runner.id /\ (signal[i] = "SENT_TO_ORDER_MANAGER" \/ AnyRow(i))
    BY <1>2 DEF IInv, OrderFollowsRunner, CInv, CalledIsReserved
  <2>2. AnyRow(i) => AnyRow(i)'
    BY RowsStay
  <2>3. signal'[i] = signal[i] \/ AnyRow(i)'
    <3>1. ASSUME NEW j \in Ids, StartRun(j) \/ Interrupted(j) PROVE FALSE
      BY <1>2, <3>1 DEF StartRun, Interrupted, IdleRunner
    <3>2. ASSUME NEW j \in Ids, RunnerStep(j) PROVE UNCHANGED signal
      BY <1>2, <3>2, RejectEffect DEF RunnerStep, CheckSetup, PlanOpenPositions,
         PlanPendingOrders, PlanReservedSignals, EvaluateRisk, CreateOrder, Validate,
         ReceiveReply, LoseReply, Settle, IdleRunner, Goto, At, apiVars
    <3>3. HandlerCommit => signal'[i] = signal[i] \/ AnyRow(i)'
      BY <2>1, CommitTracks
    <3>. QED BY <3>1, <3>2, <3>3, SignalStep
  <2>. QED BY <1>2, <2>1, <2>2, <2>3 DEF CalledIsReserved, AnyRow
<1>3. ASSUME NEW j \in Ids, RunnerStep(j), runner.id = j, runner'.id = j, runner'.pc \in Called
      PROVE  CalledIsReserved'
  <2>1. CASE CheckSetup(j)
    BY <1>3, <2>1, GotoEffect DEF CheckSetup, Reject, IdleRunner, IInv, Shape, Steps
  <2>2. CASE PlanOpenPositions(j) \/ PlanPendingOrders(j)
    BY <1>3, <2>2 DEF PlanOpenPositions, PlanPendingOrders, IInv, Shape, RunnerShape
  <2>3. CASE PlanReservedSignals(j)
    <3>1. runner'.pc \in {"approved", "idle"}
      BY <2>3, PlanDecides DEF CInv, Reject, IdleRunner
    <3>. QED BY <1>3, <3>1
  <2>4. CASE EvaluateRisk(j)
    <3>1. SetSignal(j, "SENT_TO_ORDER_MANAGER")
      BY <1>3, <2>4 DEF EvaluateRisk, Reject, IdleRunner
    <3>2. signal'[j] = "SENT_TO_ORDER_MANAGER"
      BY <3>1 DEF SetSignal, IInv, Shape, DbShape
    <3>. QED BY <1>3, <3>2 DEF CalledIsReserved
  <2>5. CASE CreateOrder(j) \/ Validate(j) \/ ReceiveReply(j) \/ LoseReply(j)
    <3>1. runner.pc \in Called /\ UNCHANGED signal
      BY <2>5 DEF CreateOrder, Validate, ReceiveReply, LoseReply, At
    <3>2. AnyRow(j) => AnyRow(j)'
      BY RowsStay
    <3>. QED BY <1>3, <3>1, <3>2 DEF CInv, CalledIsReserved, AnyRow
  <2>6. CASE Settle(j)
    BY <1>3, <2>6 DEF Settle, IdleRunner
  <2>. QED BY <1>3, <2>1, <2>2, <2>3, <2>4, <2>5, <2>6 DEF RunnerStep
<1>. QED BY <1>1, <1>2, <1>3, RunnerMoves

\* The only step that brings a created order to the broker is the call.
LEMMA CreatedIsCalled ==
    ASSUME IInv, RInv, [Next]_vars, NEW j \in Ids, At("created", j), AtBroker(j)'
    PROVE  Validate(j) /\ Goto("await")
<1>1. ~ AtBroker(j)
  BY UncalledNeverFills DEF At, AtBroker, NeverFills, Filled
<1>2. ASSUME NEW k \in Ids, BrokerStep(k)
      PROVE  FALSE
  <2>1. k # j
    BY <1>1, <1>2 DEF BrokerStep, ExecuteCall, LateFill, AtBroker
  <2>2. /\ broker'[j] = broker[j] /\ late'[j] = late[j]
        /\ call'[j] = call[j]
    BY <1>2, <2>1 DEF BrokerStep, ExecuteCall, LateFill, Reply, IInv, Shape, BrokerShape
  <2>. QED BY <1>1, <2>2 DEF AtBroker
<1>3. ASSUME NEW k \in Ids, ClosePosition(k)
      PROVE  FALSE
  BY <1>1, <1>3 DEF ClosePosition, AtBroker, IInv, Shape, BrokerShape
<1>4. ASSUME NEW k \in Ids, Interrupted(k)
      PROVE  FALSE
  BY <1>1, <1>4 DEF Interrupted, AtBroker, IInv, Shape, BrokerShape
<1>5. CASE ApiCrash \/ BridgeCrash
  BY <1>1, <1>5 DEF ApiCrash, BridgeCrash, AtBroker
<1>6. ASSUME NEW k \in Ids, RunnerStep(k)
      PROVE  Validate(j) /\ Goto("await")
  BY <1>1, <1>6 DEF RunnerStep, CheckSetup, PlanOpenPositions, PlanPendingOrders,
     PlanReservedSignals, EvaluateRisk, CreateOrder, Validate, ReceiveReply, LoseReply,
     Settle, At, AtBroker, brokerVars
<1>7. CASE UNCHANGED brokerVars
  BY <1>1, <1>7 DEF AtBroker, brokerVars
<1>. QED BY <1>2, <1>3, <1>4, <1>5, <1>6, <1>7 DEF Next, HandlerStep, StartRun, Abort, At,
     GracePasses, AmbiguousTtlPasses, TakeSnapshot, LoadDeals, HandlerRead,
     HandlerCommit, ReceiveAnswer, PostAgain, GiveUpCycle, brokerVars, vars

\* An order leaves SENT and RECONCILING with a row, or when it cannot fill.
LEMMA OrderKeepsTrack ==
    ASSUME IInv, RInv, FInv, MaxPosts < AbsentSyncs, [Next]_vars, NEW j \in Ids,
           AtBroker(j), ~ Uncalled(j), order[j].status \in {"SENT", "RECONCILING"}
    PROVE  order'[j].status = order[j].status \/ AnyRow(j)'
<1>1. runner.pc \in {"created", "await"} => runner.id # j
  BY DEF IInv, OrderFollowsRunner
<1>2. ASSUME NEW i \in Ids, CreateOrder(i) \/ Validate(i) \/ ReceiveReply(i) \/ LoseReply(i)
      PROVE  order'[j] = order[j]
  <2>1. i # j
    BY <1>1, <1>2 DEF CreateOrder, Validate, ReceiveReply, LoseReply, At, Uncalled, BeforeOrder
  <2>2. \/ UNCHANGED order
        \/ \E status \in OrderStatus :
              order' = [order EXCEPT ![i].status = status] \/ Return(i, status)
    BY <1>2 DEF CreateOrder, Validate, ReceiveReply, LoseReply, OrderStatus
  <2>. QED BY <2>1, <2>2, SetStatusEffect, ReturnEffect DEF IInv, Shape
<1>3. ASSUME NEW i \in Ids, Interrupted(i)
      PROVE  order'[j] = order[j]
  <2>1. CASE UNCHANGED order
    BY <2>1
  <2>2. CASE ~ UNCHANGED order
    <3>1. i # j
      BY <1>1, <1>3, <2>2 DEF Interrupted, At
    <3>2. \E status \in OrderStatus : order' = [order EXCEPT ![i].status = status]
      BY <1>3, <2>2 DEF Interrupted, OrderStatus
    <3>. QED BY <3>1, <3>2, SetStatusEffect DEF IInv, Shape
  <2>. QED BY <2>1, <2>2
<1>4. CASE HandlerCommit
  BY <1>4, CommitTracks
<1>. QED BY <1>2, <1>3, <1>4 DEF Next, RunnerStep, BrokerStep, HandlerStep, StartRun,
     CheckSetup, PlanOpenPositions, PlanPendingOrders, PlanReservedSignals, EvaluateRisk,
     Settle, Abort, ExecuteCall, LateFill, ClosePosition, GracePasses,
     AmbiguousTtlPasses, TakeSnapshot, LoadDeals, HandlerRead, ReceiveAnswer, PostAgain,
     GiveUpCycle, ApiCrash, BridgeCrash, apiVars, vars

\* So does a signal its reservation.
LEMMA SignalKeepsTrack ==
    ASSUME IInv, RInv, FInv, SInv, CInv, MaxPosts < AbsentSyncs, [Next]_vars, NEW j \in Ids,
           AtBroker(j), ~ Uncalled(j), signal[j] \in {"SENT_TO_ORDER_MANAGER", "ORDER_RECONCILING"}
    PROVE  signal'[j] \in {signal[j], "ORDER_RECONCILING"} \/ AnyRow(j)'
<1>0. ~ NeverFills(j)
  BY DEF AtBroker, NeverFills, Filled
<1>1. CASE UNCHANGED signal
  BY <1>1
<1>2. CASE HandlerCommit
  BY <1>2, CommitTracks
<1>3. ASSUME NEW i \in Ids, StartRun(i) \/ RunnerStep(i) \/ Interrupted(i),
             runner.pc = "idle" \/ runner.id = i,
             \E s \in SignalStatus \ {"none"} : SetSignal(i, s)
      PROVE  signal'[j] \in {signal[j], "ORDER_RECONCILING"} \/ AnyRow(j)'
  <2>1. CASE i # j
    BY <1>3, <2>1, SetSignalType DEF IInv, Shape
  <2>2. CASE i = j /\ StartRun(j)
    BY <2>2 DEF StartRun
  <2>3. CASE i = j /\ Interrupted(j)
    <3>1. SetSignal(j, "ORDER_RECONCILING")
      BY <2>3 DEF Interrupted, At, Uncalled, BeforeOrder
    <3>. QED BY <3>1, SetSignalType DEF IInv, Shape, SignalStatus
  <2>4. CASE i = j /\ Settle(j)
    <3>1. /\ SetSignal(j, FinalStatus(runner.result))
          /\ runner.result \in {"EXECUTED", "REJECTED", "RECONCILING", "FAILED"}
          /\ runner.result \notin {"REJECTED", "FAILED"}
      BY <1>0, <2>4 DEF Settle, At, SInv, RunnerProtects
    <3>2. CASE runner.result = "EXECUTED"
      <4>1. AnyRow(j)
        BY <2>4, <3>2 DEF Settle, At, IInv, OrderFollowsRunner, CInv, ExecutedHasRow
      <4>. QED BY <4>1, RowsStay
    <3>3. CASE runner.result = "RECONCILING"
      <4>1. SetSignal(j, "ORDER_RECONCILING")
        BY <3>1, <3>3 DEF FinalStatus
      <4>. QED BY <4>1, SetSignalType DEF IInv, Shape, SignalStatus
    <3>. QED BY <3>1, <3>2, <3>3
  <2>5. CASE i = j /\ RunnerStep(j) /\ ~ Settle(j)
    BY <2>5 DEF RunnerStep, CheckSetup, PlanOpenPositions, PlanPendingOrders,
       PlanReservedSignals, EvaluateRisk, CreateOrder, Validate, ReceiveReply, LoseReply,
       At, Uncalled, BeforeOrder, apiVars
  <2>. QED BY <1>3, <2>1, <2>2, <2>3, <2>4, <2>5
<1>. QED BY <1>1, <1>2, <1>3, SignalStep

\* What is at risk is found by one of the three SELECTs.
LEMMA RiskStaysTracked ==
    ASSUME OlderTicket # "any", MaxPosts < AbsentSyncs,
           IInv, RInv, FInv, SInv, CInv, [Next]_vars
    PROVE  RiskIsTracked'
<1>. SUFFICES ASSUME NEW j \in Ids, Risky(j)', ~ Uncalled(j)'
              PROVE  Tracked(j)'
  BY DEF RiskIsTracked
<1>1. AtBroker(j)'
  BY DEF Risky, AtBroker, Uncalled, BeforeOrder
<1>2. AtBroker(j) \/ At("created", j)
  BY <1>1, BrokerRiskStays
<1>3. CASE At("created", j)
  <2>1. runner'.pc = "await" /\ runner'.id = j
    BY <1>1, <1>3, CreatedIsCalled, GotoEffect DEF IInv, Shape, Steps, At
  <2>2. CalledIsReserved'
    BY CalledStaysReserved
  <2>. QED BY <2>1, <2>2 DEF CalledIsReserved, Tracked, AnyRow
<1>4. CASE AtBroker(j)
  <2>1. ~ Uncalled(j)
    BY <1>4, UncalledNeverFills DEF Uncalled, AtBroker, NeverFills, Filled
  <2>2. Tracked(j)
    BY <1>4, <2>1 DEF CInv, RiskIsTracked, Risky, AtBroker
  <2>. QED BY <1>4, <2>1, <2>2, RowsStay, OrderKeepsTrack, SignalKeepsTrack DEF Tracked, AnyRow
<1>. QED BY <1>2, <1>3, <1>4

\* CInv is inductive.
LEMMA NextKeepsCInv ==
    ASSUME OlderTicket # "any", MaxPosts < AbsentSyncs, ~ Outage, ~ SyncMidPlan,
           IInv, RInv, FInv, SInv, OInv, ClosedMeansClosed, CInv, [Next]_vars
    PROVE  CInv'
  BY VolumesStay, ExecutedRowStays, CalledStaysReserved, RiskStaysTracked, PlanKeepsCounting,
     RiskStaysInLimit DEF CInv

\* CInv holds at first.
LEMMA InitCInv == Init => CInv
<1>. SUFFICES ASSUME Init PROVE CInv
  OBVIOUS
<1>1. VolumeShape /\ NeverAway /\ ExecutedHasRow /\ CalledIsReserved /\ RiskIsTracked /\ PlanCounts
  BY DEF Init, VolumeShape, NeverAway, ExecutedHasRow, CalledIsReserved, RiskIsTracked,
     PlanCounts, Planning, Risky, NoOrder, IdleRunner
<1>2. AtRisk = {}
  BY DEF Init, AtRisk, Risky, IdleRunner
<1>3. SumOver(AtRisk) = 0
  BY <1>2, SumOverIsSumF, SumEmpty
<1>. QED BY <1>1, <1>3, BoundsAssumption DEF CInv, RiskFits

(***************************************************************************)
(* The positions open in the account never exceed the configured maximum,  *)
(* for any number of attempts and any multipliers.  The planner adds up    *)
(* three SELECTs and an attempt travels between them; what may still open  *)
(* is always found by one of them, as long as the sync is not away for the *)
(* ambiguous TTL and does not commit in the middle of a plan.              *)
(* An older position that is found in place of the new one has its row.    *)
(***************************************************************************)
THEOREM ExposureStaysInLimit ==
    ASSUME MaxPosts < AbsentSyncs, MaxPosts < Confirmations,
           OlderTicket # "any", ~ QuickRoundTrip, ~ TicketLag, ~ Outage, ~ SyncMidPlan
    PROVE  Spec => []CapacityRespected
<1>. DEFINE Inv == /\ IInv /\ RInv /\ FInv /\ SInv /\ OInv /\ ClosedMeansClosed /\ CInv
<1>1. Init => Inv
  <2>1. Init => ClosedMeansClosed
    BY DEF Init, ClosedMeansClosed, NoRow
  <2>. QED BY <2>1, InitIInv, InitRInv, InitFInv, InitSInv, InitOInv, InitCInv
<1>2. Inv /\ [Next]_vars => Inv'
  BY NextKeeps, NextKeepsRows, NextKeepsFInv, NextKeepsSInv, NextKeepsOneRow, NextKeepsClosed,
     NextKeepsCInv
<1>3. Inv => CapacityRespected
  <2>. SUFFICES ASSUME CInv PROVE CapacityRespected
    OBVIOUS
  <2>1. OpenAtBroker \in SUBSET AtRisk /\ AtRisk \in SUBSET Ids
    BY DEF OpenAtBroker, AtRisk, Risky
  <2>2. IsFiniteSet(AtRisk) /\ \A x \in AtRisk : volume[x] \in Nat
    BY <2>1, IdsAreFinite, FS_Subset DEF CInv, VolumeShape
  <2>3. SumF(volume, OpenAtBroker) <= SumF(volume, AtRisk)
    BY <2>1, <2>2, SumMonotone
  <2>4. SumF(volume, OpenAtBroker) \in Nat /\ SumF(volume, AtRisk) \in Nat
    BY <2>1, <2>2, FS_Subset, SumType
  <2>5. SumF(volume, AtRisk) <= MaxEquiv
    BY SumOverIsSumF DEF CInv, RiskFits
  <2>6. SumF(volume, OpenAtBroker) <= MaxEquiv
    BY <2>3, <2>4, <2>5, BoundsAssumption
  <2>. QED BY <2>6, SumOverIsSumF DEF CapacityRespected
<1>. QED BY <1>1, <1>2, <1>3, PTL DEF Spec
=============================================================================
