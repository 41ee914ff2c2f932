----------------------------- MODULE TorumOrders -----------------------------
(***************************************************************************)
(* One entry of the Torum V1 strategy from signal to reconciled position:  *)
(*                                                                         *)
(*   runner   strategies/runner.py + orders/service.py: a thread of the    *)
(*            API that holds the symbol lock, saves the signal, plans the  *)
(*            exposure, creates the order and calls the bridge;            *)
(*   broker   the bridge's order call and the MT5 account behind it;       *)
(*   syncer   bridge/position_syncer.py: posts positions and deals;        *)
(*   handler  positions/service.py sync_mt5_positions: the API handler of  *)
(*            those posts.                                                 *)
(*                                                                         *)
(* Attempt i stands for the i-th signal, for the order created for it and  *)
(* for the broker position that order may open.  The variables signal,     *)
(* order and row hold what is COMMITTED to the database; what a            *)
(* transaction has not committed is part of the program counter of the     *)
(* process that runs it.  Every call of the terminal is atomic, which is   *)
(* what module MT5Access shows.                                            *)
(***************************************************************************)
EXTENDS Naturals, FiniteSets, FiniteSetsExt

CONSTANTS
    Attempts,       \* bound: how many entries are attempted, 1 .. Attempts
    Setups,         \* technical setups the strategy can propose
    MaxEquiv,       \* max_equivalent_positions
    AbsentSyncs,    \* torum_reconciliation_absent_syncs, at least 2
    Confirmations,  \* mt5_missing_position_confirmations, at least 2
    MaxPosts,       \* torum_http_max_retries: posts of one payload
    MaxFaults,      \* bound: crashes, restarts and exceptions
    TicketLag,      \* BOOLEAN: may order_send succeed before positions_get
                    \* shows the ticket?
    OlderTicket,    \* "none", "recorded" or "any": may the lookup take an older
                    \* position for the new one, one that has its row, or any?
    Outage,         \* BOOLEAN: may sync be away for the ambiguous TTL?
    QuickRoundTrip, \* BOOLEAN: may a position close between the history pass
                    \* that reads its entry deal and the next snapshot?
    SyncMidPlan     \* BOOLEAN: may a sync commit between the SELECTs of one
                    \* exposure plan?

ASSUME BoundsAssumption ==
    /\ Attempts \in Nat /\ MaxEquiv \in Nat \ {0} /\ MaxFaults \in Nat
    /\ AbsentSyncs \in Nat \ {0, 1} /\ Confirmations \in Nat \ {0, 1}
    /\ MaxPosts \in Nat \ {0}
ASSUME SwitchesAssumption ==
    /\ OlderTicket \in {"none", "recorded", "any"}
    /\ TicketLag \in BOOLEAN /\ Outage \in BOOLEAN
    /\ QuickRoundTrip \in BOOLEAN /\ SyncMidPlan \in BOOLEAN

Ids == 1 .. Attempts

\* A position's entry deal and its closing deal.
Deals == Ids \X {"in", "out"}

SignalStatus == {"none", "GENERATED", "RISK_APPROVED", "SENT_TO_ORDER_MANAGER",
                 "ORDER_RECONCILING", "ORDER_EXECUTED", "ORDER_FAILED",
                 "REJECTED_BY_RISK"}
OrderStatus == {"none", "CREATED", "VALIDATING", "SENT", "RECONCILING",
                "EXECUTED", "FAILED", "REJECTED"}
RowStatus == {"none", "OPEN", "CLOSED"}
CallState == {"none", "queued", "filled", "filledNoTicket", "filledOlder", "rejected", "ambiguous"}
Steps == {"idle", "generated", "plan", "planOrders", "planSignals", "approved",
          "sent", "created", "await", "settle"}

VARIABLES
    signal,   \* StrategySignal.status
    setup,    \* candle, pullback low and zone in the signal's metadata
    volume,   \* accepted multiplier of the signal and its order, 0 until planned
    order,    \* [status, ticket: mt5_position_ticket set, absent: count]
    row,      \* positions of the order: [api, ticketed, sync, missing]
    broker,   \* the position in the account: "absent", "open", "closed"
    late,     \* accepted by the broker, may still fill
    call,     \* the bridge's order call and its reply
    age,      \* 0: within grace, 1: past grace and reservation TTL,
              \* 2: past the ambiguous TTL
    runner,   \* [pc, id, used, pending, result]
    syncer,   \* [pc, tickets, deals, complete, posts, counted, decision]
    acked,    \* deals behind the syncer's cursor
    witnessed,\* payloads that counted an order absent (history variable)
    faults    \* crashes, restarts and exceptions so far

vars == <<signal, setup, volume, order, row, broker, late, call, age, runner,
          syncer, acked, witnessed, faults>>
apiVars == <<signal, setup, volume, order, row>>
brokerVars == <<broker, late, call>>
syncVars == <<syncer, acked, witnessed>>

NoOrder == [status |-> "none", ticket |-> FALSE, absent |-> 0]
\* api: the row _execute_mt5 inserts; sync: a row the handler inserts.
NoRow == [api |-> "none", ticketed |-> FALSE, sync |-> "none", missing |-> 0]
IdleRunner == [pc |-> "idle", id |-> 0, used |-> 0, pending |-> {}, result |-> "none"]
NoDecision == [row |-> "none", mark |-> FALSE, absent |-> FALSE]
IdleSyncer == [pc |-> "idle", tickets |-> {}, deals |-> {}, complete |-> FALSE,
               posts |-> 0, counted |-> FALSE,
               decision |-> [i \in Ids |-> NoDecision]]

Init ==
    /\ signal = [i \in Ids |-> "none"]
    /\ setup \in [Ids -> Setups]
    /\ volume = [i \in Ids |-> 0]
    /\ order = [i \in Ids |-> NoOrder]
    /\ row = [i \in Ids |-> NoRow]
    /\ broker = [i \in Ids |-> "absent"]
    /\ late = [i \in Ids |-> FALSE]
    /\ call = [i \in Ids |-> "none"]
    /\ age = [i \in Ids |-> 0]
    /\ runner = IdleRunner
    /\ syncer = IdleSyncer
    /\ acked = {}
    /\ witnessed = [i \in Ids |-> 0]
    /\ faults = 0

SumOver(S) == MapThenSumSet(LAMBDA j : volume[j], S)

-----------------------------------------------------------------------------
(* The runner: run_config under the symbol lock.                           *)

At(step, i) == runner.pc = step /\ runner.id = i
Goto(step) == runner' = [runner EXCEPT !.pc = step]
SetSignal(i, status) == signal' = [signal EXCEPT ![i] = status]

\* The lock is taken and the signal saved as GENERATED, one id after another.
StartRun(i) ==
    /\ runner.pc = "idle"
    /\ signal[i] = "none"
    /\ \A j \in Ids : j < i => signal[j] # "none"
    /\ SetSignal(i, "GENERATED")
    /\ runner' = [IdleRunner EXCEPT !.pc = "generated", !.id = i]
    /\ UNCHANGED <<setup, volume, order, row, brokerVars, age, syncVars, faults>>

\* Mutant: the reservation of an ambiguous order does not protect its setup.
ProtectedButReconciling == {"RISK_APPROVED", "SENT_TO_ORDER_MANAGER", "ORDER_EXECUTED"}

Protected == {"RISK_APPROVED", "SENT_TO_ORDER_MANAGER", "ORDER_RECONCILING",
              "ORDER_EXECUTED"}

\* _previous_torum_v1_setup_signal
DuplicateSetup(i) ==
    \E j \in Ids : j < i /\ setup[j] = setup[i] /\ signal[j] \in Protected

\* A rejection that saves the signal and returns: duplicate setup, dollar
\* filter, exposure plan or risk manager.
Reject(i) ==
    /\ SetSignal(i, "REJECTED_BY_RISK")
    /\ runner' = IdleRunner
    /\ UNCHANGED volume

CheckSetup(i) ==
    /\ At("generated", i)
    /\ \/ Reject(i)
       \/ /\ ~ DuplicateSetup(i)
          /\ Goto("plan")
          /\ UNCHANGED <<signal, volume>>
    /\ UNCHANGED <<setup, order, row, brokerVars, age, syncVars, faults>>

\* Mutant: rows inserted by the order manager are not found by ticket.
TicketedBySync(i) == row[i].sync # "none"

Ticketed(i) == row[i].ticketed \/ row[i].sync # "none"
TicketedOpen(i) == (row[i].ticketed /\ row[i].api = "OPEN") \/ row[i].sync = "OPEN"

\* _active_pending_orders
PendingOrder(j) ==
    \/ order[j].status \in {"CREATED", "VALIDATING"} /\ age[j] < 1
    \/ order[j].status \in {"SENT", "RECONCILING"} /\ age[j] < 2
\* _active_reserved_signals
ReservedSignal(j) ==
    \/ signal[j] = "RISK_APPROVED" /\ age[j] < 1
    \/ signal[j] \in {"SENT_TO_ORDER_MANAGER", "ORDER_RECONCILING"} /\ age[j] < 2

\* The first SELECT of plan_torum_v1_bot_exposure: a row without a ticket is
\* not live, and a ticket is in one row only.
PlanOpenPositions(i) ==
    /\ At("plan", i)
    /\ runner' = [runner EXCEPT !.pc = "planOrders",
                                !.used = SumOver({j \in Ids : TicketedOpen(j)})]
    /\ UNCHANGED <<apiVars, brokerVars, age, syncVars, faults>>

\* The second SELECT.
PlanPendingOrders(i) ==
    /\ At("planOrders", i)
    /\ LET pending == {j \in Ids : PendingOrder(j)}
       IN  runner' = [runner EXCEPT !.pc = "planSignals",
                                    !.used = @ + SumOver(pending),
                                    !.pending = pending]
    /\ UNCHANGED <<apiVars, brokerVars, age, syncVars, faults>>

\* Mutant: the plan checks that something is left, and takes what was asked.
AcceptedUncut(desired, left) == desired

Accepted(desired, left) == Min({desired, left})

\* The third SELECT, and the decision: the desired multiplier is cut to the
\* capacity left.  A signal whose order is pending is not counted again.
PlanReservedSignals(i) ==
    /\ At("planSignals", i)
    /\ LET reserved == {j \in Ids \ {i} : ReservedSignal(j)} \ runner.pending
           used     == runner.used + SumOver(reserved)
           left     == IF used >= MaxEquiv THEN 0 ELSE MaxEquiv - used
       IN  \/ /\ left > 0
              /\ \E desired \in 1 .. MaxEquiv :
                    volume' = [volume EXCEPT ![i] = Accepted(desired, left)]
              /\ SetSignal(i, "RISK_APPROVED")
              /\ runner' = [IdleRunner EXCEPT !.pc = "approved", !.id = i]
           \/ left = 0 /\ Reject(i)
    /\ UNCHANGED <<setup, order, row, brokerVars, age, syncVars, faults>>

\* RiskManager.evaluate_strategy_order
EvaluateRisk(i) ==
    /\ At("approved", i)
    /\ \/ Reject(i)
       \/ /\ SetSignal(i, "SENT_TO_ORDER_MANAGER")
          /\ Goto("sent")
          /\ UNCHANGED volume
    /\ UNCHANGED <<setup, order, row, brokerVars, age, syncVars, faults>>

\* _create_order saves the order.
CreateOrder(i) ==
    /\ At("sent", i)
    /\ order' = [order EXCEPT ![i].status = "CREATED"]
    /\ Goto("created")
    /\ UNCHANGED <<signal, setup, volume, row, brokerVars, age, syncVars, faults>>

\* What the order manager returns to the runner, with the order committed.
Return(i, status) ==
    /\ order' = [order EXCEPT ![i].status = status,
                              ![i].ticket = @ \/ (status = "EXECUTED"
                                                    /\ call[i] \in {"filled", "filledOlder"})]
    /\ runner' = [runner EXCEPT !.pc = "settle", !.result = status]

\* _validate_torum_confirmation before execution: a stale setup is rejected,
\* a fresh one is flushed as SENT, which locks its row, and goes to the bridge.
Validate(i) ==
    /\ At("created", i)
    /\ \/ Return(i, "REJECTED") /\ UNCHANGED call
       \/ /\ call' = [call EXCEPT ![i] = "queued"]
          /\ Goto("await")
          /\ UNCHANGED order
    /\ UNCHANGED <<signal, setup, volume, row, broker, late, age, syncVars, faults>>

\* The handler's transaction holds a new position row for ticket i.
HandlerInserts(i) ==
    syncer.pc = "commit" /\ syncer.decision[i].row \in {"insert", "insertClosed"}

\* Mutant: TRADE_RETCODE_PLACED is taken for a fill.
ReceiveReplyPlacedIsFill(i) ==
    /\ At("await", i)
    /\ \/ /\ call[i] \in {"filledNoTicket", "ambiguous"}
          /\ Return(i, "EXECUTED")
          /\ row' = [row EXCEPT ![i].api = "OPEN"]
       \/ call[i] = "rejected" /\ Return(i, "FAILED") /\ UNCHANGED row
    /\ call' = [call EXCEPT ![i] = "none"]
    /\ UNCHANGED <<signal, setup, volume, broker, late, age, syncVars, faults>>

\* Positions the lookup of a new one cannot tell from it.
Alike(i) == {j \in Ids \ {i} : volume[j] = volume[i]}

\* _execute_mt5 with a reply: EXECUTED with an OPEN row, FAILED, or RECONCILING.
\* A row with the ticket of an older position is a row of that position.
ReceiveReply(i) ==
    /\ At("await", i)
    /\ \/ /\ \/ call[i] = "filled" /\ ~ HandlerInserts(i)
             \/ call[i] = "filledNoTicket"
          /\ Return(i, "EXECUTED")
          /\ row' = [row EXCEPT ![i].api = "OPEN", ![i].ticketed = (call[i] = "filled")]
       \/ /\ OlderTicket = "any" /\ call[i] = "filledOlder"
          /\ Return(i, "EXECUTED")
          /\ \E j \in Alike(i) : /\ broker[j] = "open" /\ ~ Ticketed(j) /\ ~ HandlerInserts(j)
                                 /\ row' = [row EXCEPT ![j].sync = "OPEN"]
       \/ call[i] = "rejected" /\ Return(i, "FAILED") /\ UNCHANGED row
       \/ call[i] = "ambiguous" /\ Return(i, "RECONCILING") /\ UNCHANGED row
    /\ call' = [call EXCEPT ![i] = "none"]
    /\ UNCHANGED <<signal, setup, volume, broker, late, age, syncVars, faults>>

\* The HTTP call times out or is cut; the bridge may still carry it out.
LoseReply(i) ==
    /\ At("await", i)
    /\ Return(i, "RECONCILING")
    /\ call' = [call EXCEPT ![i] = IF @ = "queued" THEN @ ELSE "none"]
    /\ UNCHANGED <<signal, setup, volume, row, broker, late, age, syncVars, faults>>

\* The runner waits for the handler's new row and the handler for the order's
\* row: the database aborts one of the two transactions.  Or the runner's row
\* has a ticket that is in another one, and its transaction is aborted.
Abort(i) ==
    /\ At("await", i)
    /\ \/ /\ \/ call[i] = "filled" /\ HandlerInserts(i)
             \/ call[i] = "filledOlder" /\ \E j \in Alike(i) : Ticketed(j)
          /\ runner' = IdleRunner
          /\ call' = [call EXCEPT ![i] = "none"]
          /\ UNCHANGED syncer
       \/ /\ call[i] = "filled" /\ HandlerInserts(i)
          /\ syncer' = [syncer EXCEPT !.pc = "failed"]
          /\ UNCHANGED <<runner, call>>
    /\ UNCHANGED <<apiVars, broker, late, age, acked, witnessed, faults>>

FinalStatus(result) ==
    CASE result = "EXECUTED" -> "ORDER_EXECUTED"
      [] result = "REJECTED" -> "REJECTED_BY_RISK"
      [] result = "RECONCILING" -> "ORDER_RECONCILING"
      [] OTHER -> "ORDER_FAILED"

\* The runner's last commit; it writes the signal it loaded at the start.
Settle(i) ==
    /\ At("settle", i)
    /\ SetSignal(i, FinalStatus(runner.result))
    /\ runner' = IdleRunner
    /\ UNCHANGED <<setup, volume, order, row, brokerVars, age, syncVars, faults>>

\* The except block of run_config; it commits what the order manager had
\* assigned to the order when it was interrupted.
Interrupted(i) ==
    /\ faults < MaxFaults
    /\ faults' = faults + 1
    /\ runner.id = i
    /\ \/ At("approved", i) /\ SetSignal(i, "ORDER_FAILED") /\ UNCHANGED order
       \/ At("sent", i) /\ SetSignal(i, "ORDER_RECONCILING") /\ UNCHANGED order
       \/ /\ At("created", i)
          /\ SetSignal(i, "ORDER_RECONCILING")
          /\ order' = [order EXCEPT ![i].status = "VALIDATING"]
       \/ /\ At("await", i) /\ call[i] \notin {"queued", "none"}
          /\ SetSignal(i, "ORDER_RECONCILING")
          /\ order' = [order EXCEPT ![i].status = "SENT"]
       \/ /\ At("settle", i) /\ runner.result = "EXECUTED"
          /\ SetSignal(i, "ORDER_RECONCILING")
          /\ UNCHANGED order
    /\ call' = [call EXCEPT ![i] = "none"]
    /\ runner' = IdleRunner
    /\ UNCHANGED <<setup, volume, row, broker, late, age, syncVars>>

-----------------------------------------------------------------------------
(* The bridge's order call and the broker.                                 *)

\* A reply nobody waits for any more is dropped.
Reply(i, r) == call' = [call EXCEPT ![i] = IF At("await", i) THEN r ELSE "none"]

\* The terminal does not show the new position yet, and an older one is like it.
OlderIsFound(i) ==
    /\ OlderTicket # "none"
    /\ \E j \in Alike(i) : broker[j] = "open" /\ (OlderTicket = "any" \/ Ticketed(j))

\* order_send under the terminal's lock, and the lookup of the new position.
ExecuteCall(i) ==
    /\ call[i] = "queued"
    /\ \/ /\ broker' = [broker EXCEPT ![i] = "open"]
          /\ Reply(i, "filled") \/ (TicketLag /\ Reply(i, "filledNoTicket"))
                               \/ (OlderIsFound(i) /\ Reply(i, "filledOlder"))
                               \/ Reply(i, "ambiguous")
          /\ UNCHANGED late
       \/ /\ Reply(i, "rejected")
          /\ UNCHANGED <<broker, late>>
       \/ /\ Reply(i, "ambiguous")      \* no result, or "placed" without a deal
          /\ late' \in {late, [late EXCEPT ![i] = TRUE]}
          /\ UNCHANGED broker
    /\ UNCHANGED <<apiVars, age, runner, syncVars, faults>>

\* An accepted request fills, or is dropped by the broker.
LateFill(i) ==
    /\ late[i]
    /\ late' = [late EXCEPT ![i] = FALSE]
    /\ broker' \in {broker, [broker EXCEPT ![i] = "open"]}
    /\ UNCHANGED <<apiVars, call, age, runner, syncVars, faults>>

AnyRow(i) == row[i].api # "none" \/ row[i].sync # "none"

\* Take profit, or any other close in the account.
ClosePosition(i) ==
    /\ broker[i] = "open"
    /\ QuickRoundTrip \/ AnyRow(i) \/ <<i, "in">> \notin syncer.deals \cup acked
    /\ broker' = [broker EXCEPT ![i] = "closed"]
    /\ UNCHANGED <<apiVars, late, call, age, runner, syncVars, faults>>

\* Time.  An attempt and its call end well before the grace period does (a
\* ten-second HTTP timeout against twenty seconds), and so does a late fill.
GracePasses(i) ==
    /\ signal[i] # "none" /\ age[i] = 0
    /\ runner.id # i /\ call[i] # "queued" /\ ~ late[i]
    /\ age' = [age EXCEPT ![i] = 1]
    /\ UNCHANGED <<apiVars, brokerVars, runner, syncVars, faults>>

AmbiguousTtlPasses(i) ==
    /\ Outage
    /\ age[i] = 1
    /\ age' = [age EXCEPT ![i] = 2]
    /\ UNCHANGED <<apiVars, brokerVars, runner, syncVars, faults>>

-----------------------------------------------------------------------------
(* The syncer and the handler of its posts.                                *)

OpenAtBroker == {i \in Ids : broker[i] = "open"}
DealsAtBroker == {d \in Deals : broker[d[1]] = "closed"
                                \/ (broker[d[1]] = "open" /\ d[2] = "in")}

TakeSnapshot ==
    /\ syncer.pc = "idle"
    /\ syncer' = [IdleSyncer EXCEPT !.pc = "history", !.tickets = OpenAtBroker]
    /\ UNCHANGED <<apiVars, brokerVars, age, runner, acked, witnessed, faults>>

\* A complete pass reads every deal beyond the cursor.  A skipped pass, or one
\* cut between two chunks of time, reads the earlier ones and proves nothing.
LoadDeals ==
    /\ syncer.pc = "history"
    /\ LET new == DealsAtBroker \ acked
       IN  \/ syncer' = [syncer EXCEPT !.pc = "post", !.complete = TRUE, !.deals = new]
           \/ \E some \in SUBSET new :
                 /\ \A d \in some : d[2] = "out" => <<d[1], "in">> \in some \cup acked
                 /\ syncer' = [syncer EXCEPT !.pc = "post", !.deals = some]
    /\ UNCHANGED <<apiVars, brokerVars, age, runner, acked, witnessed, faults>>

\* _match_order_for_synced_mt5_position, by the order's comment
Matched(i) ==
    /\ order[i].status \in {"CREATED", "VALIDATING", "SENT", "EXECUTED", "FAILED",
                            "RECONCILING"}
    /\ ~ order[i].ticket

\* Mutant: a row missing from the snapshot waits for its close deal for ever.
RowDecisionDealsOnly(i) ==
    IF i \in syncer.tickets THEN (IF Ticketed(i) THEN "refresh" ELSE "insert")
    ELSE IF <<i, "out">> \in syncer.deals /\ TicketedOpen(i) THEN "close" ELSE "none"

\* What one pass of sync_mt5_positions decides about attempt i.  A position that
\* was never seen open is rebuilt from its entry and closing deals, which have
\* to be in the same payload.
RowDecision(i) ==
    IF i \in syncer.tickets
    THEN IF Ticketed(i) THEN "refresh"
         ELSE IF Matched(i) /\ row[i].api = "OPEN" THEN "link" ELSE "insert"
    ELSE IF {<<i, "in">>, <<i, "out">>} \subseteq syncer.deals /\ ~ Ticketed(i) /\ Matched(i)
         THEN "insertClosed"
    ELSE IF TicketedOpen(i)
         THEN (IF <<i, "out">> \in syncer.deals THEN "close" ELSE "missing")
    ELSE "none"

\* Mutants: the grace period is not waited for; only RECONCILING is looked at.
CountsAbsentAtOnce(i) ==
    syncer.complete /\ order[i].status \in {"SENT", "RECONCILING"} /\ ~ AnyRow(i)
CountsAbsentReconciling(i) ==
    syncer.complete /\ order[i].status = "RECONCILING" /\ age[i] >= 1 /\ ~ AnyRow(i)

\* _fail_absent_ambiguous_torum_orders
CountsAbsent(i) ==
    /\ syncer.complete
    /\ order[i].status \in {"SENT", "RECONCILING"}
    /\ age[i] >= 1
    /\ ~ AnyRow(i)

DecisionOf(i) ==
    LET r == RowDecision(i)
        m == Matched(i) /\ (i \in syncer.tickets \/ r = "insertClosed")
    IN  [row |-> r, mark |-> m, absent |-> CountsAbsent(i) /\ r = "none"]

\* The request reaches the API; the handler reads the database.
HandlerRead ==
    /\ syncer.pc = "post"
    /\ syncer' = [syncer EXCEPT !.pc = "commit",
                                !.posts = @ + 1,
                                !.decision = [i \in Ids |-> DecisionOf(i)]]
    /\ UNCHANGED <<apiVars, brokerVars, age, runner, acked, witnessed, faults>>

\* A row that has a ticket, whoever inserted it, takes the new status.
SetTicketed(r, status) ==
    IF r.sync # "none" THEN [r EXCEPT !.sync = status, !.missing = 0]
                       ELSE [r EXCEPT !.api = status, !.missing = 0]

\* Mutant: one absence closes a row.
NewRowFirstAbsence(r, decision) ==
    CASE decision = "refresh" -> SetTicketed(r, "OPEN")
      [] decision = "insert" -> [r EXCEPT !.sync = "OPEN"]
      [] decision = "insertClosed" -> [r EXCEPT !.sync = "CLOSED"]
      [] decision \in {"close", "missing"} -> SetTicketed(r, "CLOSED")
      [] OTHER -> r

NewRow(r, decision) ==
    CASE decision = "refresh" -> SetTicketed(r, "OPEN")
      [] decision = "link" -> [r EXCEPT !.ticketed = TRUE, !.api = "OPEN"]
      [] decision = "insert" -> [r EXCEPT !.sync = "OPEN"]
      [] decision = "insertClosed" -> [r EXCEPT !.sync = "CLOSED"]
      [] decision = "close" -> SetTicketed(r, "CLOSED")
      [] decision = "missing" ->
            IF r.missing + 1 < Confirmations THEN [r EXCEPT !.missing = @ + 1]
                                             ELSE SetTicketed(r, "CLOSED")
      [] OTHER -> r

GivesUp(i) == syncer.decision[i].absent /\ order[i].absent + 1 >= AbsentSyncs

NewOrder(i) ==
    LET d == syncer.decision[i]
    IN  IF d.mark THEN [order[i] EXCEPT !.status = "EXECUTED", !.ticket = TRUE]
        ELSE IF GivesUp(i) THEN [order[i] EXCEPT !.status = "FAILED", !.absent = AbsentSyncs]
        ELSE IF d.absent THEN [order[i] EXCEPT !.absent = @ + 1]
        ELSE order[i]

NewSignal(i) ==
    IF syncer.decision[i].mark THEN "ORDER_EXECUTED"
    ELSE IF GivesUp(i) /\ signal[i] \in {"RISK_APPROVED", "SENT_TO_ORDER_MANAGER",
                                         "ORDER_RECONCILING"}
         THEN "ORDER_FAILED"
    ELSE signal[i]

Planning == runner.pc \in {"planOrders", "planSignals"}

\* Mutant: the runner commits SENT before the call and holds no row lock.
OrderRowsUnlocked == TRUE

\* No order the handler has to update is locked by the runner's flush.
OrderRowsFree ==
    runner.pc = "await" => LET d == syncer.decision[runner.id]
                           IN  ~ d.mark /\ ~ d.absent

\* The handler's flush and commit.  It waits for a runner that holds the row of
\* an order it has to update, and fails on a ticket that was inserted meanwhile.
HandlerCommit ==
    /\ syncer.pc = "commit"
    /\ OrderRowsFree
    /\ SyncMidPlan \/ ~ Planning
    /\ IF \E i \in Ids : HandlerInserts(i) /\ Ticketed(i)
       THEN /\ syncer' = [syncer EXCEPT !.pc = "failed"]
            /\ UNCHANGED <<signal, order, row, witnessed>>
       ELSE /\ row' = [i \in Ids |-> NewRow(row[i], syncer.decision[i].row)]
            /\ order' = [i \in Ids |-> NewOrder(i)]
            /\ signal' = [i \in Ids |-> NewSignal(i)]
            /\ witnessed' = [i \in Ids |->
                  IF syncer.decision[i].absent /\ ~ syncer.counted
                  THEN witnessed[i] + 1 ELSE witnessed[i]]
            /\ syncer' = [syncer EXCEPT !.pc = "answered", !.counted = TRUE]
    /\ UNCHANGED <<setup, volume, brokerVars, age, runner, acked, faults>>

\* The answer arrives: the cursor moves past the deals of a complete pass.
ReceiveAnswer ==
    /\ syncer.pc = "answered"
    /\ acked' = IF syncer.complete THEN acked \cup syncer.deals ELSE acked
    /\ syncer' = IdleSyncer
    /\ UNCHANGED <<apiVars, brokerVars, age, runner, witnessed, faults>>

\* Mutant: the retry loop runs once more than torum_http_max_retries.
PostAgainUnbounded ==
    /\ syncer.pc \in {"answered", "failed"}
    /\ syncer.posts <= MaxPosts
    /\ syncer' = [syncer EXCEPT !.pc = "post", !.decision = IdleSyncer.decision]
    /\ UNCHANGED <<apiVars, brokerVars, age, runner, acked, witnessed, faults>>

\* The answer is lost or an error: _post_with_retries posts the payload again.
PostAgain ==
    /\ syncer.pc \in {"answered", "failed"}
    /\ syncer.posts < MaxPosts
    /\ syncer' = [syncer EXCEPT !.pc = "post", !.decision = IdleSyncer.decision]
    /\ UNCHANGED <<apiVars, brokerVars, age, runner, acked, witnessed, faults>>

\* No post gets through or no answer comes back: the cycle is given up.
GiveUpCycle ==
    /\ syncer.pc \in {"history", "post", "answered", "failed"}
    /\ syncer' = IdleSyncer
    /\ UNCHANGED <<apiVars, brokerVars, age, runner, acked, witnessed, faults>>

-----------------------------------------------------------------------------
(* Crashes.                                                                *)

\* The API process dies: its transactions roll back and the lock is free.
ApiCrash ==
    /\ faults < MaxFaults
    /\ faults' = faults + 1
    /\ runner' = IdleRunner
    /\ call' = [i \in Ids |-> IF call[i] = "queued" THEN "queued" ELSE "none"]
    /\ syncer' = IF syncer.pc = "commit" THEN [syncer EXCEPT !.pc = "failed"] ELSE syncer
    /\ UNCHANGED <<apiVars, broker, late, age, acked, witnessed>>

\* The bridge process dies: an order it has not sent is never sent, and the
\* next history pass is a full one.
BridgeCrash ==
    /\ faults < MaxFaults
    /\ faults' = faults + 1
    /\ syncer.pc # "commit"
    /\ call' = [i \in Ids |-> IF call[i] = "queued" THEN "none" ELSE call[i]]
    /\ syncer' = IdleSyncer
    /\ acked' = {}
    /\ UNCHANGED <<apiVars, broker, late, age, runner, witnessed>>

-----------------------------------------------------------------------------
RunnerStep(i) ==
    \/ CheckSetup(i) \/ PlanOpenPositions(i) \/ PlanPendingOrders(i)
    \/ PlanReservedSignals(i) \/ EvaluateRisk(i) \/ CreateOrder(i) \/ Validate(i)
    \/ ReceiveReply(i) \/ LoseReply(i) \/ Settle(i)

BrokerStep(i) == ExecuteCall(i) \/ LateFill(i)

HandlerStep == HandlerRead \/ HandlerCommit

Next ==
    \/ \E i \in Ids :
          \/ StartRun(i) \/ RunnerStep(i) \/ Abort(i) \/ Interrupted(i)
          \/ BrokerStep(i) \/ ClosePosition(i) \/ GracePasses(i) \/ AmbiguousTtlPasses(i)
    \/ TakeSnapshot \/ LoadDeals \/ HandlerStep \/ ReceiveAnswer \/ PostAgain
    \/ GiveUpCycle
    \/ ApiCrash \/ BridgeCrash

Spec == Init /\ [][Next]_vars

(***************************************************************************)
(* Fairness: threads of both processes run, calls of the terminal return,  *)
(* time passes; of the syncer's cycles infinitely many load their history  *)
(* completely and get their answer.  Signals, closes and crashes need not  *)
(* happen.                                                                 *)
(***************************************************************************)
FairSpec ==
    /\ Spec
    /\ \A i \in Ids : /\ WF_vars(RunnerStep(i)) /\ SF_vars(ReceiveReply(i))
                      /\ WF_vars(BrokerStep(i))
                      /\ WF_vars(GracePasses(i))
    /\ WF_vars(TakeSnapshot)
    /\ SF_vars(LoadDeals /\ syncer'.complete)
    /\ SF_vars(HandlerRead /\ syncer.complete)
    /\ SF_vars(HandlerCommit /\ syncer.complete)
    /\ WF_vars(HandlerStep)
    /\ SF_vars(ReceiveAnswer) /\ WF_vars(GiveUpCycle)

-----------------------------------------------------------------------------
TypeOK ==
    /\ signal \in [Ids -> SignalStatus]
    /\ setup \in [Ids -> Setups]
    /\ volume \in [Ids -> 0 .. MaxEquiv]
    /\ order \in [Ids -> [status : OrderStatus, ticket : BOOLEAN, absent : 0 .. AbsentSyncs]]
    /\ row \in [Ids -> [api : RowStatus, ticketed : BOOLEAN, sync : RowStatus,
                        missing : 0 .. Confirmations]]
    /\ broker \in [Ids -> {"absent", "open", "closed"}]
    /\ late \in [Ids -> BOOLEAN]
    /\ call \in [Ids -> CallState]
    /\ age \in [Ids -> 0 .. 2]
    /\ runner.pc \in Steps /\ runner.id \in Ids \cup {0}
    /\ syncer.tickets \subseteq Ids /\ syncer.deals \subseteq Deals
    /\ syncer.posts \in 0 .. MaxPosts
    /\ acked \subseteq Deals
    /\ faults \in 0 .. MaxFaults

Filled(i) == broker[i] # "absent"

(***************************************************************************)
(* One technical setup buys once: no two attempts of the same setup ever   *)
(* fill, whatever timeouts, late fills, crashes and retries happen between *)
(* them.                                                                   *)
(***************************************************************************)
OneFillPerSetup ==
    \A i, j \in Ids : i # j /\ setup[i] = setup[j] => ~ (Filled(i) /\ Filled(j))

(***************************************************************************)
(* An order is given up only if it never filled: the reservation that FAILED*)
(* releases was not holding a real position.                               *)
(***************************************************************************)
FailedNeverFilled ==
    \A i \in Ids : order[i].status = "FAILED" => ~ Filled(i)

(***************************************************************************)
(* What the database calls executed did open a position in the account, and*)
(* a signal is executed only together with its order.                      *)
(***************************************************************************)
ExecutedMeansFilled ==
    \A i \in Ids : /\ order[i].status = "EXECUTED" => Filled(i)
                   /\ signal[i] = "ORDER_EXECUTED" => order[i].status = "EXECUTED"

(***************************************************************************)
(* A position row is closed only after the position is: no stale snapshot  *)
(* and no run of missed snapshots closes a live position.                  *)
(***************************************************************************)
ClosedMeansClosed ==
    \A i \in Ids : row[i].api = "CLOSED" \/ row[i].sync = "CLOSED" => broker[i] = "closed"

(***************************************************************************)
(* The positions open in the account stay within the configured maximum of *)
(* equivalents, although the planner adds up three separate SELECTs.       *)
(***************************************************************************)
CapacityRespected == SumOver(OpenAtBroker) <= MaxEquiv

(***************************************************************************)
(* One broker position is one OPEN row, whoever inserted it.               *)
(***************************************************************************)
OneOpenRow == \A i \in Ids : ~ (row[i].api = "OPEN" /\ row[i].sync = "OPEN")

(***************************************************************************)
(* An order with a ticket has the row of its own position.  It does not    *)
(* hold with OlderTicket = "any": the ticket may be that of an older one.  *)
(***************************************************************************)
TicketIsOwn == \A i \in Ids : order[i].ticket => Ticketed(i)

(***************************************************************************)
(* An order is given up only after AbsentSyncs different snapshots of the  *)
(* account did not have it.                                                *)
(***************************************************************************)
GivenUpOnDistinctSnapshots ==
    \A i \in Ids : order[i].absent = AbsentSyncs => witnessed[i] >= AbsentSyncs

(***************************************************************************)
(* No step takes an executed order back to any other status.               *)
(***************************************************************************)
ExecutedIsFinal ==
    [][\A i \in Ids : order[i].status = "EXECUTED" => order'[i].status = "EXECUTED"]_vars

(***************************************************************************)
(* An ambiguous order is resolved: found in the account or given up.       *)
(***************************************************************************)
AmbiguousOrderResolved ==
    \A i \in Ids : order[i].status \in {"SENT", "RECONCILING"}
                     ~> order[i].status \in {"EXECUTED", "FAILED"}

(***************************************************************************)
(* A position that closed in the account does not stay OPEN in the database*)
(***************************************************************************)
GhostCleared ==
    \A i \in Ids : broker[i] = "closed" /\ row[i].api = "OPEN" ~> row[i].api # "OPEN"

(***************************************************************************)
(* A signal that waits for reconciliation gets an answer.                  *)
(***************************************************************************)
AmbiguousSignalResolved ==
    \A i \in Ids : signal[i] = "ORDER_RECONCILING" ~> signal[i] # "ORDER_RECONCILING"

(***************************************************************************)
(* An order row that was created does not stay unresolved for ever.        *)
(***************************************************************************)
CreatedOrderResolved ==
    \A i \in Ids : signal[i] = "SENT_TO_ORDER_MANAGER" ~> signal[i] # "SENT_TO_ORDER_MANAGER"
=============================================================================
