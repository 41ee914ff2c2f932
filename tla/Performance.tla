---------------------------- MODULE Performance ----------------------------
(* The capital ledger and the performance report: balance deals and closed    *)
(* trades of the broker accounts, the movements a user enters by hand, the    *)
(* import of the balance deals the bridge posts, and the report that is       *)
(* rebuilt from them.  Money and time are small numbers; a "month" is         *)
(* MonthLength instants.  The broker stamps its times Zone instants ahead.    *)
EXTENDS Integers, Sequences, FiniteSets, FiniteSetsExt, Folds

CONSTANTS
  Accounts, Unknown,
  Zone,          \* broker wall clock minus real time
  Tolerance,     \* how far apart an entered and an imported movement may be
  MonthLength,
  CashAmounts, ProfitAmounts,   \* amounts of deposits, and of trades
  EntryKinds,    \* kinds of movement a user enters
  MaxTime, MaxEvents            \* bounds of the exploration

ASSUME LedgerAssumption ==
  /\ Zone \in Int /\ Tolerance \in Nat /\ MonthLength \in Nat \ {0}
  /\ CashAmounts \subseteq Int /\ ProfitAmounts \subseteq Int
  /\ Unknown \notin Int /\ Unknown \notin Accounts

VARIABLES
  now,        \* real time
  deals,      \* balance deals of the broker; a ticket is a number
  trades,     \* trades, and what the row of the position says: "open", "pending", "exact"
  movements,  \* table strategy_capital_movements
  posted,     \* per account: the last ticket the bridge has posted
  status,     \* mt5_status_store: login and balance, Unknown when disconnected
  entry,      \* create_manual_movement between its check and its commit
  events      \* how many deals, trades and entries there were
perfVars == <<now, deals, trades, movements, posted, status, entry, events>>

RealTime(wall) == wall - Zone
Near(s, t) == s - t <= Tolerance /\ t - s <= Tolerance
Amount(S) == MapThenSumSet(LAMBDA e : e.amount, S)
Balance(a) == Amount({d \in deals : d.login = a}) + Amount({t \in trades : t.login = a})

PerfInit ==
  /\ now = 1 /\ deals = {} /\ trades = {} /\ movements = {} /\ events = 0
  /\ posted = [a \in Accounts |-> 0] /\ status = Unknown /\ entry = Unknown

----------------------------------------------------------------------------
(* The broker. *)

Tick == now < MaxTime /\ now' = now + 1
        /\ UNCHANGED <<deals, trades, movements, posted, status, entry, events>>

BalanceDeal(a, amount) ==
  /\ events < MaxEvents /\ events' = events + 1
  /\ deals' = deals \cup {[login |-> a, ticket |-> events', wall |-> now + Zone, amount |-> amount]}
  /\ UNCHANGED <<now, trades, movements, posted, status, entry>>

TradeCloses(a, opened, amount) ==
  /\ events < MaxEvents /\ events' = events + 1
  /\ trades' = trades \cup {[login |-> a, id |-> events', opened |-> opened + Zone,
                             closed |-> now + Zone, amount |-> amount, row |-> "open"]}
  /\ UNCHANGED <<now, deals, movements, posted, status, entry>>

\* A sync closes the row, without its result when the deal is not known yet.
RowCloses(t, row) ==
  /\ t.row \in {"open", "pending"} /\ row # t.row
  /\ trades' = (trades \ {t}) \cup {[t EXCEPT !.row = row]}
  /\ UNCHANGED <<now, deals, movements, posted, status, entry, events>>

PostAccountStatus(a) ==
  /\ status' = IF a = Unknown THEN Unknown ELSE [login |-> a, balance |-> Balance(a)]
  /\ status' # status
  /\ UNCHANGED <<now, deals, trades, movements, posted, entry, events>>

----------------------------------------------------------------------------
(* The ledger. *)

\* _account_scope: the account that is connected, else that of the newest position.
Newest(S) == CHOOSE t \in S : \A u \in S : <<u.closed, u.id>> = <<t.closed, t.id>>
               \/ u.closed < t.closed \/ (u.closed = t.closed /\ u.id < t.id)
Known == {t \in trades : t.row # "open"}
Scope == IF status # Unknown THEN status.login ELSE IF Known = {} THEN Unknown ELSE Newest(Known).login

InScope(m) ==
  \/ m.mine /\ (Scope # Unknown => m.login \in {Scope, Unknown})
  \/ m.source = "MT5" /\ Scope # Unknown /\ m.login = Scope
Ledger == {m \in movements : InScope(m)}

\* The request is checked against the movements MT5 reported ...
Enter(kind, amount, time) ==
  LET same == {m \in movements : /\ m.source = "MANUAL" /\ m.mine /\ m.kind = "INITIAL"
                                 /\ m.login \in {Scope, Unknown}}
  IN /\ entry = Unknown /\ events < MaxEvents /\ events' = events + 1
     /\ kind \in {"DEPOSIT", "WITHDRAWAL"} /\ Scope # Unknown =>
          ~\E m \in movements : /\ m.source = "MT5" /\ m.login = Scope
                                /\ Near(m.time, time) /\ m.amount = amount
     /\ entry' = [id |-> IF kind = "INITIAL" /\ same # {} THEN Min({m.id : m \in same}) ELSE events',
                  login |-> Scope, mine |-> TRUE, kind |-> kind, source |-> "MANUAL",
                  time |-> time, amount |-> amount, ticket |-> Unknown]
     /\ UNCHANGED <<now, deals, trades, movements, posted, status>>

\* ... and committed: a capital base entered before is replaced.
CommitEntry ==
  /\ entry # Unknown /\ entry' = Unknown
  /\ movements' = {m \in movements : m.id # entry.id} \cup {entry}
  /\ UNCHANGED <<now, deals, trades, posted, status, events>>

DeleteMovement(m) ==
  /\ m.source = "MANUAL" /\ movements' = movements \ {m}
  /\ UNCHANGED <<now, deals, trades, posted, status, entry, events>>

----------------------------------------------------------------------------
(* sync_mt5_capital_flows over one post.  "saved" is what a query sees: a     *)
(* promoted row is changed in memory only until the next insert is flushed.   *)

ImportedAtWallTime(m, d) ==   \* (a mutant: the zone of the broker forgotten)
  [m EXCEPT !.source = "MT5", !.ticket = d.ticket, !.amount = d.amount, !.time = d.wall,
            !.kind = IF d.amount > 0 THEN "DEPOSIT" ELSE "WITHDRAWAL"]
Imported(m, d) == [m EXCEPT !.source = "MT5", !.ticket = d.ticket, !.amount = d.amount,
                            !.time = RealTime(d.wall),
                            !.kind = IF d.amount > 0 THEN "DEPOSIT" ELSE "WITHDRAWAL"]
NewImport(d) == Imported([id |-> -d.ticket, login |-> d.login, mine |-> FALSE, kind |-> "DEPOSIT",
                          source |-> "MT5", time |-> 0, amount |-> 0, ticket |-> Unknown], d)

Matches(book, d) ==
  LET near == {m.id : m \in {s \in book.saved : /\ s.source = "MANUAL" /\ s.login = d.login
                                                /\ Near(s.time, RealTime(d.wall))}}
  IN {m \in book.memory : m.id \in near /\ m.amount = d.amount}

Import(book, d) ==
  LET matches == Matches(book, d)
      all == book.memory \cup {NewImport(d)}
  IN IF \E m \in book.saved : m.login = d.login /\ m.ticket = d.ticket THEN book
     ELSE IF Cardinality(matches) = 1
          THEN [book EXCEPT !.memory = (@ \ matches) \cup {Imported(m, d) : m \in matches}]
          ELSE [saved |-> all, memory |-> all]

\* The deals of a post are imported in their order: the latest after the others.
Latest(batch) == CHOOSE d \in batch : \A c \in batch : c.ticket <= d.ticket
ImportAll(batch) ==
  MapThenFoldSet(LAMBDA d, book : Import(book, d), [saved |-> movements, memory |-> movements],
                 LAMBDA d : d, Latest, batch)

\* The bridge posts the balance deals of the connected account: those after
\* its cursor, or after a restart all of them.
PostDeals(a, from) ==
  LET batch == {d \in deals : d.login = a /\ d.ticket > from}
  IN /\ batch # {} /\ from \in {0, posted[a]}
     /\ movements' = ImportAll(batch).memory
     /\ posted' = [posted EXCEPT ![a] = Max({d.ticket : d \in batch} \cup {@})]
     /\ UNCHANGED <<now, deals, trades, status, entry, events>>

----------------------------------------------------------------------------
(* The report. *)

ClosedTrades == {t \in Known : Scope # Unknown => t.login = Scope}
Profits == {[id |-> t.id, time |-> RealTime(t.closed), opened |-> RealTime(t.opened), amount |-> t.amount] :
             t \in {u \in ClosedTrades : u.row = "exact"}}
In(S, first, last) == {e \in S : first <= e.time /\ e.time <= last}

\* What the account held when a trade was opened: _profit_events walks back.
HeldAtOpening(opened) ==
  status.balance - Amount({p \in Profits : p.time >= opened}) - Amount({m \in Ledger : m.time > opened})

Initial(ledger, end) == {m \in ledger : m.kind = "INITIAL" /\ m.time <= end}

\* The capital a window starts with, Unknown when nothing tells it.
CapitalStart(profits, ledger, start, end) ==
  LET initial == Initial(ledger, end)
      first == Min({m.time : m \in initial})
  IN IF initial # {}
     THEN IF first > start THEN 0
          ELSE Amount(In(profits, first, start - 1)) + Amount(In(ledger, first, start))
     ELSE IF status # Unknown
          THEN status.balance - Amount(In(profits, start, now)) - Amount(In(ledger, start + 1, now))
          ELSE Unknown

\* Time-weighted: at each instant the cash comes first, then the profit is
\* related to the capital there is.  A factor is a fraction.
Weighted(profits, ledger, acc, t, start) ==
  LET capital == acc.capital + (IF t > start THEN Amount(In(ledger, t, t)) ELSE 0)
      profit == Amount(In(profits, t, t))
  IN [capital |-> capital + profit,
      over  |-> IF profit # 0 /\ capital > 0 THEN acc.over * (capital + profit) ELSE acc.over,
      under |-> IF profit # 0 /\ capital > 0 THEN acc.under * capital ELSE acc.under]

\* The return of a window, instant after instant.
Return(profits, ledger, base, start, end) ==
  MapThenFoldSet(LAMBDA t, acc : Weighted(profits, ledger, acc, t, start),
                 [capital |-> IF base = Unknown THEN 0 ELSE base, over |-> 1, under |-> 1],
                 LAMBDA t : t, Max, start..end)

\* The events are loaded once for all windows of a report.
Window(profits, ledger, start, end) ==
  LET base == CapitalStart(profits, ledger, start, end)
      run == Return(profits, ledger, base, start, end)
  IN [start |-> base, end |-> IF base = Unknown THEN Unknown ELSE run.capital,
      over |-> run.over, under |-> run.under,
      profit |-> Amount(In(profits, start, end)), cash |-> Amount(In(ledger, start + 1, end))]

MonthsThatOverlap(start, end) ==   \* (a mutant: a month ends with the first instant of the next)
  LET key(t) == t \div MonthLength
      of(k) == [from |-> Max({start, k * MonthLength}), to |-> Min({end, (k + 1) * MonthLength})]
  IN [i \in 1..(key(end) - key(start) + 1) |-> of(key(start) + i - 1)]
\* The months of a report: the last instant before the next month ends one.
Months(start, end) ==
  LET key(t) == t \div MonthLength
      of(k) == [from |-> Max({start, k * MonthLength}), to |-> Min({end, (k + 1) * MonthLength - 1})]
  IN [i \in 1..(key(end) - key(start) + 1) |-> of(key(start) + i - 1)]

\* The returns of the months, compounded.
Compounded(part) ==
  MapThenFoldSet(LAMBDA i, f : <<f[1] * part[i].over, f[2] * part[i].under>>, <<1, 1>>,
                 LAMBDA i : i, Max, DOMAIN part)

\* The days are windows too, of the dates on which something was closed.
DayProfit(profits, day) == Amount(In(profits, day, day))

----------------------------------------------------------------------------
PerfNext ==
  \/ Tick
  \/ \E a \in Accounts :
       \/ \E c \in CashAmounts : BalanceDeal(a, c)
       \/ \E o \in 1..now, p \in ProfitAmounts : TradeCloses(a, o, p)
       \/ \E from \in {0, posted[a]} : PostDeals(a, from)
  \/ \E t \in trades, row \in {"pending", "exact"} : RowCloses(t, row)
  \/ \E a \in Accounts \cup {Unknown} : PostAccountStatus(a)
  \/ \E kind \in EntryKinds, c \in CashAmounts, t \in 1..now : Enter(kind, c, t)
  \/ CommitEntry
  \/ \E m \in movements : DeleteMovement(m)

----------------------------------------------------------------------------
(* Every reconstructed number is the real one, once the ledger is complete:   *)
(* all deals of the connected account imported, all its trades exact, nothing *)
(* entered by hand and a status of now.  Then the capital at the start and at *)
(* the end of every window, and at every opening, is what the account held.   *)
Complete ==
  /\ status # Unknown /\ status.balance = Balance(status.login)
  /\ \A d \in deals : d.login = Scope => \E m \in Ledger : m.ticket = d.ticket
  /\ \A t \in trades : t.login = Scope => t.row = "exact"
  /\ \A m \in Ledger : m.source = "MT5"

HeldBefore(time) ==   \* real balance before the trades that close at "time"
  Amount({d \in deals : d.login = Scope /\ d.wall - Zone <= time})
  + Amount({t \in trades : t.login = Scope /\ t.closed - Zone < time})

LedgerIsTheAccount ==
  Complete =>
    /\ \A start, end \in 1..now : start < end =>
         LET window == Window(Profits, Ledger, start, end)
         IN window.start = HeldBefore(start) /\ (end = now => window.end = status.balance)
    /\ \A t \in ClosedTrades : HeldAtOpening(RealTime(t.opened)) = HeldBefore(RealTime(t.opened))

(* The months add up to the period: profit and days without a condition, and  *)
(* when no capital base was entered for a time inside the period also capital *)
(* and return: a month starts with what the one before it ended with and the  *)
(* cash of its first instant, and the factors multiply.                        *)
MonthsAddUp ==
  \A start, end \in 1..now : start < end =>
    LET profits == Profits
        ledger == Ledger
        whole == Window(profits, ledger, start, end)
        months == Months(start, end)
        part == [i \in DOMAIN months |-> Window(profits, ledger, months[i].from, months[i].to)]
        factors == Compounded(part)
    IN /\ MapThenSumSet(LAMBDA i : part[i].profit, DOMAIN part) = whole.profit
       /\ MapThenSumSet(LAMBDA d : DayProfit(profits, d), start..end) = whole.profit
       /\ whole.start # Unknown /\ (\A m \in Initial(ledger, end) : m.time <= start) =>
            /\ part[Len(months)].end = whole.end
            /\ \A i \in 2..Len(months) :
                 part[i].start = part[i - 1].end + Amount(In(ledger, months[i].from, months[i].from))
            /\ factors[1] * whole.under = factors[2] * whole.over

\* No deal that was posted is missing from the ledger.  It does not hold: two
\* equal deals of one post take the same entered movement.
PostedIsBooked ==
  \A d \in deals : d.ticket <= posted[d.login] =>
    \E m \in movements : m.login = d.login /\ m.ticket = d.ticket
\* The cash of the months is that of the period.  It does not hold: a movement
\* of the first instant of a month is in no month.
MonthlyCashAddsUp ==
  \A start, end \in 1..now : start < end =>
    LET months == Months(start, end)
    IN MapThenSumSet(LAMBDA i : Window(Profits, Ledger, months[i].from, months[i].to).cash, DOMAIN months)
         = Window(Profits, Ledger, start, end).cash
=============================================================================
