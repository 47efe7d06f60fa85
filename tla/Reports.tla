------------------------------- MODULE Reports -------------------------------
(***************************************************************************)
(* What the household is shown of its money, and the monthly digest:       *)
(* KPIs (kpis/), balance sheets (balance_sheets/), projections             *)
(* (projections/), the Celery tasks that put them into a Telegram message  *)
(* (scheduler/, celery_app.py), and the start of the app, which seeds.     *)
(*                                                                         *)
(* A session is a request, the start of the app, or a task in a process of *)
(* the Celery worker.  It is a script of queries; a query sees what is     *)
(* committed (READ COMMITTED) and the session's own writes, so what other  *)
(* sessions commit in between is seen by the later ones.                   *)
(***************************************************************************)
EXTENDS Integers, Sequences, FiniteSetsExt

CONSTANTS
  Households,
  Accounts, Owner,     \* active accounts and the household of each
  Opening,             \* initial_balance
  Joint,               \* accounts whose IBAN ends in 1121
  Bookings, AccountOf, Amount,
  InPeriod, Before,    \* bookings dated in the reported month, in the one before
  Mentions,            \* the accounts whose IBANs are in the text of a booking
  Categories, Key,     \* categories, and the KPI variable each counts for
  Transfer, DepotTransfer, \* "Internal Transfer", "Depot Transfer"
  Uncategorized,       \* no category
  Usual, Late,         \* the categories at the start, the bookings not yet stored
  Builtin,             \* the formulas of BUILTIN_KPIS, by name
  Configs, Default,    \* settings of a projection, and those of a new one
  YearMonths, Hundred, \* 12 months and 100 percent, smaller for model checking
  MonthDays,           \* the days of the reported month
  RateLimit,           \* the largest savings rate the column can hold, in percent
  Linked,              \* households with a Telegram chat and a bot token
  Workers, Requests,   \* bound: processes of the Celery worker, sessions of the app
  Asked,               \* bound: kind and household of the sessions of the app
  Reported,            \* bound: households whose digests a run follows
  Events,              \* bound: what else may happen in a run
  Touched,             \* bound: stored bookings that other sessions change
  MaxEvents,           \* bound: changes of the data, deploys and deaths of processes
  None

All == "all"    \* the message that starts generate_all_monthly_reports

ASSUME DataAssumption ==
  /\ Owner \in [Accounts -> Households] /\ Opening \in [Accounts -> Int]
  /\ Joint \subseteq Accounts /\ Linked \subseteq Households
  /\ AccountOf \in [Bookings -> Accounts] /\ Amount \in [Bookings -> Int \ {0}]
  /\ IsFiniteSet(Bookings) /\ IsFiniteSet(Accounts)
  /\ InPeriod \cup Before \subseteq Bookings /\ InPeriod \cap Before = {}
  /\ Mentions \in [Bookings -> SUBSET Accounts]
  /\ Usual \in [Bookings -> Categories \cup {Transfer, DepotTransfer, Uncategorized}]
  /\ YearMonths \in Nat \ {0} /\ Hundred \in Nat \ {0} /\ RateLimit \in Nat
  /\ MonthDays \in Nat \ {0}
  /\ Default \in Configs /\ All \notin Households
  /\ Reported \subseteq Households /\ Late \cup Touched \subseteq Bookings
  /\ Events \subseteq {"deploy", "kill", "outage", "delete"}
  /\ Asked \subseteq {"kpis", "sheet", "projection", "update"} \X Households
                       \cup {"start"} \X {None}
  /\ IsFiniteSet(Workers) /\ IsFiniteSet(Requests) /\ Workers \cap Requests = {}
  /\ MaxEvents \in Nat

\* Only the days of the month are divided by with /, and they are not 0.
ASSUME RateAssumption ==
  /\ \A k \in DOMAIN Builtin : Builtin[k].op = "ratio" => Builtin[k].y = "days_in_period"
  /\ "Savings Rate" \in DOMAIN Builtin
  /\ Builtin["Savings Rate"] = [op |-> "pct", x |-> "net_cashflow", y |-> "total_income"]

\* The router checks no setting: rates and horizons may be negative.
ASSUME ConfigAssumption ==
  \A c \in Configs :
    /\ c.return \in Int /\ c.inflation \in Int /\ c.years \in Int
    /\ c.monthly = None \/ c.monthly \in Int

VARIABLES
  \* committed rows
  alive,      \* users, all of them active
  booked,     \* transactions
  category,   \* their category_id
  excluded,   \* those with exclude_from_totals
  shared,     \* accounts with include_in_household
  configs,    \* active projection_configs of each household
  kpis,       \* kpi_definitions of each built-in name
  digests,    \* monthly_reports of each household, by sent_via_telegram
  \* the Celery broker and worker
  queue,      \* messages waiting for a process
  pool,       \* the database connection a process keeps
  work,       \* the sessions
  \* Telegram
  sent,       \* digests that have arrived
  \* history, read by properties only
  events,     \* changes of the data, deploys and deaths of processes so far
  raced,      \* households, and "kpis", two sessions have found without rows
  redelivered,\* messages that came back from a process that died
  lost        \* households whose task has raised or died with its process

data    == <<alive, booked, category, excluded, shared>>
rows    == <<configs, kpis, digests>>
celery  == <<queue, pool>>
history == <<events, raced, redelivered, lost>>
vars    == <<data, rows, celery, work, sent, history>>

-----------------------------------------------------------------------------
(* Sums over bookings *)

Sum(B)     == MapThenSumSet(LAMBDA b : Amount[b], B)
Income(B)  == Sum({b \in B : Amount[b] > 0})
Expense(B) == -Sum({b \in B : Amount[b] < 0})

Percent(part, whole) == IF whole = 0 THEN 0 ELSE (part * 100) \div whole

\* Fault: every internal transfer drops out, also one from a personal account.
CountsTransfersOut(b, accs) ==
  b \notin excluded /\ category[b] \notin {Transfer, DepotTransfer}

\* is_cashflow_relevant: what is excluded, moves between household accounts and to
\* the depot, and what goes to a personal account do not count; what comes from a
\* personal account does.
Counts(b, accs) ==
  /\ b \notin excluded
  /\ category[b] = Transfer => Mentions[b] \cap accs = {} /\ Amount[b] > 0
  /\ category[b] # DepotTransfer

\* The bookings of accs in a period that count.
Counted(accs, period) ==
  {b \in booked \cap period : AccountOf[b] \in accs /\ Counts(b, accs)}

Totals(B) ==
  [income |-> Income(B), expense |-> Expense(B), net |-> Income(B) - Expense(B)]

\* get_account_balance, over all dates.
BalanceOf(a) == Opening[a] + Sum({b \in booked : AccountOf[b] = a})

-----------------------------------------------------------------------------
(* KPIs: kpis/engine.py *)

\* The sums and counts of the expenses of each category, by its variable.
ByKey(B) ==
  LET spent(k) == {b \in B : Amount[b] < 0 /\ Key[category[b]] = k}
      keys     == {Key[category[b]] : b \in {c \in B : Amount[c] < 0}}
  IN  [k \in keys |-> [total |-> Expense(spent(k)), count |-> Cardinality(spent(k))]]

\* compute_aggregates_for_period.  The average divides by all bookings that count.
Aggregates(B, P) ==
  [now     |-> Totals(B),
   before  |-> Totals(P),
   count   |-> Cardinality(B),
   average |-> IF B = {} THEN 0 ELSE Expense(B) \div Cardinality(B),
   largest |-> Max({0} \cup {-Amount[b] : b \in B}),
   keys    |-> ByKey(B)]

NoAggregates == Aggregates({}, {})

\* _build_namespace: the variables a formula can use, but for the counts of categories,
\* which no built-in formula names.  A category without expenses in the period has none.
Namespace(agg) ==
  LET base == [total_income |-> agg.now.income, total_expense |-> agg.now.expense,
               net_cashflow |-> agg.now.net, tx_count |-> agg.count,
               avg_expense |-> agg.average, max_expense |-> agg.largest,
               days_in_period |-> MonthDays, prev_total_income |-> agg.before.income,
               prev_total_expense |-> agg.before.expense,
               prev_net_cashflow |-> agg.before.net]
  IN  [v \in DOMAIN base \cup DOMAIN agg.keys |->
         IF v \in DOMAIN base THEN base[v] ELSE agg.keys[v].total]

\* _change
Change(current, previous) ==
  IF previous = 0 THEN (IF current = 0 THEN 0 ELSE 100)
  ELSE ((current - previous) * 100) \div previous

\* compute: a formula that uses an unknown variable has the value 0.
Compute(formula, agg) ==
  LET ns == Namespace(agg)
  IN  IF {formula.x, formula.y} \ DOMAIN ns # {} THEN 0
      ELSE CASE formula.op = "pct"    -> Percent(ns[formula.x], ns[formula.y])
             [] formula.op = "change" -> Change(ns[formula.x], ns[formula.y])
             [] formula.op = "ratio"  -> ns[formula.x] \div ns[formula.y]
             [] formula.op = "value"  -> ns[formula.x]

-----------------------------------------------------------------------------
(* Projections: projections/engine.py, in fractions *)

Power(x, n) == LET p[k \in 0..n] == IF k = 0 THEN 1 ELSE x * p[k - 1] IN p[n]

\* The value of balance and a deposit per month, growing by gain/base per month:
\* P(1+r)^n + C((1+r)^n - 1)/r, and no growth at all for a rate that is not positive.
\* A negative number of months turns the factor over.
Growth(balance, monthly, gain, base, months) ==
  LET n    == IF months < 0 THEN -months ELSE months
      more == IF months < 0 THEN base ELSE base + gain
      less == IF months < 0 THEN base + gain ELSE base
  IN  IF gain > 0
      THEN [num |-> balance * Power(more, n)
                    + (monthly * base * (Power(more, n) - Power(less, n))) \div gain,
            den |-> Power(less, n)]
      ELSE [num |-> balance + monthly * months, den |-> 1]

\* Fault: the inflation is added to the return.
FutureValueInflated(balance, monthly, cfg) ==
  LET n == cfg.years * YearMonths
  IN  [nominal |-> Growth(balance, monthly, cfg.return, Hundred * YearMonths, n),
       real    |-> Growth(balance, monthly, cfg.return + cfg.inflation,
                          Hundred * YearMonths, n)]

\* project_future_value: the real rate is (1+R)/(1+I) - 1, whose divisor an inflation
\* below -100 percent makes negative.
FutureValue(balance, monthly, cfg) ==
  LET n    == cfg.years * YearMonths
      gain == cfg.return - cfg.inflation
      base == (Hundred + cfg.inflation) * YearMonths
  IN  [nominal |-> Growth(balance, monthly, cfg.return, Hundred * YearMonths, n),
       real    |-> IF base > 0 THEN Growth(balance, monthly, gain, base, n)
                   ELSE Growth(balance, monthly, -gain, -base, n)]

\* The what-if deposits of compute_full_projection, in twentieths.
Deposits(monthly, income) ==
  [more |-> 20 * monthly + income, much |-> 20 * monthly + 2 * income,
   less |-> Max({0, 20 * monthly - income}),
   double |-> 40 * monthly, half |-> 10 * monthly]

\* compute_full_projection
Project(balance, agg, cfg) ==
  LET monthly  == IF ~cfg.actual /\ cfg.monthly # None THEN cfg.monthly ELSE agg.now.net
      deposits == Deposits(monthly, agg.now.income)
  IN  [balance |-> balance, monthly |-> monthly, income |-> agg.now.income, cfg |-> cfg,
       base |-> FutureValue(20 * balance, 20 * monthly, cfg),
       scenario |-> [x \in DOMAIN deposits |-> FutureValue(20 * balance, deposits[x], cfg)]]

-----------------------------------------------------------------------------
(* Sessions *)

Sessions == Workers \cup Requests
Messages == Households \cup {All}

Summing == <<"accounts", "period", "previous">>

\* The queries of each kind of session: generate_user_monthly_report and what it
\* builds on, the routers, tools and commands that use the same services, lifespan.
Script ==
  [digest     |-> <<"seed">> \o Summing \o <<"snapshots", "holdings", "sheet",
                    "config", "balances">> \o Summing \o <<"projection",
                    "uncategorized", "send", "commit">>,
   kpis       |-> <<"seed">> \o Summing \o <<"snapshots", "commit">>,
   sheet      |-> <<"holdings", "sheet", "commit">>,
   projection |-> <<"config", "balances">> \o Summing \o <<"projection", "commit">>,
   update     |-> <<"config", "update", "commit">>,
   start      |-> <<"seed", "joint", "commit">>,
   all        |-> <<"users", "delay">>,
   none       |-> <<>>]

NoSession ==
  [ kind   |-> "none", h |-> None, todo |-> <<>>,
    accs   |-> {},      \* the accounts it has selected
    now    |-> {},      \* the bookings of the period that count
    agg    |-> NoAggregates,
    kpi    |-> None,    \* the KPI values it has stored
    sheet  |-> None,
    cfg    |-> None,    \* the projection config, as loaded or written
    makes  |-> FALSE,   \* it inserts that config
    seeds  |-> {},      \* the built-in KPIs it inserts
    hides  |-> {},      \* the accounts it takes out of the household
    balance |-> 0,      \* of all its accounts
    shown  |-> None,    \* the projection
    open   |-> 0,       \* bookings without a category
    left   |-> {},      \* households still to be given a task
    sent   |-> FALSE,
    holds  |-> FALSE,   \* it has inserted rows that refer to the household
    calm   |-> TRUE ]   \* history: nothing has changed since it began

Begun(kind, h) == [NoSession EXCEPT !.kind = kind, !.h = h, !.todo = Script[kind]]

InFlight(s) == work[s].kind # "none"
At(s, query) == InFlight(s) /\ Head(work[s].todo) = query

\* s has had the answer to its query and goes on as w.
Goes(s, w) == work' = [work EXCEPT ![s] = [w EXCEPT !.todo = Tail(work[s].todo)]]

\* The session of s is over, and the process keeps its connection, which belongs to
\* the event loop of this task (asyncio.run).
Leaves(s) ==
  /\ work' = [work EXCEPT ![s] = NoSession]
  /\ pool' = IF s \in Workers THEN [pool EXCEPT ![s] = "foreign"] ELSE pool

\* The households that get no digest from a task of message t.
Missed(t) == IF t = All THEN Reported ELSE {t}

\* An exception rolls back the session.  A task that raises has been run: its message
\* is acknowledged, and nothing calls retry.
Raise(s) ==
  /\ Leaves(s)
  /\ lost' = IF s \in Workers THEN lost \cup Missed(work[s].h) ELSE lost
  /\ UNCHANGED <<data, rows, queue, sent, events, raced, redelivered>>

TypeOK ==
  /\ alive \subseteq Households /\ booked \subseteq Bookings /\ excluded \subseteq Bookings
  /\ category \in [Bookings -> Categories \cup {Transfer, DepotTransfer, Uncategorized}]
  /\ shared \subseteq Accounts
  /\ \A h \in Households : configs[h] \in Seq(Configs)
  /\ kpis \in [DOMAIN Builtin -> Nat]
  /\ digests \in [Households -> [BOOLEAN -> Nat]]
  /\ queue \in [Messages -> Nat]
  /\ pool \in [Workers -> {"empty", "foreign"}]
  /\ \A s \in Sessions :
       LET w == work[s]
       IN  /\ DOMAIN w = DOMAIN NoSession
           /\ \E n \in 0..Len(Script[w.kind]) :
                w.todo = SubSeq(Script[w.kind], n + 1, Len(Script[w.kind]))
           /\ w.kind # "none" => w.todo # <<>> /\ w.h \in Messages \cup {None}
           /\ w.now \subseteq Bookings /\ w.accs \cup w.hides \subseteq Accounts
           /\ w.makes => w.cfg \in Configs /\ w.holds
           /\ w.shown # None => w.shown.cfg \in Configs
  /\ sent \in [Households -> Nat]
  /\ events \in 0..MaxEvents
  /\ raced \subseteq Households \cup {"kpis"}
  /\ redelivered \subseteq Messages /\ lost \subseteq Households

\* The first of the month, 08:00.  The daily task may have left connections behind.
Init ==
  /\ alive = Households /\ booked = Bookings \ Late
  /\ category = Usual /\ excluded = {} /\ shared = Accounts
  /\ configs = [h \in Households |-> <<>>]
  /\ kpis = [k \in DOMAIN Builtin |-> 0]
  /\ digests = [h \in Households |-> [b \in BOOLEAN |-> 0]]
  /\ queue = [t \in Messages |-> IF t = All THEN 1 ELSE 0]
  /\ pool \in [Workers -> {"empty", "foreign"}]
  /\ work = [s \in Sessions |-> NoSession]
  /\ sent = [h \in Households |-> 0]
  /\ events = 0 /\ raced = {} /\ redelivered = {} /\ lost = {}

-----------------------------------------------------------------------------
(* KPIs *)

\* ensure_builtin_kpis_seeded: the missing names are inserted.
Seed(s) ==
  /\ At(s, "seed")
  /\ LET missing == {k \in DOMAIN Builtin : kpis[k] = 0}
     IN  /\ Goes(s, [work[s] EXCEPT !.seeds = missing])
         /\ raced' = IF \E t \in Sessions \ {s} : work[t].seeds \cap missing # {}
                     THEN raced \cup {"kpis"} ELSE raced
  /\ UNCHANGED <<data, rows, celery, sent, events, redelivered, lost>>

\* The three queries of compute_aggregates_for_period.
SelectAccounts(s) ==
  /\ At(s, "accounts")
  /\ Goes(s, [work[s] EXCEPT !.accs = {a \in shared : Owner[a] = work[s].h}])
  /\ UNCHANGED <<data, rows, celery, sent, history>>

SelectPeriod(s) ==
  /\ At(s, "period")
  /\ Goes(s, [work[s] EXCEPT !.now = Counted(work[s].accs, InPeriod)])
  /\ UNCHANGED <<data, rows, celery, sent, history>>

SelectPrevious(s) ==
  /\ At(s, "previous")
  /\ Goes(s, [work[s] EXCEPT !.agg = Aggregates(work[s].now, Counted(work[s].accs, Before)),
                             !.now = {}])
  /\ UNCHANGED <<data, rows, celery, sent, history>>

\* evaluate_and_save_kpis_for_user: the snapshots refer to the household.
SaveSnapshots(s) ==
  /\ At(s, "snapshots")
  /\ IF work[s].h \notin alive THEN Raise(s)
     ELSE /\ Goes(s, [work[s] EXCEPT !.holds = TRUE,
                        !.kpi = [k \in DOMAIN Builtin |-> Compute(Builtin[k], work[s].agg)]])
          /\ UNCHANGED <<data, rows, celery, sent, history>>

-----------------------------------------------------------------------------
(* Balance sheets *)

\* generate_balance_sheet: the accounts of the household.
SelectSheetAccounts(s) ==
  /\ At(s, "holdings")
  /\ Goes(s, [work[s] EXCEPT !.accs = {a \in shared : Owner[a] = work[s].h}])
  /\ UNCHANGED <<data, rows, celery, sent, history>>

\* Its bookings, by category: expense_map, income_map and the totals.
SelectSheet(s) ==
  /\ At(s, "sheet")
  /\ LET B        == Counted(work[s].accs, InPeriod)
         Under(c) == {b \in B : category[b] = c}
     IN  Goes(s, [work[s] EXCEPT !.sheet =
           [totals   |-> Totals(B),
            rate     |-> Percent(Totals(B).net, Totals(B).income),
            incomes  |-> [c \in {category[b] : b \in B} |-> Income(Under(c))],
            expenses |-> [c \in {category[b] : b \in B} |-> Expense(Under(c))]]])
  /\ UNCHANGED <<data, rows, celery, sent, history>>

-----------------------------------------------------------------------------
(* Projections *)

\* Fault: the config is not looked up.
LoadConfigAnew(s) ==
  /\ At(s, "config")
  /\ Goes(s, [work[s] EXCEPT !.cfg = Default, !.makes = TRUE, !.holds = TRUE])
  /\ UNCHANGED <<data, rows, celery, sent, history>>

\* Fault: the settings of a new config are left to the database.
LoadConfigBare(s) ==
  /\ At(s, "config")
  /\ LET h == work[s].h
     IN  Goes(s, [work[s] EXCEPT !.cfg = IF configs[h] = <<>> THEN None ELSE configs[h][1],
                                 !.makes = configs[h] = <<>>, !.holds = configs[h] = <<>>])
  /\ UNCHANGED <<data, rows, celery, sent, history>>

\* get_or_create_user_projection_config: scalar_one_or_none raises on a second row.
LoadConfig(s) ==
  /\ At(s, "config")
  /\ LET h == work[s].h
         n == Len(configs[h])
     IN  \/ n > 1 /\ Raise(s)
         \/ /\ n = 1
            /\ Goes(s, [work[s] EXCEPT !.cfg = configs[h][1]])
            /\ UNCHANGED <<data, rows, celery, sent, history>>
         \/ n = 0 /\ h \notin alive /\ Raise(s)
         \/ /\ n = 0 /\ h \in alive
            /\ Goes(s, [work[s] EXCEPT !.cfg = Default, !.makes = TRUE, !.holds = TRUE])
            /\ raced' = IF \E t \in Sessions \ {s} : work[t].makes /\ work[t].h = h
                        THEN raced \cup {h} ELSE raced
            /\ UNCHANGED <<data, rows, celery, sent, events, redelivered, lost>>

\* update_projection_config and the tool of that name.
UpdateConfig(s) ==
  /\ At(s, "update")
  /\ \E c \in Configs : Goes(s, [work[s] EXCEPT !.cfg = c])
  /\ UNCHANGED <<data, rows, celery, sent, history>>

\* The accounts and their balances, before the aggregates.
SelectBalances(s) ==
  /\ At(s, "balances")
  /\ LET accs == {a \in shared : Owner[a] = work[s].h}
     IN  Goes(s, [work[s] EXCEPT !.balance = MapThenSumSet(BalanceOf, accs)])
  /\ UNCHANGED <<data, rows, celery, sent, history>>

\* The savings rate must fit its column.  That deposits and values fit theirs, which
\* hold ten and twelve digits before the point, is left out.
Fits(agg) ==
  agg.now.income > 0 => Percent(agg.now.net, agg.now.income) \in -RateLimit..RateLimit

\* generate_user_projection from the aggregates on.  The real rate divides by one plus
\* the inflation.
SaveProjection(s) ==
  /\ At(s, "projection")
  /\ IF work[s].cfg.inflation = -Hundred \/ work[s].h \notin alive \/ ~Fits(work[s].agg)
     THEN Raise(s)
     ELSE /\ Goes(s, [work[s] EXCEPT !.holds = TRUE,
                        !.shown = Project(work[s].balance, work[s].agg, work[s].cfg)])
          /\ UNCHANGED <<data, rows, celery, sent, history>>

-----------------------------------------------------------------------------
(* The digest *)

\* build_monthly_report_payload: the bookings of the month without a category, of
\* all households.
CountUncategorized(s) ==
  /\ At(s, "uncategorized")
  /\ Goes(s, [work[s] EXCEPT !.open =
       Cardinality({b \in booked \cap InPeriod : category[b] = Uncategorized})])
  /\ UNCHANGED <<data, rows, celery, sent, history>>

\* Fault: the report is marked as sent before it is.
SendMarked(s) ==
  /\ At(s, "send")
  /\ Goes(s, [work[s] EXCEPT !.sent = TRUE])
  /\ \/ "outage" \in Events /\ UNCHANGED sent
     \/ sent' = [sent EXCEPT ![work[s].h] = @ + 1]
  /\ UNCHANGED <<data, rows, celery, history>>

\* send_message: an error is caught and the report stays unsent.
Send(s) ==
  /\ At(s, "send")
  /\ LET h == work[s].h
     IN  \/ /\ h \notin Linked \/ "outage" \in Events
            /\ Goes(s, work[s])
            /\ UNCHANGED sent
         \/ /\ h \in Linked
            /\ Goes(s, [work[s] EXCEPT !.sent = TRUE])
            /\ sent' = [sent EXCEPT ![h] = @ + 1]
  /\ UNCHANGED <<data, rows, celery, history>>

-----------------------------------------------------------------------------
(* Requests and the start of the app *)

\* A session of the app begins: a request for one household, or the start.
Begin(r) ==
  /\ r \in Requests /\ ~InFlight(r)
  /\ \E a \in Asked : a[2] \in alive \cup {None} /\ work' = [work EXCEPT ![r] = Begun(a[1], a[2])]
  /\ UNCHANGED <<data, rows, celery, sent, history>>

\* apply_default_household_selection: only the joint account stays in the household
\* totals, if every account of the installation is still on the default.
HideAccounts(s) ==
  /\ At(s, "joint")
  /\ LET accs == {a \in Accounts : Owner[a] \in alive}
     IN  IF Cardinality(accs) < 2 \/ ~(accs \subseteq shared) \/ Joint \cap accs = {}
         THEN Goes(s, work[s])
         ELSE \E a \in Joint \cap accs :
                Goes(s, [work[s] EXCEPT !.hides = accs \ {a}])
  /\ UNCHANGED <<data, rows, celery, sent, history>>

\* What the other sessions are once the data has changed.
Disturbed(t, w) == IF w.kind = "none" THEN w ELSE [w EXCEPT !.calm = FALSE]

\* The session commits; a task has been run and its message is acknowledged.
Commit(s) ==
  LET w == work[s]
      h == w.h
  IN  /\ At(s, "commit")
      /\ configs' = IF w.makes THEN [configs EXCEPT ![h] = Append(@, w.cfg)]
                    ELSE IF w.kind = "update" /\ h \in alive
                         THEN [configs EXCEPT ![h] = [configs[h] EXCEPT ![1] = w.cfg]]
                    ELSE configs
      /\ kpis' = [k \in DOMAIN Builtin |-> kpis[k] + IF k \in w.seeds THEN 1 ELSE 0]
      /\ digests' = IF w.kind = "digest" THEN [digests EXCEPT ![h] =
                           [digests[h] EXCEPT ![w.sent] = digests[h][w.sent] + 1]]
                    ELSE digests
      /\ shared' = shared \ w.hides
      /\ work' = [t \in Sessions |->
                    IF t = s THEN NoSession
                    ELSE IF w.hides = {} THEN work[t] ELSE Disturbed(t, work[t])]
      /\ pool' = IF s \in Workers THEN [pool EXCEPT ![s] = "foreign"] ELSE pool
      /\ UNCHANGED <<alive, booked, category, excluded, queue, sent, history>>

-----------------------------------------------------------------------------
(* The Celery worker *)

\* A process takes a message.  A connection that belongs to the event loop of an
\* earlier task makes the first query raise, and is dropped.
Take(w, t) ==
  /\ w \in Workers /\ ~InFlight(w) /\ queue[t] > 0
  /\ queue' = [queue EXCEPT ![t] = @ - 1]
  /\ IF pool[w] = "foreign"
     THEN /\ pool' = [pool EXCEPT ![w] = "empty"]
          /\ lost' = lost \cup Missed(t)
          /\ UNCHANGED work
     ELSE /\ work' = [work EXCEPT ![w] = Begun(IF t = All THEN "all" ELSE "digest", t)]
          /\ UNCHANGED <<pool, lost>>
  /\ UNCHANGED <<data, rows, sent, events, raced, redelivered>>

\* One of the events the bound allows.
Happens == events < MaxEvents /\ events' = events + 1

\* Fault: the message is acknowledged when the task begins (task_acks_late is off), so
\* a deploy finds nothing to bring back.
DeployForgets ==
  /\ "deploy" \in Events /\ Happens
  /\ \E w \in Workers : InFlight(w)
  /\ redelivered' = redelivered \cup {work[w].h : w \in {v \in Workers : InFlight(v)}}
  /\ work' = [s \in Sessions |-> IF s \in Workers THEN NoSession ELSE work[s]]
  /\ pool' = [w \in Workers |-> "empty"]
  /\ UNCHANGED <<data, rows, queue, sent, raced, lost>>

\* The worker is stopped with all its processes, before their tasks have ended.  What
\* was not acknowledged is delivered again.
Deploy ==
  /\ "deploy" \in Events /\ Happens
  /\ \E w \in Workers : InFlight(w)
  /\ redelivered' = redelivered \cup {work[w].h : w \in {v \in Workers : InFlight(v)}}
  /\ queue' = [t \in Messages |->
                 queue[t] + Cardinality({w \in Workers : InFlight(w) /\ work[w].h = t})]
  /\ work' = [s \in Sessions |-> IF s \in Workers THEN NoSession ELSE work[s]]
  /\ pool' = [w \in Workers |-> "empty"]
  /\ UNCHANGED <<data, rows, sent, raced, lost>>

\* One process dies.  Celery acknowledges its message (task_reject_on_worker_lost is
\* off) and starts another process.
Kill(w) ==
  /\ "kill" \in Events /\ Happens /\ w \in Workers /\ InFlight(w)
  /\ lost' = lost \cup Missed(work[w].h)
  /\ work' = [work EXCEPT ![w] = NoSession]
  /\ pool' = [pool EXCEPT ![w] = "empty"]
  /\ UNCHANGED <<data, rows, queue, sent, raced, redelivered>>

\* generate_all_monthly_reports: the active users, then one message for each.
SelectUsers(s) ==
  /\ At(s, "users")
  /\ Goes(s, [work[s] EXCEPT !.left = alive \cap Reported])
  /\ UNCHANGED <<data, rows, celery, sent, history>>

Delay(s) ==
  /\ At(s, "delay")
  /\ IF work[s].left = {} THEN Leaves(s) /\ UNCHANGED queue
     ELSE \E h \in work[s].left :
            /\ queue' = [queue EXCEPT ![h] = @ + 1]
            /\ work' = [work EXCEPT ![s] = [work[s] EXCEPT !.left = work[s].left \ {h}]]
            /\ UNCHANGED pool
  /\ UNCHANGED <<data, rows, sent, history>>

-----------------------------------------------------------------------------
(* Other sessions of the app change the data *)

Edit ==
  /\ Happens
  /\ \/ \E b \in Late \ booked :
          booked' = booked \cup {b} /\ UNCHANGED <<category, excluded, shared>>
     \/ \E b \in booked \cap Touched, c \in Categories \cup {Transfer, DepotTransfer} :
          category' = [category EXCEPT ![b] = c] /\ UNCHANGED <<booked, excluded, shared>>
     \/ \E b \in booked \cap Touched : excluded' = excluded \cup {b}
                          /\ UNCHANGED <<booked, category, shared>>
     \/ \E a \in shared : shared' = shared \ {a} /\ UNCHANGED <<booked, category, excluded>>
  /\ work' = [t \in Sessions |-> Disturbed(t, work[t])]
  /\ UNCHANGED <<alive, rows, celery, sent, raced, redelivered, lost>>

\* delete_household; it waits for those that have inserted rows of the household.
Delete(h) ==
  /\ "delete" \in Events /\ Happens /\ h \in alive
  /\ \A s \in Sessions : work[s].h = h => ~work[s].holds
  /\ alive' = alive \ {h}
  /\ shared' = {a \in shared : Owner[a] # h}
  /\ booked' = {b \in booked : Owner[AccountOf[b]] # h}
  /\ configs' = [configs EXCEPT ![h] = <<>>]
  /\ digests' = [digests EXCEPT ![h] = [b \in BOOLEAN |-> 0]]
  /\ work' = [t \in Sessions |-> Disturbed(t, work[t])]
  /\ UNCHANGED <<category, excluded, kpis, celery, sent, raced, redelivered, lost>>

-----------------------------------------------------------------------------
(* Specification *)

Step(s) ==
  \/ Seed(s) \/ SelectAccounts(s) \/ SelectPeriod(s) \/ SelectPrevious(s)
  \/ SaveSnapshots(s) \/ SelectSheetAccounts(s) \/ SelectSheet(s)
  \/ LoadConfig(s) \/ UpdateConfig(s) \/ SelectBalances(s) \/ SaveProjection(s)
  \/ CountUncategorized(s) \/ Send(s) \/ HideAccounts(s) \/ Commit(s)
  \/ SelectUsers(s) \/ Delay(s)

Works(w) == Step(w) \/ \E t \in Messages : Take(w, t)

Next ==
  \/ \E w \in Workers : Works(w) \/ Kill(w)
  \/ \E r \in Requests : Begin(r) \/ Step(r)
  \/ Deploy
  \/ Edit
  \/ \E h \in Households : Delete(h)

Spec == Init /\ [][Next]_vars

\* A process of the worker goes on: calls to the database and to Telegram end, and
\* the broker hands out what waits.
FairSpec == Spec /\ \A w \in Workers : WF_vars(Works(w))

-----------------------------------------------------------------------------
(* Safety *)

\* What s is about to commit.
Committing(s, kinds) == At(s, "commit") /\ work[s].kind \in kinds

\* The bookings of household h in the month.
Month(h) ==
  {b \in booked \cap InPeriod : AccountOf[b] \in shared /\ Owner[AccountOf[b]] = h}

\* What the figures leave out on purpose: excluded bookings, those to the depot, those
\* that stay in the household, and money sent to a personal account.
LeftOut(h) ==
  {b \in Month(h) :
     \/ b \in excluded
     \/ category[b] = DepotTransfer
     \/ category[b] = Transfer /\ (Amount[b] < 0 \/ Mentions[b] \cap shared
                                   \cap {a \in Accounts : Owner[a] = h} # {})}

\* KPIs, balance sheet and projection compute the same month in three ways, and a
\* digest with nothing committed meanwhile shows one result: the change of the
\* household's balances in the month, but for what is left out.
FiguresAgree ==
  \A s \in Sessions : Committing(s, {"digest"}) /\ work[s].calm =>
    LET w == work[s]
        of(k) == {c \in DOMAIN w.sheet.expenses : Key[c] = k}
    IN  /\ w.sheet.totals = w.agg.now
        /\ w.sheet.totals.net = Sum(Month(w.h)) - Sum(LeftOut(w.h))
        /\ w.shown.cfg.actual => w.shown.monthly = w.sheet.totals.net
        /\ w.kpi["Savings Rate"] = w.sheet.rate
        /\ \A k \in DOMAIN w.agg.keys :
             w.agg.keys[k].total = MapThenSumSet(LAMBDA c : w.sheet.expenses[c], of(k))

\* u is at most v, as fractions.
AtMost(u, v) == u.num * v.den <= v.num * u.den

\* The what-if values are in the order of what is put aside, and inflation takes away:
\* for a household that saves, whatever rates it has configured.  Only deflation may add,
\* and with a negative horizon, which the router accepts, more put aside is worth less.
ProjectionsAreOrdered ==
  \A s \in Sessions : Committing(s, {"digest", "projection"}) =>
    LET p == work[s].shown
        x == p.scenario
    IN  p.monthly >= 0 /\ p.balance >= 0 /\ p.cfg.years >= 0 =>
          /\ p.cfg.inflation >= 0 => AtMost(p.base.real, p.base.nominal)
          /\ AtMost(x["half"].real, p.base.real) /\ AtMost(p.base.real, x["double"].real)
          /\ AtMost(x["less"].real, p.base.real) /\ AtMost(p.base.real, x["more"].real)
          /\ AtMost(x["more"].real, x["much"].real)

\* A household has one projection config and a built-in KPI one definition, unless two
\* sessions that both found none overlapped: nothing in the tables prevents a second.
SeededOnce ==
  /\ \A h \in Households \ raced : Len(configs[h]) <= 1
  /\ "kpis" \notin raced => \A k \in DOMAIN Builtin : kpis[k] <= 1

\* A stored digest is marked as sent only if it was, and no household gets the month
\* twice unless a message came back from a worker that was stopped.
SentOnce ==
  \A h \in Households :
    /\ digests[h][TRUE] <= sent[h]
    /\ sent[h] > 1 => redelivered \cap {h, All} # {}

\* The digest of h is still to come: it, or the task that is to start it, waits or is
\* being worked on.
Due(h) ==
  \/ queue[All] + queue[h] > 0
  \/ \E w \in Workers :
       \/ work[w].kind = "digest" /\ work[w].h = h
       \/ At(w, "users")
       \/ At(w, "delay") /\ h \in work[w].left

\* No digest is forgotten, also when the worker is stopped in between: it is stored,
\* or still to come, unless its task has raised, its process has died, or the
\* household is gone.
NoDigestIsForgotten ==
  \A h \in Reported :
    \/ digests[h][TRUE] + digests[h][FALSE] > 0
    \/ Due(h) \/ h \in lost \/ h \notin alive

-----------------------------------------------------------------------------
(* Liveness *)

\* Every linked household gets its digest.
EveryHouseholdGetsDigest ==
  \A h \in Linked \cap Reported : queue[All] > 0 ~> sent[h] > 0
=============================================================================
