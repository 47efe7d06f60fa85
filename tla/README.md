# Verification of the household finance backend

The repository is a household finance backend: FastAPI routers and services over PostgreSQL,
Redis for a rate limit, Celery for scheduled jobs, Telegram bots, an LLM agent that calls
tools, and a FinTS adapter that logs in to banks. This directory holds TLA+ models of the
parts where order, concurrency and failure matter, the TLC configurations that check them on
small instances, and proofs that TLAPS checks for instances of every size. Paths are relative
to the repository; `banking/service.py` means `src/banking/service.py`.

## The system

| Component | State | Operations | Hard behaviour | What must be true |
|:--|:--|:--|:--|:--|
| Bank links and sync (`banking/`) | rows of `bank_connections`; `_pending_syncs` and `_active_sessions` in the memory of the process; `rate_limit:bank_sync:*` in Redis | `/connect`, `/tan`, `/sync`, `/sync/confirm`, `check_stale_connections` | requests await the bank for minutes while others run; memory changes before the commit and survives a rollback; restarts; Redis failing | nothing is imported over an unapproved login or into another bank's row; one sync per hour; one row per bank; no status left behind; requests end |
| Import, transactions, accounts (`banking/service.py`, `transactions/`, `accounts/`) | `transactions` with unique `import_hash`, `accounts.initial_balance` | import of a bank's bookings, manual bookings, edits | two sessions insert the same hash; a sum that misses uncommitted rows | a booking is stored once; the balance follows the bank |
| Classification (`classification/`) | rules, categories, the category and the exclude flag of each booking | classify on insert, learn from a manual choice, reclassify | reclassification overwrites what was set by hand | manual choices survive; the first matching rule wins |
| Households and users (`auth/`, `users/`) | users, identities, invites | Google login, invite, remove member, delete household, link Telegram | select-then-insert and count-then-delete by concurrent sessions | every household has a member; an identity belongs to one household |
| Telegram bots (`telegram_bot/`) | `_bot_apps`, the pollers, `_codes` in memory; `telegram_id` and the token of a household | start and stop with the app, token change, `/start CODE`, unlink, deletion | a poller is stopped and started in a request that awaits in between; memory does not roll back | one poller per household, with the stored token; a code links the chat that sent it |
| LLM agent (`llm/`) | `_history` in memory, the messages of a question, a transaction per tool | tool loop, tool commit or rollback, reset | a tool that fails half way, the limit of rounds, a reset while a question is open | the model is told the truth about each tool; exchanges stay whole and in order |
| Scheduler (`scheduler/`) | `monthly_reports`, the Celery queue, the connection pool of each worker process | monthly digest | redelivery, death between sending and storing, a pool that outlives its event loop | one digest per month |
| KPIs, balance sheets, projections | definitions, snapshots and configuration rows | seeding, aggregates, monthly compounding | seeding by two first reads; queries of one digest that see different data | the parts of a digest agree; one configuration per household |
| Core (`core/`) | sessions, encryption, Redis pool | commit and rollback | - | used by all of the above |

Requests of the web app, Telegram handlers, and LLM tools call the same services, each on a
database session of its own that commits when the request ends (`core/dependencies.py`
`get_db`, `core/database.py` `get_standalone_session`, `llm/tools.py` `execute_tool`). They
share the rows, Redis and the dictionaries of the process. Celery runs in a process of its
own and shares the rows only. Everything runs on one asyncio loop per process: between two
awaits a handler is not interrupted, and an await is where a model step ends.

## Modules

| Module | Models |
|:--|:--|
| `BankSync` | bank links, the household sync, the hourly limit and the stale check |
| `MCBankSync` | constants of `BankSync` for TLC |
| `BankSyncProofs` | theorems about `BankSync` |
| `ImportLedger` | what imports and bookings by hand write into the ledger of one IBAN |
| `MCImportLedger` | constants of `ImportLedger` for TLC |
| `ImportLedgerProofs` | theorems about `ImportLedger` |
| `Household` | who belongs to which household: logins, invites, removals, deletions |
| `MCHousehold` | constants of `Household` for TLC |
| `HouseholdProofs` | theorems about `Household` |
| `Classification` | the category of each booking: by hand, by rules, learned, as a transfer |
| `MCClassification` | constants of `Classification` for TLC |
| `ClassificationProofs` | theorems about `Classification` |
| `NumbersAndSums` | induction over numbers and finite sets, and sums over sets, for proofs |
| `Reports` | KPIs, balance sheets, projections, the monthly digest and the worker that sends it |
| `MCReports` | constants of `Reports` for TLC |
| `ReportsProofs` | theorems about `Reports` |
| `TelegramBots` | pollers, tokens, link codes and linked chats |
| `MCTelegramBots` | constants of `TelegramBots` for TLC |
| `TelegramBotsProofs` | theorems about `TelegramBots`: pollers, tokens and linked chats |
| `Conversation` | what a chat with the language model promises (abstract) |
| `Agent` | the loop of completions and tools, histories and requests; implements `Conversation` |
| `MCAgent` | constants of `Agent` for TLC |
| `AgentProofs` | theorems about `Agent`, the refinement among them |

`BankSync` and `ImportLedger` cut the import at the same place: `BankSync` says when imports
start, over which login and what a failed one leaves behind, and takes the bookings as one step;
`ImportLedger` opens that step and lets imports start at any time. What keeps two of them apart
is in both the row of the connection (`CanSetStatus` there, `HoldsConnection` here), and an
import that `BankSync` shows to run without that lock is a member of `Lockless` here.

The tools of the agent call the services of `BankSync`, `ImportLedger`, `Classification` and
`Reports`; there they are requests like those of the web app, and `Agent` only follows whether
what a tool did was committed. `Reports` reads what `Classification` decides (the category and
the exclude flag of each booking) and lets other sessions change it between any two queries.

### BankSync

State. `rows`, `blz`, `status`, `pin`, `synced` are the committed columns of
`bank_connections` (`synced`: `last_synced_at` within 30 days). `limited` holds the rows whose
Redis key counts a sync. `pending` is the household's entry of `_pending_syncs`, `sessions` are
the entries of `_active_sessions` by their FinTS dialog. `req[r]` is a request in flight: where
it is (`pc`), its local variables, what its session has loaded (`seen`) and what it has written
and not committed (`wrote`, `wpin`, `wsync`, `booked`). `scan` is what the running stale check
has selected. `phase`, `login` and `granted` describe the bank's side of each dialog. `starts`,
`fresh` and `told` are history for properties: no action reads them.

| Action | Code |
|:--|:--|
| `StartHouseholdSync` | `start_household_sync` up to the loop over the connections |
| `RateLimitRead`, `RateLimitCount` | the two awaits of `rate_limit_check` |
| `LoginRefused`, `LoginNeedsApproval`, `LoginOpens` | the three outcomes of `adapter.connect` in `sync_bank_connection` |
| `ConfirmHouseholdSync` | `confirm_household_sync` and `complete_tan_sync` up to `handle_tan` |
| `TanAccepted`, `TanRefused`, `MarkError` | the outcomes of `handle_tan` in `complete_tan_sync` and `api_submit_tan` |
| `ImportBegin`, `ImportEnd`, `ImportRaises` | `_execute_import` up to its first flush, to its end, and its `finally` on an exception |
| `LinkConnect`, `LinkStore` | `api_connect_bank` up to the query of the upsert, then its flushes and the new session |
| `SubmitTan`, `FetchAccounts`, `StoreAccounts`, `LinkEnd` | `api_submit_tan` and `_fetch_and_store_accounts`, with its own query for the row |
| `LinkRaises` | its `except` and `finally` after a failure of the database, before the bookings |
| `Commit`, `RollBack` | the end of the session |
| `StaleScan`, `StaleMark` | the query and the flush of `check_stale_connections` |
| `Approve`, `Expire`, `HourPasses`, `MonthPasses`, `RedisFails`, `RedisRecovers`, `Restart` | the user, the bank, time, Redis, the process |

What is abstracted:

- One household. Rows, keys and dictionary entries of households are disjoint.
- PostgreSQL at READ COMMITTED: a query sees committed rows, a flush takes row locks that last
  until the transaction ends. SQLAlchemy sends an UPDATE only for columns whose value changed,
  so setting a status it already has takes no lock. `last_error` is not modelled; the lock an
  UPDATE of `last_error` alone takes is left out, which allows more interleavings.
- The bookings of an import are one step here.
- `StaleMark` takes its locks in one step. In the code it takes them one by one in the order of
  primary keys, and PostgreSQL may abort it or a sync as the victim of a deadlock.
- Row ids are taken in the order of `created_at`.
- The branch of `complete_tan_sync` for a row that is gone is unreachable here: links are only
  deleted with their household.
- A dialog the bank has closed and a network error look the same to `handle_tan`; only the first
  leads to the hint about the closed login.
- The answer of a request may reach the client before its session commits (the order of a
  FastAPI dependency's exit and the response depends on the version, which is not pinned), so a
  TAN may be submitted for a link that has not committed.
- Actions that only answer (nothing pending, a refused `/connect`) change no state and are left
  out.

Fairness (`FairSpec` of `BankSync`): a request that can go on repeatedly goes on (strong fairness of
`Proceed`, one condition per request: calls to the bank, Redis and the database return or
raise, and PostgreSQL serves those who wait for a lock in their order), and the stale check
runs daily. Nothing is assumed of users, of the bank or of Redis. Weak fairness of `StaleScan`
is an idealisation: its task runs in the same worker processes as the digests of `Reports`, where a
pooled connection of an event loop that is closed can make a task raise (the run `DigestLost`).
`StaleIsNoticed` says that a check which reaches its query again and again misses no link.

### ImportLedger

State. `accounts`, `opening` and `booked` are the committed rows of `accounts` with the IBAN,
their `initial_balance` and their `transactions`, a booking being what `import_hash` is made of
besides the account. `posted` counts what the bank has posted. `work[s]` is a session: where it
is, the account it works on, the balance the bank gave it (`at`, by the postings it counts), the
`initial_balance` it loaded and wrote, the bookings it still has to add and those it has
inserted. `known`, `asOf`, `overlapped`, `unsent` and the field `late` are history for
properties: no guard and no other variable depends on them.

| Action | Code |
|:--|:--|
| `BeginImport`, `LockConnection` | the first flush of `_execute_import`; for a link `upsert_bank_connection`, which comes after the balance |
| `FetchAccounts` | `fetch_accounts` with `get_balance`: a balance, an account without one, or an empty list |
| `FindAccount`, `CreateAccount` | `find_account_by_iban`, `create_account` |
| `FetchBookings` | `fetch_transactions`: the bookings since `import_since_date`, or none on an error |
| `AddByHand` | `POST /transactions` and the LLM tool `add_transaction` |
| `LookForDuplicate`, `Insert` | the query and the flush of `add_transaction` |
| `SumUp`, `FlushOpening` | the sum of the bookings and the UPDATE of `initial_balance` |
| `Commit`, `Fail` | the end of the session, or its loss at any await |
| `Post` | the bank |

What is abstracted:

- One IBAN of one household. The loop over accounts visits the others in the same way, and
  their bookings have other hashes. A bank account without an IBAN is left out: a sync skips it
  and a link creates an account for it every time.
- READ COMMITTED as in `BankSync`; in addition an INSERT waits for a transaction that has
  inserted the same `import_hash`, and then fails if that one has committed. A failed statement
  loses the session, also where the code catches the exception and goes on
  (`_fetch_and_store_accounts`), since PostgreSQL refuses to commit it.
- SQLAlchemy writes `initial_balance` only if it differs from the value the session loaded, and
  the value stays as loaded for the rest of the session. So an import that computes the value it
  had loaded leaves whatever another session has stored since. `unsent` names the accounts whose
  last import did this, and `LedgerMatchesBank` excepts them. It is a defect of the code: of two
  imports that share no lock, the first asks for the balance before a booking is posted and gets
  the booking after it, so it stores an `initial_balance` that makes up for the difference. The
  second has loaded the value before, has the bank's current balance, computes the value it had
  loaded and sends no UPDATE. The ledger is then off by the booking, while the code logs that it
  matches (`banking/service.py:386`). TLC finds it when `LedgerMatchesBank` is stated for every
  account.
- Accounts by hand exist before the imports (`Init`); `POST /accounts` while an import runs is
  left out, as are two accounts with one IBAN made by hand.
- Classification of a booking changes neither amounts nor hashes and is left out.
- The bank's bookings come in its order. `fetch_transactions` may drop a statement it cannot
  parse; this is left out, and would show as a booking that was not fetched.
- Amounts are integers (the code uses decimals of two digits), their sum the constant function
  `Total`, of which only additivity is assumed.

A session runs once, so a run stops when all have ended: `CHECK_DEADLOCK FALSE`. That sessions
never wait for each other in a circle is `NoCircularWait`.

### Household

State. `users`, `member` and `invite` are the committed rows of `users`, `auth_identities` and
`household_invites`; `allowed` is `ALLOWED_EMAILS`; `cookie` is the household in the session
cookie of each browser. `tx[s]` is a transaction in flight: where it is, what it is about and
what it has written and not committed. `raced` is history: the kinds of transactions that have
overlapped, so that each property can name the only overlap that breaks it.

| Action | Code |
|:--|:--|
| `SignIn`, `Login` | `auth_callback` for an email with and without an identity |
| `LookForInvite`, `Primary`, `CountUsers`, `Pick`, `Found`, `Attach` | the awaits of `resolve_google_user` and `primary_household_user` |
| `Invite`, `LookForPending`, `PutInvite` | `create_household_invite` |
| `CancelInvite`, `DropInvite` | `delete_household_invite`; a login by invite also ends with `DropInvite` |
| `RemoveMember`, `CountMembers`, `Expel` | `remove_household_member` |
| `DeleteHousehold`, `DeleteInvites`, `DeleteIdentities`, `DeleteUser` | `admin_delete_household`, `delete_household` |
| `Commit`, `Fail` | the end of the session |

What is abstracted:

- Names, pictures, Google subjects and credentials. `is_active` of a user is never cleared.
- The cookie names a household and not an identity, and `get_current_user` only looks whether
  the household exists. So a removed member's browser keeps acting for it; the model allows
  this. Logging out only takes possibilities away and is left out.
- The DELETEs of what belongs to a household and no member or invite (`DeleteUser` stands for
  them) and the pollers it stops first.
- READ COMMITTED as above; a foreign key locks the household's row against deletion, and a
  unique email makes an INSERT wait. The models cascade the deletion of a household to
  identities and invites; the constraints of migration 005 do not, and then the DELETE fails if
  someone has joined meanwhile (`Fail`).

### Classification

State. `rows` are the committed bookings (category, chosen by hand, excluded), `rules` the
active rules, `depot` the account that may become the depot. `work[s]` is a session: what it has
loaded (`seen`), what it holds now (`row`), what it has flushed (`locked`), the rules it has
added. `choice`, `raced`, `settled` and `swept` are history: what was last chosen by hand, the
bookings whose category changed while a session that classifies had them loaded, whether the last
reclassification has seen everything but for bookings added since, and which bookings it has seen.

| Action | Code |
|:--|:--|
| `SetCategory`, `Label` | `api_set_transaction_category`, the tool `set_transaction_category` |
| `LabelTransactions`, `Label`, `Teach` | the tool `label_transactions`, `learn_classification_rule` |
| `SetExclude`, `Exclude` | `api_set_transaction_exclude` and the tool |
| `CreateRule` | the tool `create_classification_rule` |
| `AddTransaction`, `ClassifyNew` | `add_transaction` by hand, by the tool, and in an import |
| `SetDepot` | `api_register_depot`, `api_set_account_depot` |
| `Reclassify` | `POST /transactions/reclassify`, the tool, the start of the application |
| `Load`, `LoadRows`, `Learn`, `Classify`, `Finish` | `reclassify_user_transactions`, which all of the above but excludes, rules and single bookings run through |
| `Commit`, `Fail` | the end of the session |

What is abstracted:

- The text of a booking is the set of phrases it contains (`Text`), the phrase a choice would
  teach is `Lesson` (`rule_value_from_transaction`), the match of the built-in rules `Builtin`.
  Operators and fields of rules are abstracted to whether a rule matches.
- `OwnIban`, `SourceIban` and `DepotIban` say which bookings mention another account of the
  household, the one they are on, and the one that may become the depot (bookings on the depot
  itself are left out). `SameHolder` says which bookings a name found on another one would match;
  `NameHolders` are the bookings `collect_own_holder_names` takes names from. A reclassification
  collects them from all it has loaded; `add_transaction` classifies without any, so that a new
  booking that is a transfer only by the holder's name gets another category until the next
  reclassification (`swept` tells the two apart in `CategoriesFollowRules`).
- Rules of one priority come in any order, so a booking may get any of their categories.
- `SetDepot` reads and flushes the account in one step. A flush takes all its row locks at
  once; the deadlocks that taking them one by one can lead to are ended by PostgreSQL (`Fail`).
- One household, with all its categories. Creating categories and the flag
  `include_in_household`, which only filters what is read, are left out.

A session runs once, so the runs stop when all have ended: `CHECK_DEADLOCK FALSE`.

### Reports

State. `alive`, `booked`, `category`, `excluded`, `shared` are the rows reports are made of;
`configs`, `kpis` and `digests` the rows they write (`projection_configs`, built-in
`kpi_definitions`, `monthly_reports`). `queue` and `pool` are the Celery broker and the
connection that each process of the worker keeps. `work[s]` is a session: the queries it still
has to make (`todo`, from `Script`) and what it has computed so far. `sent` counts the digests
that have arrived in Telegram. `events` bounds what happens to a run; `raced`, `redelivered`,
`lost` and the field `calm` are history.

| Action | Code |
|:--|:--|
| `Seed` | `ensure_builtin_kpis_seeded` |
| `SelectAccounts`, `SelectPeriod`, `SelectPrevious`, `SaveSnapshots` | `compute_aggregates_for_period`, `evaluate_and_save_kpis_for_user` |
| `SelectSheetAccounts`, `SelectSheet` | `generate_balance_sheet` |
| `LoadConfig`, `UpdateConfig` | `get_or_create_user_projection_config`, `update_projection_config` |
| `SelectBalances`, `SaveProjection` | `generate_user_projection`, with `Growth`, `FutureValue`, `Project` for `projections/engine.py` |
| `CountUncategorized`, `Send` | `build_monthly_report_payload`, `send_message` |
| `HideAccounts` | `apply_default_household_selection` at the start of the app |
| `SelectUsers`, `Delay` | `generate_all_monthly_reports` |
| `Take`, `Commit` | a process of the worker takes a message; the session or task ends |
| `Deploy`, `Kill` | the worker is stopped, or one of its processes dies |
| `Edit`, `Delete` | other sessions change bookings, flags and accounts, or delete a household |

What is abstracted:

- Each query is a step of its own, so other sessions may commit between any two. The balances of
  the accounts, which the code reads one by one, are one step.
- A Celery task runs in `asyncio.run`, and the engine with its pool is created once per process.
  A connection left in the pool belongs to the event loop of an earlier task, and the first query
  over it raises (`pool`). `Init` allows such connections, since the daily stale check runs in the
  same processes.
- `task_acks_late` is set: a worker that is stopped leaves its messages to be delivered again
  (`Deploy`), but the message of a single process that dies is acknowledged (`Kill`, as
  `task_reject_on_worker_lost` is off). `max_retries` has no effect, as nothing calls `retry`.
- Amounts are integers, growth is a fraction of integers, and a year has `YearMonths` months and a
  whole `Hundred` parts, so that powers stay small. Rounding of decimals is left out. An inflation
  of -100 percent divides by zero, so the projection and every digest with it raises.
- The router checks no setting, so rates and horizons are any integers (`ConfigAssumption`). Below
  -100 percent the divisor of the real rate is negative, so that `FutureValue` turns both signs
  over; a negative horizon turns the growth factor over (`Growth`). With a negative horizon more
  put aside is worth less, so `ProjectionsAreOrdered` says nothing of one.
- A formula can use what `_build_namespace` gives it but for the counts of categories, which no
  built-in formula names (`Namespace`). Of the columns of a snapshot only the savings rate can
  overflow (`Fits`); deposits and values that have more than ten or twelve digits before the
  point are left out.
- A change of some columns of a configuration is a change to any other configuration.
- The message's wording is left out. It names 20 years and 7% whatever the configuration says,
  and its count of uncategorized bookings is over all households (`CountUncategorized`).
- Snapshots of KPIs and projections are stored again by every run and read by none of this; they
  count only as rows that refer to the household (`holds`).

Fairness (`FairSpec` of `Reports`): a process of the worker goes on, since calls to the database
and Telegram end and the broker hands out what waits. Only `DigestLost` uses it.

### TelegramBots

State. `alive`, `token` and `chat` are the committed rows of `users`. `phase`, `bots`
(`_bot_apps`), `apps` (the Applications that poll) and `codes` (`_codes`) are the memory of the
process, which no rollback undoes. `work[s]` is a request, the handler of a message or the start
of the app. `fresh`, `unborn` and `events` are bounds; `unstarted`, `stray`, `raced` and the
field `alone` are history.

| Action | Code |
|:--|:--|
| `Pop`, `Stop` | `stop_polling_for_user`, before and after its awaits |
| `Create`, `Register` | `start_polling_for_user` |
| `Boot`, `BootNext`, `BootFails` | `start_all_household_bots` in `lifespan` |
| `Down` | the process ends |
| `PostToken`, `SaveToken`, `StartFails` | `set_telegram_token_endpoint` |
| `DeleteHousehold`, `DeleteRows` | `delete_household` |
| `Unlink`, `WriteUnlink` | `unlink_telegram_account` |
| `CreateLink`, `Expire`, `StartCommand` | link codes, `/start CODE` |
| `FindLinked`, `Clear`, `SetChat` | `link_telegram_id` |
| `Found` | `resolve_google_user` founds a household |
| `Commit`, `CommitFails`, `Raise`, `Deadlocked` | the end of the session |

What the code relies on and the model shows: the new token is flushed before the old poller is
stopped, and the row lock of that flush keeps two posts for one household apart
(`PollersFollowRows` fails without it); the query for the user flushes the chat that was cleared
before the new one is set (`CodeLinksTheChat` fails without it). A deletion that stops the
poller first and meets a new token in between leaves a poller for a household that is gone;
`raced` names it. A request commits after its handler has returned (`get_db`), and when that
fails the token is rolled back while its poller goes on; `stray` names that. These are the only
ways to a poller without its row. A household that a login founds while the app is up has the
token of the settings, if they have one (`EnvToken`), and nothing starts a poller for it before
it posts a token or the app starts again; `unstarted` has it with those whose start failed.

`Stop` waits for the message the poller is handling, and the handler may wait for the row the
request has flushed: PostgreSQL sees no deadlock, and neither goes on before the process ends.
The model has that state; no property says that every request ends.

What is abstracted: who may talk to a bot (`handlers/common.py`), groups, the legacy
`start_polling`, the wording of answers. The encryption of a token is
left out. With `EnvToken` two households without a token of their own poll one bot twice.
Stopping an Application is assumed to succeed: the code logs an error there and goes on
(`bot.py:109`), and the Application may poll on outside the registry. Left out is also that a
first login copies the token of the settings into the row of the default household
(`copy_legacy_secrets_if_empty`), where `TokenOf` had it already, and which a new token posted
meanwhile may overwrite or be overwritten by. Statements fail only where an action says so.

### Conversation and Agent

`Conversation` is what a chat promises: the last `MaxExchanges` exchanges, each whole and in the
order of the answers, and the questions it waits for; a question that fails leaves no trace, and
what was asked before a reset does not come back. It has two variables and no histories, lists
or tools.

State of `Agent`. `history` is `_history` of `llm/agent.py`: the list object of each chat;
`lists` are the messages in each object. A request keeps the list it read (`work[r].list`), the
messages of its question, the tool calls still to be made, and what its tools have flushed
(`pending`) and committed (`db`).

| Action | Code |
|:--|:--|
| `Ask` | the head of `iter_agent_events` |
| `Complete` | `chat_completion`: tools to call, or an answer |
| `Execute`, `CommitTool`, `ToolRaises` | `execute_tool` |
| `Reply` | the tail of `iter_agent_events`, also when the rounds are used up |
| `Fail` | the handlers of `llm_chat`, a browser that is gone |
| `ClearHistory`, `Restart` | `clear_history`; the process |

Refinement. `Said` reads the exchanges of a chat off the list it refers to, `Open` the questions
of requests that hold this list. After a reset the chat refers to a new list and a question that
is still open writes to the old one, which nobody reads: in `Conversation` it was forgotten by
the reset. `KeepsItsPromise == Promised!Spec` is checked and proved.

What is abstracted: an answer is told from others by its question; a tool call stands for its
effect, and a tool that only reads for one whose effect nobody sees. Each tool commits on its
own, so what tools did stays when the model fails later, and asking again repeats it. The
system prompt, streaming, and custom KPIs are left out.

## Runs

| Run | Question | Bounds |
|:--|:--|:--|
| `SyncAndLink` | Do linking, TANs, syncs and confirms of one bank that overlap keep logins, row locks and statuses right, also when the database, Redis or the process fails? | 2 requests, 1 row, 2 dialogs |
| `OneAtATime` | Do the hourly limit, the bank of each login and the pending login hold if requests do not overlap? | 1 request, 2 banks, 2 rows, 2 dialogs |
| `SyncLoops` | Do syncs that meet end, and is a link that never syncs marked stale? | 2 requests, 2 rows of 2 banks, 1 dialog, no Redis, fair |
| `Ledger` | Does the ledger of an IBAN stay right when a sync, a sync without the lock, a link and a booking by hand overlap? | 4 sessions, 2 bookings, 2 account rows |
| `Members` | Who joins, who stays and what exists when logins, invites, removals and deletions overlap? | 2 emails, 3 households, 2 transactions at a time |
| `Choices` | Do choices by hand, learned rules, excludes and reclassification agree when they overlap? | 2 bookings, 2 sessions, 2 categories and the 2 transfers, 2 phrases, 2 priorities |
| `Reports` | Do the parts of a digest agree, and is it sent once, next to a request, a change of the data or a fault at any point? | 2 processes, 1 session of the app, 1 household reported of 2, 7 bookings, 1 event |
| `Bots` | Do pollers follow the rows, and does a code link its chat, while the app starts and stops, households are founded and commits fail? | 2 households, 2 tokens, one of them that of the settings, 2 chats, 2 sessions, 2 codes, 3 Applications, 2 events |
| `Agent` | Is the model told the truth about its tools, and does the chat implement `Conversation`? | 2 chats, 2 requests, 3 lists, 3 questions asked, 2 rounds, 2 calls, 2 exchanges |
| `DeadLogin` | The hint of the adapter after a closed login | 1 request, 1 row |
| `StaleFreshLink` | "Mark bank links idle > 30 days" | 1 request, 1 row |
| `DigestLost` | "per-household Telegram digest" | 2 processes, 2 households, no event, fair |

Two requests are enough for the races of this code: each is between a read of one request and
a write of another. Two dialogs allow a login per request; one more than the requests refer to
is never needed because a dialog that nothing refers to is used again. Two rows allow every
order of two loops, and a row inserted next to an existing one. `SyncLoops` has one dialog and
syncs only: confirms, links and TANs beside the daily check take too long for a run, so
`EveryRequestEnds` is not checked of them. If a bank has two rows, a link may store to one and
then find the other (its second query has no ORDER BY), so that two links could wait for each
other; PostgreSQL would abort one of them.

In `Ledger` two imports can race over the IBAN (`i2` of `Lockless` with any other), two can
not (`i1` and the link `i3`), and a booking by hand meets each of them. Two account rows are as
many as two imports that find none create; with a third session that finds none `CreateAccount`
has to wait, which the bound `MaxAccounts` does to the model, not to the code. Two bookings are
enough for one to be a duplicate in front of one that is new. Bookings that look alike (one hash
posted twice) are not in the run; the theorems of `ImportLedgerProofs` cover them.

In `Members` two emails are enough for a household to have a member to remove and one to keep,
and for two first logins; three households are one for each of them and one more. Transactions
start again when they have ended, so that any number follow each other and two overlap. The
symmetry of transactions is sound: no property depends on which is which, and no liveness is
checked. In `Choices` two bookings of one merchant can disagree, the newer one also mentions
the account that becomes the depot, and both name one holder, so that the older one is a transfer
by the name once the newer one is one by the account. `LabelLimit` is 1, so that
`label_transactions` cuts off what it found.

In `Reports` one event (a change, a deletion, a deploy, a death) can come between any two
queries of any session. One household is reported; the other one is there for what may leak from
it. Its digest meets a projection, a change of its configuration or a start of the app, which
are the sessions that write what a digest reads or seeds. The three configurations have a real
rate above zero, one below it, and none (inflation of -100 percent). A horizon that counts back
and an inflation below -100 percent are in no run; the proof covers the second. In `Bots` every
combination of rows is an initial state, with each household there or still to be founded, and
two events are enough for two new tokens, or a new token and a deletion, to overlap, and for a
stop of the app during a start. The two events are used up by every behaviour, so
`CHECK_DEADLOCK FALSE`. Two requests of `Agent` can share a chat or not; with three
questions one may be asked after a reset beside an old one, and three lists are one more than
two chats refer to, for the one a request still holds.

`DeadLogin`, `StaleFreshLink` and `DigestLost` find a violation and stand for disagreements
between what the code does and what its documentation or its messages say:

- `DeadLogin`: a confirm that fails because the bank closed the dialog keeps the pending login;
  the next sync, which the user is told to start, answers that a login is already waiting.
- `StaleFreshLink`: linking imports bookings and never sets `last_synced_at`, so the daily check
  marks a link made today.
- `DigestLost`: a process that has run a task gives the next one a connection of an event loop
  that is closed; the task raises, is acknowledged and not retried, and its household gets no
  digest. No fault is needed: two processes and two households, `Events = {}`.

Properties that hold only as long as something does not overlap name it. `OneStartPerHour` and
`PromptedLoginStaysPending` are checked with one request: two syncs both read
the counter before either raises it, two both pass the check for a pending login, and two first
links of a bank both find no row, so that the bank has two links to sync. In `ManualChoiceStays`,
`raced` are the bookings a reclassification had loaded before the choice by hand; it writes its
own category over it. In `Members`, `raced` has the kinds of transactions that overlapped, in
`Bots` the households with a deletion beside a new token (`stray` and `unstarted` are described
there), in `Reports` those whose
configuration two sessions found missing (nothing in the tables prevents a second one, after
which the query for it raises).

## Proofs

`BankSyncProofs` proves for every number of banks, rows, requests and dialogs:

- `TypeCorrect`: `Spec => []TypeOK`. `TypeOK` alone is not inductive: `RateLimitCount` adds the
  request's connection to `limited`, which is well typed only because a request that has read
  the counter has a connection. `TypeInv` adds what each place of a request implies about its
  connection and its dialog (`PlaceOK`).
- `ImportsAreApproved`: `Spec => []ApprovedBeforeImport`. `ApprovalInv` adds that a dialog in
  which the bank accepts a TAN was approved, and that a link that asked for no TAN has a dialog
  that needs none. The step that could break it is a login that reuses a dialog: `Fresh` keeps
  it from taking one a request refers to.
- `ImportsKeepToTheirBank`: `Spec => []ImportsIntoItsBank`, also for requests that overlap.
  `BankInv`: what `_pending_syncs` and `_active_sessions` hold was logged in with the row or
  bank they name, what a request has read of them stays so while others replace them, and no
  two requests have an uncommitted PIN (`wpin`) for the same row.
- `ImportsTakeTurns`: `Spec => []ImportsOverlapOnlyAfterUnfinishedLink`. `LockInv`: no two
  requests hold the same row lock, and one that fetches has written "syncing" or found it. New
  rows are the step that matters: no one has written a row that does not exist yet.
- `SyncsAreAtomic`: `Spec => SyncIsAtomic`, also from `LockInv`: what has been imported and not
  committed reads "idle" and is never touched again by the loop (`SyncOK`), and "syncing" is
  written where an import is running or by a link that waits for its approval (`StatusOK`).
- `PromptsStay`: `Spec => PromptedLoginStaysPending` if there is one request at a time
  (`OneRequest`, as in the run), now with every event. `PendingInv`: a sync has found
  nothing pending, a confirm has the dialog that is pending.
- `OneRowStays`: no two rows are of one bank (`OneRowPerBank`) if there is one request at a time and
  none are at the start (`OnePerBankAtFirst`). `RowInv`: a request writes at most the row at hand,
  and has a new one, or is to store one, only while no stored row is of its bank.
- `OneStartAnHour`: `Spec => []OneStartPerHour` under the same conditions if Redis never fails
  (`RedisStays`). `HourInv`: a login that was made is counted, and one that is about to be made is
  the first. With `OneRowStays` the limit of a row is that of its bank. Two syncs that overlap both
  read the counter before either raises it, and while Redis is down nothing is counted.

The assumptions are `BoundsAssumption` and `NoValueAssumption` of `BankSync`.

`ImportLedgerProofs` proves every safety property of the run `Ledger`, for every number of
imports, links and bookings by hand, any bookings, amounts and balances, from
`SessionsAssumption`, `BankAssumption`, `TotalAssumption` and `NoValueAssumption`. The layers of
the inductive invariant are proved one after the other, each with those before it:

- `LedgerTypeCorrect`: `TypeInv` adds to `TypeOK` which fields are set at each place (`PlaceOK`).
- `StoredOnce`: `NoBookingTwice` is inductive with `TypeInv`. The step that matters is `Insert`,
  which waits (`KeyIsFree`) and then looks at the committed bookings.
- `OneAccount`: `AccountInv` (an account that is being created is nobody else's and not yet
  committed) and `OverlapInv` (without an overlap, whoever creates an account is alone and there
  is none yet).
- `BalanceIsRight`: `SumInv` says of each session what its `initial_balance` and the bookings it
  will see amount to: the bank's balance and what others have committed since it read the sum.
  What it leaves is what is stored if it sends an UPDATE or what it had loaded is still stored,
  and the accounts of `unsent` are those where neither is so (`SendsNothing`).
  It needs the additivity of `Total` for sets that `NoBookingTwice` shows to be disjoint.
- `NothingFetchedIsLost`: `FetchedInv`, every fetched booking is committed, inserted or still to
  be added.
- `SyncsGoForward`: `LockInv` (one session holds the connection), `PostedInv` (no balance is
  from the future) and `OrderInv` (a sync that holds the lock has a balance as new as every
  stored one).
- `NobodyWaitsInACircle`: `Spec => []NoCircularWait`. `QueueInv`: an import is at one posting of
  the bank's list (`IsAt`), so all postings before it are booked, what it has inserted is among
  them and what it inserts is not; a booking by hand is one booking. In any set of waiting
  sessions one then waits for nobody in the set: the holder of the account, who only commits, or
  else the import farthest in the list (`GreatestUpTo`), or else a booking by hand; and if there is
  none of them, all wait for the connection, which nobody in the set then holds.

`HouseholdProofs` proves for every number of emails, households and transactions, from
`HouseholdAssumption`:

- `HouseholdTypeCorrect`: `TypeInv` adds to `TypeOK` which uncommitted writes a transaction can
  have at each place (`PlaceOK`).
- `NobodyIsOrphaned`: `Spec => []HouseholdsExist`. `HouseholdsExist` is about committed rows
  and not inductive: a commit may insert a row or delete a household. `WriteInv` says of each
  transaction before its commit that the household of a row it inserted is there and no other
  transaction deletes it (`RowsHeld`, what the foreign key's lock gives), and that one that
  deletes a household also deletes all that refers to it (`WipesAll`). `DeleteUser` gains
  `WipesAll`; `RowsHeld` of the others keeps it, as nobody can join what is being deleted.
- `OneHouseholdStays`: `Spec => SomeHouseholdStays`. `LoneInv`: until two deletions overlap,
  a deletion is alone, and the household it is done by exists and is another one.
- `InvitesAreUsedUp`: `Spec => []InviteIsUsedUp`. `UsedInv` says what each transaction knows of
  the invite of its email (`InviteOK`): a login that has found one deletes it or finds it
  deleted, an invite is written only for an email that is no member. Both are read before they
  are used, so the invariant holds only until a login and an invite (or its cancelling) of one
  email overlap, and until then it excludes that such a pair is in flight.
- `AMemberStays`: `Spec => LastMemberStays`. `ExpelOK` is what a transaction knows of the members
  it adds or removes, `Apart` that no two transactions write the identity of one email (the row
  locks). `CountInv`: until two removals from a household overlap, the member that was counted
  besides the removed one is still there. `FiniteSetTheorems` make a count above one a second
  member.
- `AllJoinAsAllowed`: `Spec => JoinsAsAllowed`. `JoinInv` is the same of rows and invites
  (`RowsOK`, `Aside`). `LoginInv`: as long as one first login runs at a time, what it has
  decided still holds. Without ALLOWED_EMAILS (`AskOK`) there are no members yet, or its invite
  is still there, or the household is gone; with it (`ListOK`, `OneHousehold`) there is at most
  one household. It uses `UsedInv` and `WriteInv`.

The steps of a transaction that insert nothing and delete no household (`Moves`) are alike for
the first three, so each gets one lemma for them and one for each of the four other kinds of
steps. For `InvitesAreUsedUp` a step that writes nothing others see is `UsedMove`.

`AgentProofs` proves for every number of chats, requests, questions, lists, rounds, calls and
exchanges, from `AgentAssumption`:

- `AgentTypeCorrect`: `Spec => []TypeOK`.
- `AgentKeepsItsPromise`: `Spec => KeepsItsPromise`, the refinement. `AgentInv` adds to the types
  that no two chats refer to the same list and that a list holds whole exchanges, at most
  `MaxExchanges`. The first makes an answer show up in one chat (`OneChat`); the second makes the
  cut of the oldest messages a cut of the oldest exchanges (`RememberedIsLast`), so that
  `Reply` is `Answer` of the chat whose list is written and a stutter if no chat refers to it any
  more. `SameChat` is the lemma for steps of a request that leave the lists alone.
- `ResultsStayTrue`: `Spec => []ResultsAreTrue`. `FollowOK`: the messages of a request and the calls
  it has still to make are one sequence, in which the results of the model's calls follow the
  message that makes them, in its order. `AnewOK`: a call is made once, since those to be made are
  of this round and numbered after all that were made; what is committed are the calls whose
  result says so, and only a call at its commit has anything to commit.

`ReportsProofs` proves for every number of households, processes, sessions and events, from
`DataAssumption`:

- `RowsAreSeededOnce`: `Spec => []SeededOnce`. `ConfigInv` and `KpiInv` add that a session which
  is to insert a row found none, that there is still none, and that it is alone with it: until
  two sessions overlap that both found none, which `raced` records.
- `DigestsAreSentOnce`: `Spec => []SentOnce`. `CarryInv`: as long as no message of a household
  came back, its digest is in one place, which is the message for all, its own message, one
  session (`Carries`) or the chat. `StoredInv`: the digests stored as sent, and the sessions that have
  sent one and not stored it, are no more than what has arrived.

- `DigestsAreNotForgotten`: `Spec => []NoDigestIsForgotten`. `DueInv`: the digest of a household
  is stored, or a message or a session still owes it (`Kept`), also the session of the message for
  all that has not sent its own one yet; `TaskInv`: that session does nothing else, and no other
  session starts digests.
- `FiguresAlwaysAgree`: `Spec => []FiguresAgree`. `PlaceInv` says of a session at which query of
  its script it is, so that what it has read so far is known. `FigInv`: in a digest nobody has
  disturbed, each figure it has read is what the data now give (`FiguresOK`). What is left is
  arithmetic about one state: totals, categories and keys are sums of the same amounts in other
  groups (`NetIsSum`, `MonthSplits`, `KeysAgree`), and the KPI's formula is the rate of the balance
  sheet (`RatesAgree`, from `RateAssumption`, the definition in `kpis/builtin_kpis.py`).
- `TypesStay`: `Spec => []TypeOK`. The rows are simple (`DataInv`); what a session holds is not.
  `KnowInv`: a session that projects or updates has its config or is still to load it, so that
  with `PlaceInv` it has one when it commits (`ConfigLoaded`: no script uses the config before it
  loads it), also if the household was deleted meanwhile; a worker's session is of a message.
- `ProjectionsStayOrdered`: `Spec => []ProjectionsAreOrdered`, from `ConfigAssumption` too.
  `MoneyInv`: what a session shows is in order (`Ordered`) or it has still to make its projection,
  from a balance that is a number and an income that is not negative. The rest is arithmetic for
  any rates and any horizon that is not negative (a condition of the property): powers are a
  recursive function; the gain of deposits is an exact division (`DivExact`, `Gains`); more put
  aside is more in the end (`GrowthMonotone`); and a higher rate is more in the end although the two
  rates have different denominators (`GainsLess`, `GrowthByRate`, by induction over the months).

`RowsInv` gives the types, and that what a session still has to do ends with its commit and has
its other steps once (`ScriptOK`, from the lemmas about `Script`). A step that neither writes rows nor
messages is `Quiet`; the queries share `GoesQuiet`, so that only `Seed`, `LoadConfig`, `Send`, `Delay`,
`Commit`, `Take`, `Deploy` and `Delete` have proofs of their own.

`TelegramBotsProofs` proves every property of the run `Bots`, for every number of households,
tokens, chats, sessions and Applications, from `BotsAssumption`. Each layer of the inductive
invariant uses those before it:

- `TypesStay`: `Spec => []TypeOK`. `TypeInv` adds which fields a session has at each place
  (`PlaceOK`), that an Application which a session stops or starts is nobody else's (`AppInv`),
  and that nothing changes pollers while the app is down or starts the bots (`PhaseInv`,
  `BootInv`).
- `PollersStay`: `Spec => []PollersFollowRows`. `LockInv` is what the row locks give: no two
  sessions hold the same row. A session that posts a token registers a poller before it commits
  (`Announces`), so `TokenInv` compares a poller with the committed token only if nobody is
  about to commit one; a deletion beside a new token is excluded by `raced`, a token whose commit
  failed by `stray`. It is the flush
  before the poller is started that keeps two such sessions of one household apart.
- `EveryBotStays`: `Spec => []EveryBotPolls`. `BotInv`: a household without its poller has a
  session that swaps it, is still in the list of the start of the app, or is in `unstarted`.
  It holds with and without a token in the settings.
- `LinkStays`: `Spec => CodeLinksTheChat`. `ChatInv`: a chat is linked once, also with the rows
  a session is about to commit. `LinkInv`: what a session has read of chats is still so as long
  as nobody has committed since it began.

Each action has a lemma that says what it does to the fields of its session, and each invariant a
lemma for the steps that do not disturb it (`Quiet`…).

`ClassificationProofs` proves every property of the run `Choices`, for every number of bookings and
sessions, any texts, lessons, phrases, categories and priorities, from `ClassificationAssumption`.
One inductive invariant (`Inv`) has all parts:

- `TypesHold`: `Spec => []TypeOK`. `TypeInv` adds what each place of a session says of its fields
  (`PlaceOK`) and of what it has made of each row (`RowOK`): an insert is of its own booking
  (`InsertOK`), a row that was loaded differs only as the operation may change it (`ChangeOK`).
  The category of a learned rule may be that of a transfer: a session that had loaded a booking
  before it was chosen by hand may still write its transfer over the choice, and the flag for
  "by hand" stays. It takes three sessions, more than the run has.
- `ChoicesStay`: `Spec => []ManualChoiceStays`. `SeenInv`: what a session that classifies has
  loaded is what is committed unless the booking was raced. With it the UPDATE, which sets only
  the columns that differ from what was loaded, merges to the choice (`Merges`).
- `CategoriesAreOfRules`: `Spec => []CategoriesFollowRules`. `AloneInv` says of a session that has
  been alone since it began that what it has loaded is committed, and that each booking it is
  done with fits (`Fits`) the account and the bookings it has loaded and the rules with those it
  has learned; `SweptInv` (what was seen is there) tells a booking added since from the others.
- `ExcludesStay`: `Spec => ExcludeStays`. `InsertInv` (a booking is inserted once) and
  `AccountInv` (the depot account does not go away) make what was an internal transfer to a
  session, by account or by a name on a booking it had loaded or inserted, one after its commit
  (`InternalGrows`).
- `NewestChoiceTeaches`: `Spec => NewestTeaches`. `Lessons` is a recursive function from the
  newest booking to the oldest; `LessonsLearned` is the lemma about all it can return.
  The least number at which a rule is there is the booking that taught it (`ChainTeaches`).

`NumbersAndSums` has the induction all that takes: the library's induction theorems have an operator
as parameter, but `WFMin` with `NatLessThanWellFounded` is about sets. From it follow
the least element of a set of numbers (`LeastNat`), the greatest of a bounded one, and that a set
with 0 and all successors has all numbers (`UpTo`); with these, a recursive function exists
(`ChainExists`) and has at each number what it has at the one before. `BySmaller` is the same for
the subsets of a finite set. A sum over a set is a fold, of which the prover knows nothing: there is
a table of the sums over all subsets of a finite set (`SumsExist`), a sum is what the table has
(`TotalByTable`), and so sums split by disjoint sets (`TotalSplits`), by terms (`TotalAdds`) and by
classes (`TotalByClass`).

Only model-checked:

- Liveness under fairness (`EveryRequestEnds`, `StaleIsNoticed`, and that
  `EveryHouseholdGetsDigest` fails): the prover has no rules for it.

## Not modelled

- The web frontend (a client of the API), the migrations, containers and build files.
- The parsing of what banks answer, the choice of a TAN mechanism, and FinTS itself: `BankSync`
  has the outcomes of the adapter's calls.
- Who may talk to a bot, Telegram groups and the legacy poller.
- Formulas of custom KPIs (`validate_formula` and its evaluator): a parser over text.
- Encryption, settings and the HTTP rate limit.

## Plan

1. An abstract specification of a link (not linked, waiting, linked, stale) that `BankSync`
   implements, and one of a ledger (a balance and a set of bookings) for `ImportLedger`.
2. The authorization of Telegram messages and groups, and accounts made by hand while imports
   run.
