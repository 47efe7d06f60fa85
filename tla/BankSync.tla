------------------------------ MODULE BankSync ------------------------------
(***************************************************************************)
(* Bank links and the household sync (src/src/banking): linking a bank     *)
(* over FinTS with an app approval, starting a sync with the stored PIN,   *)
(* confirming it, the hourly limit kept in Redis, the daily stale check    *)
(* of the Celery worker, restarts and failing services.                    *)
(*                                                                         *)
(* One household is modelled: every table row, Redis key and dictionary    *)
(* entry below is keyed by its id.  A request is an HTTP call, a Telegram  *)
(* command or an LLM tool call; each runs on one database session that is  *)
(* committed when it ends.  A step of a request ends where the code        *)
(* awaits something another request can interfere with.                    *)
(***************************************************************************)
EXTENDS Integers, FiniteSets

CONSTANTS
  Banks,        \* bank codes (BLZ) the household can link
  MaxConns,     \* bound: rows of bank_connections
  Requests,     \* requests that can be in flight at the same time
  Dialogs,      \* bound: FinTS dialogs something still refers to
  InitialBlz,   \* the banks of the rows there are at the start, oldest first
  InitialPin,   \* those of the rows with a stored PIN; older versions kept none
  InitialStatuses,  \* bound: what sync_status can be at the start
  Uses,         \* bound: the operations the household uses in a run
  Events,       \* bound: what else may happen in a run
  NoBank, NoDialog, NoPending

Conns  == 1..MaxConns
NoConn == 0

ASSUME BoundsAssumption ==
  /\ MaxConns \in Nat
  /\ \E n \in 0..MaxConns : InitialBlz \in [1..n -> Banks]
  /\ InitialPin \subseteq DOMAIN InitialBlz
  /\ "idle" \in InitialStatuses
  /\ InitialStatuses \subseteq {"idle", "syncing", "error", "stale"}
  /\ Uses \subseteq {"sync", "confirm", "link", "tan"}
  /\ Events \subseteq {"redis", "no redis", "restart", "database", "expiry",
                       "hour", "month", "stale check"}

ASSUME NoValueAssumption ==
  /\ NoBank \notin Banks
  /\ NoDialog \notin Dialogs
  /\ \A c \in Conns, d \in Dialogs : NoPending # [conn |-> c, dlg |-> d]

VARIABLES
  \* committed rows of bank_connections
  rows,       \* the rows that exist, all of them active
  blz,        \* bank_blz
  status,     \* sync_status
  pin,        \* the rows whose pin_encrypted is set
  synced,     \* the rows whose last_synced_at is less than 30 days old
  \* Redis
  redisUp,
  limited,    \* rows whose rate_limit:bank_sync key counts a sync
  \* memory of the app process
  pending,    \* _pending_syncs of this household
  sessions,   \* _active_sessions: the bank of each linking dialog
  req,        \* the requests in flight
  \* the Celery worker
  scan,       \* rows the running stale check has selected
  \* the bank
  phase,      \* of each dialog
  login,      \* the bank each dialog was opened with
  granted,    \* dialogs the user approved, or that needed no approval
  \* history, read by properties only
  starts,     \* sync logins per row in its current hour, 2 for "more than one"
  fresh,      \* rows with bookings imported in the last 30 days
  told        \* dialogs whose end the user was told about on confirming

db      == <<rows, blz, status, pin, synced>>
redis   == <<redisUp, limited>>
bank    == <<phase, login, granted>>
history == <<starts, fresh, told>>
vars    == <<db, redis, pending, sessions, req, scan, bank, history>>

-----------------------------------------------------------------------------
(* Values *)

Statuses == {"idle", "syncing", "error", "stale"}
Phases   == {"unused", "waiting", "approved", "open", "closed"}
Kinds    == {"none", "sync", "confirm", "link", "tan"}
Keep     == "keep"      \* a column the transaction has not written

\* Where a request is: in start_household_sync ("rate", "incr", "connect"),
\* in handle_tan ("tan", and "mark" once it has failed), around _execute_import
\* ("import", "fetch"), in the link handlers ("store", and in
\* _fetch_and_store_accounts "accounts", "upsert", "booking"), or at its commit.
Places == {"idle", "rate", "incr", "connect", "tan", "mark", "import", "fetch",
           "store", "accounts", "upsert", "booking", "commit"}

Request ==
  [ pc     : Places,
    kind   : Kinds,
    todo   : SUBSET Conns,               \* connections the sync loop has left
    conn   : Conns \cup {NoConn},        \* the row at hand
    bank   : Banks \cup {NoBank},        \* the bank being linked
    dlg    : Dialogs \cup {NoDialog},    \* the FinTS client at hand
    tan    : BOOLEAN,                    \* the link login asked for a TAN
    seen   : [Conns -> Statuses],        \* sync_status as the session loaded it
    wrote  : [Conns -> Statuses \cup {Keep}],  \* uncommitted sync_status
    wpin   : SUBSET Conns,               \* uncommitted credentials
    wsync  : SUBSET Conns,               \* uncommitted last_synced_at, now
    booked : SUBSET Conns ]              \* rows with uncommitted bookings

NoRequest ==
  [ pc |-> "idle", kind |-> "none", todo |-> {}, conn |-> NoConn,
    bank |-> NoBank, dlg |-> NoDialog, tan |-> FALSE,
    seen |-> [c \in Conns |-> "idle"], wrote |-> [c \in Conns |-> Keep],
    wpin |-> {}, wsync |-> {}, booked |-> {} ]

Pending == [conn : Conns, dlg : Dialogs]

TypeOK ==
  /\ rows \subseteq Conns
  /\ blz \in [Conns -> Banks \cup {NoBank}]
  /\ status \in [Conns -> Statuses]
  /\ pin \subseteq Conns
  /\ synced \subseteq Conns
  /\ redisUp \in BOOLEAN
  /\ limited \subseteq Conns
  /\ pending \in Pending \cup {NoPending}
  /\ sessions \in [Dialogs -> Banks \cup {NoBank}]
  /\ req \in [Requests -> Request]
  /\ scan \subseteq Conns
  /\ phase \in [Dialogs -> Phases]
  /\ login \in [Dialogs -> Banks \cup {NoBank}]
  /\ granted \subseteq Dialogs
  /\ starts \in [Conns -> 0..2]
  /\ fresh \subseteq Conns
  /\ told \subseteq Dialogs

\* The app has just started on the rows that earlier runs of it have left.
Init ==
  /\ rows = DOMAIN InitialBlz
  /\ blz = [c \in Conns |-> IF c \in rows THEN InitialBlz[c] ELSE NoBank]
  /\ status \in [Conns -> InitialStatuses]
  /\ \A c \in Conns \ rows : status[c] = "idle"
  /\ pin = InitialPin
  /\ synced = {}
  /\ redisUp = ("no redis" \notin Events)
  /\ limited = {}
  /\ pending = NoPending
  /\ sessions = [d \in Dialogs |-> NoBank]
  /\ req = [r \in Requests |-> NoRequest]
  /\ scan = {}
  /\ phase = [d \in Dialogs |-> "unused"]
  /\ login = [d \in Dialogs |-> NoBank]
  /\ granted = {}
  /\ starts = [c \in Conns |-> 0]
  /\ fresh = {}
  /\ told = {}
-----------------------------------------------------------------------------
(* The database session of a request *)

\* sync_status as the session of r sees it: what it wrote, else what it loaded.
Seen(r, c) == IF req[r].wrote[c] = Keep THEN req[r].seen[c] ELSE req[r].wrote[c]

\* Rows whose UPDATE or INSERT r has flushed: PostgreSQL locks them until r ends.
Locks(r) == {c \in Conns : req[r].wrote[c] # Keep} \cup req[r].wpin

\* A flush waits while another transaction holds the row.
Free(r, c) == \A q \in Requests \ {r} : c \notin Locks(q)

\* Fault: the status is not flushed, so no lock orders two imports.
CanSetStatusUnflushed(r, c, new) == TRUE

\* Assigning sync_status marks the row dirty only if the value is a new one, so
\* only then is an UPDATE flushed, which needs the row lock.
CanSetStatus(r, c, new) == Seen(r, c) = new \/ Free(r, c)

\* Fault: a status text that nothing else knows.
SetStatusMisspelt(r, c, new) ==
  [req[r].wrote EXCEPT ![c] = IF new = "error" THEN "failed" ELSE new]

SetStatus(r, c, new) ==
  IF Seen(r, c) = new THEN req[r].wrote ELSE [req[r].wrote EXCEPT ![c] = new]

\* Fault: the query for a link does not filter by bank.
LinkedAnyBank(r, b) == rows

\* Fault: the query passes over links whose last sync has failed.
LinkedWorking(r, b) ==
  {c \in rows : blz[c] = b /\ status[c] # "error"} \cup {c \in req[r].wpin \ rows : req[r].bank = b}

\* Rows a query of r for the active links with bank b can return.
Linked(r, b) ==
  {c \in rows : blz[c] = b} \cup {c \in req[r].wpin \ rows : req[r].bank = b}

\* The id of the next row: ids stand for the order of created_at.
NextRow(c) ==
  LET taken == rows \cup UNION {req[q].wpin : q \in Requests}
  IN  /\ c \in Conns \ taken
      /\ \A k \in Conns : k < c => k \in taken

\* Fault: connections are visited in any order.
IsNextUnordered(r, c) == c \in req[r].todo

\* The newest connection the loop of start_household_sync has left.
IsNext(r, c) == c \in req[r].todo /\ \A k \in req[r].todo : k <= c

\* Memory for a new FinTS client: nothing refers to it any more.
Fresh(d) ==
  /\ \A r \in Requests : req[r].dlg # d
  /\ pending # NoPending => pending.dlg # d
  /\ sessions[d] = NoBank

\* A login at bank b succeeds; tan says that the user has to approve it.
Open(d, b, tan) ==
  /\ Fresh(d)
  /\ phase' = [phase EXCEPT ![d] = IF tan THEN "waiting" ELSE "open"]
  /\ login' = [login EXCEPT ![d] = b]
  /\ granted' = IF tan THEN granted \ {d} ELSE granted \cup {d}
  /\ told' = told \ {d}

Close(d) ==
  /\ phase' = [phase EXCEPT ![d] = "closed"]
  /\ UNCHANGED <<login, granted>>

-----------------------------------------------------------------------------
(* start_household_sync: /banking/sync, Telegram /sync, LLM tool sync_bank *)

\* The links a sync can log in to: active, with a stored PIN.
Syncable == rows \cap pin

\* Fault: a sync starts whatever is pending.
LoginMayWait == TRUE

\* No login of the household waits for its approval.
NoLoginWaits == pending = NoPending

\* Lists the active connections and drops those without a stored PIN.  With a
\* pending login, or nothing to do, it only answers, which changes nothing.
StartHouseholdSync(r) ==
  /\ "sync" \in Uses /\ req[r].pc = "idle"
  /\ NoLoginWaits
  /\ Syncable # {}
  /\ req' = [req EXCEPT ![r] =
       [NoRequest EXCEPT !.pc = "rate", !.kind = "sync", !.todo = Syncable,
          !.seen = [c \in Conns |-> IF c \in rows THEN status[c] ELSE "idle"]]]
  /\ UNCHANGED <<db, redis, pending, sessions, scan, bank, history>>

\* The loop is done with row c.
LoopOn(r, c) ==
  LET rest == req[r].todo \ {c}
  IN  [req[r] EXCEPT !.todo = rest, !.conn = NoConn, !.dlg = NoDialog,
         !.pc = IF rest = {} THEN "commit" ELSE "rate"]

\* rate_limit_check, first await: GET.  A Redis error allows the call.
RateLimitRead(r, c) ==
  /\ req[r].pc = "rate" /\ IsNext(r, c)
  /\ req' = [req EXCEPT ![r] =
       IF redisUp /\ c \in limited
       THEN LoopOn(r, c)
       ELSE [req[r] EXCEPT !.conn = c,
                           !.pc = IF redisUp THEN "incr" ELSE "connect"]]
  /\ UNCHANGED <<db, redis, pending, sessions, scan, bank, history>>

\* Fault: the check reads the counter and never raises it.
RateLimitUncounted(r) ==
  /\ req[r].pc = "incr"
  /\ req' = [req EXCEPT ![r].pc = "connect"]
  /\ UNCHANGED <<db, redis, pending, sessions, scan, bank, history>>

\* rate_limit_check, second await: INCR and EXPIRE in one pipeline.
RateLimitCount(r) ==
  /\ req[r].pc = "incr"
  /\ limited' = IF redisUp THEN limited \cup {req[r].conn} ELSE limited
  /\ req' = [req EXCEPT ![r].pc = "connect"]
  /\ UNCHANGED <<db, redisUp, pending, sessions, scan, bank, history>>

\* adapter.connect fails: the row is marked, the loop goes on.
LoginRefused(r) ==
  LET c == req[r].conn
  IN  /\ req[r].pc = "connect"
      /\ CanSetStatus(r, c, "error")
      /\ req' = [req EXCEPT ![r] =
           [LoopOn(r, c) EXCEPT !.wrote = SetStatus(r, c, "error")]]
      /\ UNCHANGED <<db, redis, pending, sessions, scan, bank, history>>

CountStart(c) ==
  starts' = [starts EXCEPT ![c] = IF @ = 0 THEN 1 ELSE 2]

\* adapter.connect asks for an approval: put_pending_sync, then leave the loop.
LoginNeedsApproval(r, d) ==
  LET c == req[r].conn
  IN  /\ req[r].pc = "connect"
      /\ Open(d, blz[c], TRUE)
      /\ pending' = [conn |-> c, dlg |-> d]
      /\ req' = [req EXCEPT ![r].todo = {}, ![r].conn = NoConn, ![r].pc = "commit"]
      /\ CountStart(c)
      /\ UNCHANGED <<db, redis, sessions, scan, fresh>>

\* adapter.connect opens the dialog at once.
LoginOpens(r, d) ==
  LET c == req[r].conn
  IN  /\ req[r].pc = "connect"
      /\ Open(d, blz[c], FALSE)
      /\ req' = [req EXCEPT ![r].dlg = d, ![r].pc = "import"]
      /\ CountStart(c)
      /\ UNCHANGED <<db, redis, pending, sessions, scan, fresh>>

-----------------------------------------------------------------------------
(* confirm_household_sync and complete_tan_sync *)

\* Reads the pending login and loads its row.
ConfirmHouseholdSync(r) ==
  /\ "confirm" \in Uses /\ req[r].pc = "idle"
  /\ pending # NoPending
  /\ pending.conn \in rows
  /\ req' = [req EXCEPT ![r] =
       [NoRequest EXCEPT !.pc = "tan", !.kind = "confirm",
          !.conn = pending.conn, !.dlg = pending.dlg,
          !.seen = [@ EXCEPT ![pending.conn] = status[pending.conn]]]]
  /\ UNCHANGED <<db, redis, pending, sessions, scan, bank, history>>

\* Fault: a TAN that still waits counts as accepted.
AcceptableUnapproved ==
  {d \in Dialogs : phase[d] \in {"waiting", "approved", "open"}}

\* The dialogs in which the bank can accept handle_tan.
Acceptable == {d \in Dialogs : phase[d] \in {"approved", "open"}}

\* handle_tan succeeds: the approval was given.  A dialog another request has
\* already taken past its TAN may be accepted once more.  If another /tan has
\* finished with the linking session meanwhile, nothing is fetched.
TanAccepted(r) ==
  LET d == req[r].dlg
  IN  /\ req[r].pc = "tan"
      /\ d \in Acceptable
      /\ phase' = [phase EXCEPT ![d] = "open"]
      /\ req' = [req EXCEPT ![r].pc = IF req[r].kind = "confirm" THEN "import"
                                      ELSE IF sessions[d] = NoBank THEN "commit"
                                      ELSE "accounts"]
      /\ UNCHANGED <<db, redis, pending, sessions, scan, login, granted, history>>

\* handle_tan fails: not approved within the two minutes of polling, a dialog the
\* bank has closed, or a network error.  complete_tan_sync has the row to mark,
\* and pending stays; /tan queries the active links of the household and marks
\* whichever comes first.  The hint to tap Sync again is for a closed dialog.
TanRefused(r) ==
  LET d == req[r].dlg
  IN  /\ req[r].pc = "tan"
      /\ IF req[r].kind = "confirm"
         THEN req' = [req EXCEPT ![r].pc = "mark"]
         ELSE \/ /\ rows = {}
                 /\ req' = [req EXCEPT ![r].pc = "commit"]
              \/ \E c \in rows :
                   req' = [req EXCEPT ![r].pc = "mark", ![r].conn = c,
                             ![r].seen = [@ EXCEPT ![c] = status[c]]]
      /\ told' = IF req[r].kind = "confirm" /\ phase[d] = "closed"
                 THEN told \cup {d} ELSE told
      /\ UNCHANGED <<db, redis, pending, sessions, scan, bank, starts, fresh>>

\* The row a failed TAN leaves with sync_status "error".
MarkError(r) ==
  LET c == req[r].conn
  IN  /\ req[r].pc = "mark"
      /\ CanSetStatus(r, c, "error")
      /\ req' = [req EXCEPT ![r].wrote = SetStatus(r, c, "error"),
                            ![r].pc = "commit"]
      /\ UNCHANGED <<db, redis, pending, sessions, scan, bank, history>>

\* _execute_import up to its first flush: sync_status "syncing".
ImportBegin(r) ==
  LET c == req[r].conn
  IN  /\ req[r].pc = "import"
      /\ CanSetStatus(r, c, "syncing")
      /\ req' = [req EXCEPT ![r].wrote = SetStatus(r, c, "syncing"),
                            ![r].pc = "fetch"]
      /\ UNCHANGED <<db, redis, pending, sessions, scan, bank, history>>

\* What a finished import leaves in the session of the request q: sync_status
\* "idle", last_synced_at, the bookings.
Imported(q, c, wrote) ==
  [q EXCEPT !.wrote = wrote, !.wsync = @ \cup {c}, !.booked = @ \cup {c}]

\* The rest of _execute_import, and finally disconnect.  Then the sync loop goes
\* on, or confirm_household_sync pops what is pending for the household.
ImportEnd(r) ==
  LET c == req[r].conn
      q == IF req[r].kind = "sync" THEN LoopOn(r, c)
           ELSE [req[r] EXCEPT !.pc = "commit"]
  IN  /\ req[r].pc = "fetch"
      /\ CanSetStatus(r, c, "idle")
      /\ req' = [req EXCEPT ![r] = Imported(q, c, SetStatus(r, c, "idle"))]
      /\ pending' = IF req[r].kind = "sync" THEN pending ELSE NoPending
      /\ Close(req[r].dlg)
      /\ UNCHANGED <<db, redis, sessions, scan, history>>

\* Fault: the exception is swallowed and the session commits what it has.
ImportSwallows(r) ==
  /\ "database" \in Events
  /\ req[r].pc = "fetch"
  /\ Close(req[r].dlg)
  /\ req' = [req EXCEPT ![r].pc = "commit"]
  /\ UNCHANGED <<db, redis, pending, sessions, scan, history>>

\* The database raises inside _execute_import: disconnect, then roll back.
ImportRaises(r) ==
  /\ "database" \in Events
  /\ req[r].pc = "fetch"
  /\ Close(req[r].dlg)
  /\ req' = [req EXCEPT ![r] = NoRequest]
  /\ UNCHANGED <<db, redis, pending, sessions, scan, history>>
-----------------------------------------------------------------------------
(* Linking: POST /connect and POST /tan *)

\* adapter.connect succeeds and upsert_bank_connection looks for the row.  A
\* refused login only answers, which changes nothing.
LinkConnect(r, b, d, tan) ==
  /\ "link" \in Uses /\ req[r].pc = "idle"
  /\ Open(d, b, tan)
  /\ \E c \in IF Linked(r, b) = {} THEN {NoConn} ELSE Linked(r, b) :
       req' = [req EXCEPT ![r] =
         [NoRequest EXCEPT !.pc = "store", !.kind = "link", !.bank = b,
            !.dlg = d, !.tan = tan, !.conn = c,
            !.seen = IF c = NoConn THEN @ ELSE [@ EXCEPT ![c] = status[c]]]]
  /\ UNCHANGED <<db, redis, pending, sessions, scan, starts, fresh>>

\* upsert_bank_connection: the row found, or a new one, gets the credentials
\* (encrypted afresh, so always an UPDATE) and its sync_status is set to s.
Upsert(r, s, next) ==
  LET found == req[r].conn
  IN  \E c \in Conns :
        /\ IF found = NoConn THEN NextRow(c) ELSE c = found /\ Free(r, c)
        /\ req' = [req EXCEPT ![r].conn = c, ![r].pc = next,
             ![r].wpin  = @ \cup {c},
             ![r].wrote = IF found = NoConn THEN [@ EXCEPT ![c] = s]
                                            ELSE SetStatus(r, c, s)]

\* Credentials and status are flushed, then the live client is remembered.
LinkStore(r) ==
  /\ req[r].pc = "store"
  /\ IF req[r].tan THEN Upsert(r, "syncing", "commit")
                   ELSE Upsert(r, "idle", "accounts")
  /\ sessions' = [sessions EXCEPT ![req[r].dlg] = req[r].bank]
  /\ UNCHANGED <<db, redis, pending, scan, bank, history>>

\* POST /tan with the session id of dialog d.  FastAPI may send the answer to
\* /connect before its dependency commits, so the client may be here first.
SubmitTan(r, d) ==
  /\ "tan" \in Uses /\ req[r].pc = "idle"
  /\ sessions[d] # NoBank
  /\ req' = [req EXCEPT ![r] =
       [NoRequest EXCEPT !.pc = "tan", !.kind = "tan", !.dlg = d,
                         !.bank = sessions[d]]]
  /\ UNCHANGED <<db, redis, pending, sessions, scan, bank, history>>

\* _fetch_and_store_accounts: fetches the accounts and looks for the link again,
\* also in /connect, which may now find another row of the bank.  A row the session
\* has loaded before stays as it was loaded.
FetchAccounts(r) ==
  LET found == Linked(r, req[r].bank)
  IN  /\ req[r].pc = "accounts"
      /\ \E c \in IF found = {} THEN {NoConn} ELSE found :
           req' = [req EXCEPT ![r].pc = "upsert", ![r].conn = c,
                     ![r].seen = IF c = NoConn \/ c \in req[r].wpin THEN @
                                 ELSE [@ EXCEPT ![c] = status[c]]]
      /\ UNCHANGED <<db, redis, pending, sessions, scan, bank, history>>

\* ... and stores the link again, sync_status "idle".
StoreAccounts(r) ==
  /\ req[r].pc = "upsert"
  /\ Upsert(r, "idle", "booking")
  /\ UNCHANGED <<db, redis, pending, sessions, scan, bank, history>>

\* The rest of _fetch_and_store_accounts.  Every exception is swallowed, the bank may
\* not even name its accounts, so the bookings may be missing; disconnect and the end
\* of the session always happen.
LinkEnd(r) ==
  /\ req[r].pc \in {"accounts", "booking"}
  /\ \E stored \in {FALSE, req[r].pc = "booking"} :
       req' = [req EXCEPT ![r].pc = "commit",
         ![r].booked = IF stored THEN @ \cup {req[r].conn} ELSE @]
  /\ sessions' = [sessions EXCEPT ![req[r].dlg] = NoBank]
  /\ Close(req[r].dlg)
  /\ UNCHANGED <<db, redis, pending, scan, history>>

\* The database raises inside _fetch_and_store_accounts: the exception is swallowed,
\* disconnect and the end of the session follow, and the commit can only roll back.
LinkRaises(r) ==
  /\ "database" \in Events
  /\ req[r].pc \in {"accounts", "upsert"}
  /\ sessions' = [sessions EXCEPT ![req[r].dlg] = NoBank]
  /\ Close(req[r].dlg)
  /\ req' = [req EXCEPT ![r] = NoRequest]
  /\ UNCHANGED <<db, redis, pending, scan, history>>

-----------------------------------------------------------------------------
(* The end of a request: get_db, get_standalone_session, execute_tool *)

Commit(r) ==
  LET q == req[r]
  IN  /\ q.pc = "commit"
      /\ rows' = rows \cup q.wpin
      /\ blz' = [c \in Conns |-> IF c \in q.wpin \ rows THEN q.bank ELSE blz[c]]
      /\ status' = [c \in Conns |-> IF q.wrote[c] = Keep THEN status[c]
                                    ELSE q.wrote[c]]
      /\ pin' = pin \cup q.wpin
      /\ synced' = synced \cup q.wsync
      /\ fresh' = fresh \cup q.booked
      /\ req' = [req EXCEPT ![r] = NoRequest]
      /\ UNCHANGED <<redis, pending, sessions, scan, bank, starts, told>>

\* The database fails at a flush or at the commit: everything is rolled back,
\* memory stays as it is.
RollBack(r) ==
  /\ "database" \in Events
  /\ req[r].pc \in {"mark", "store", "commit"}
  /\ req' = [req EXCEPT ![r] = NoRequest]
  /\ UNCHANGED <<db, redis, pending, sessions, scan, bank, history>>

-----------------------------------------------------------------------------
(* The daily check_stale_connections of the Celery worker *)

\* Fault: rows whose last login failed are passed over.
StaleScanHealthy ==
  /\ "stale check" \in Events /\ scan = {}
  /\ scan' = {c \in rows : c \notin synced /\ status[c] \in {"idle", "syncing"}}
  /\ UNCHANGED <<db, redis, pending, sessions, req, bank, history>>

\* Selects the active rows never synced or not for 30 days.  A row that already reads
\* "stale" is loaded too, but assigning the same text again writes nothing.
StaleScan ==
  /\ "stale check" \in Events /\ scan = {}
  /\ scan' = {c \in rows : c \notin synced /\ status[c] # "stale"}
  /\ UNCHANGED <<db, redis, pending, sessions, req, bank, history>>

\* Flushes the selected rows by primary key, once it holds them all, and commits.
StaleMark ==
  /\ scan # {}
  /\ \A r \in Requests : Locks(r) \cap scan = {}
  /\ status' = [c \in Conns |-> IF c \in scan THEN "stale" ELSE status[c]]
  /\ scan' = {}
  /\ UNCHANGED <<rows, blz, pin, synced, redis, pending, sessions, req, bank,
                 history>>

-----------------------------------------------------------------------------
(* The world *)

\* The user approves the login in the banking app.
Approve(d) ==
  /\ phase[d] = "waiting"
  /\ phase' = [phase EXCEPT ![d] = "approved"]
  /\ granted' = granted \cup {d}
  /\ UNCHANGED <<db, redis, pending, sessions, req, scan, login, history>>

\* The bank closes a dialog: refused in the app, or idle for too long.
Expire(d) ==
  /\ "expiry" \in Events
  /\ phase[d] \in {"waiting", "approved", "open"}
  /\ Close(d)
  /\ UNCHANGED <<db, redis, pending, sessions, req, scan, history>>

\* An hour after the last counted sync of c: the Redis key expires.  A request
\* stays between its GET and the end of its login for far less than an hour.
HourPasses(c) ==
  /\ "hour" \in Events
  /\ \A r \in Requests : req[r].conn = c => req[r].pc \notin {"incr", "connect"}
  /\ c \in limited \/ starts[c] # 0
  /\ limited' = limited \ {c}
  /\ starts' = [starts EXCEPT ![c] = 0]
  /\ UNCHANGED <<db, redisUp, pending, sessions, req, scan, bank, fresh, told>>

\* The last sync of c becomes older than 30 days.
MonthPasses(c) ==
  /\ "month" \in Events
  /\ c \in synced \cup fresh
  /\ synced' = synced \ {c}
  /\ fresh' = fresh \ {c}
  /\ UNCHANGED <<rows, blz, status, pin, redis, pending, sessions, req, scan,
                 bank, starts, told>>

RedisFails ==
  /\ "redis" \in Events /\ redisUp
  /\ redisUp' = FALSE
  /\ UNCHANGED <<db, limited, pending, sessions, req, scan, bank, history>>

\* Redis comes back, with its keys or without.
RedisRecovers ==
  /\ "redis" \in Events /\ ~redisUp
  /\ redisUp' = TRUE
  /\ limited' \in {limited, {}}
  /\ UNCHANGED <<db, pending, sessions, req, scan, bank, history>>

\* The app process restarts: its memory is empty, open transactions roll back.
Restart ==
  /\ "restart" \in Events
  /\ pending' = NoPending
  /\ sessions' = [d \in Dialogs |-> NoBank]
  /\ req' = [r \in Requests |-> NoRequest]
  /\ UNCHANGED <<db, redis, scan, bank, history>>

-----------------------------------------------------------------------------
(* Specification *)

\* What a request does by itself once it has begun.
Proceed(r) ==
  \/ \E c \in Conns : RateLimitRead(r, c)
  \/ RateLimitCount(r)
  \/ LoginRefused(r)
  \/ \E d \in Dialogs : LoginNeedsApproval(r, d) \/ LoginOpens(r, d)
  \/ TanAccepted(r)
  \/ TanRefused(r)
  \/ MarkError(r)
  \/ ImportBegin(r)
  \/ ImportEnd(r)
  \/ LinkStore(r)
  \/ FetchAccounts(r)
  \/ StoreAccounts(r)
  \/ LinkEnd(r)
  \/ Commit(r)

\* What users and failing services may do to a request.
Interfere(r) ==
  \/ StartHouseholdSync(r)
  \/ ConfirmHouseholdSync(r)
  \/ \E b \in Banks, d \in Dialogs, tan \in BOOLEAN : LinkConnect(r, b, d, tan)
  \/ \E d \in Dialogs : SubmitTan(r, d)
  \/ ImportRaises(r)
  \/ LinkRaises(r)
  \/ RollBack(r)

World ==
  \/ StaleScan
  \/ StaleMark
  \/ \E d \in Dialogs : Approve(d) \/ Expire(d)
  \/ \E c \in Conns : HourPasses(c) \/ MonthPasses(c)
  \/ RedisFails
  \/ RedisRecovers
  \/ Restart

Next == (\E r \in Requests : Proceed(r) \/ Interfere(r)) \/ World

Spec == Init /\ [][Next]_vars

\* The server finishes what it has begun: HTTP and database calls end, in an
\* answer or in an error, and PostgreSQL hands a row lock to those who wait for
\* it in their order, so a request or check that can go on again and again does
\* go on.  Celery beat starts the stale check every day.  Nothing is assumed of
\* users, the bank or Redis.
FairSpec ==
  /\ Spec
  /\ \A r \in Requests : SF_vars(Proceed(r))
  /\ WF_vars(StaleScan)
  /\ SF_vars(StaleMark)

-----------------------------------------------------------------------------
(* Safety *)

\* Bookings are fetched only over a login that the user approved in the banking
\* app or that the bank did not ask to approve, however the requests that share
\* a dialog interleave (service.py complete_tan_sync, router.py api_submit_tan).
ApprovedBeforeImport ==
  \A r \in Requests :
    req[r].pc \in {"import", "fetch", "accounts", "upsert", "booking"}
      => req[r].dlg \in granted

\* A login never ends up in the bookings of another bank's row: the dialog a
\* request imports from was opened with the bank of the row it imports into.  What
\* the app remembers between two requests keeps to it: the pending login names a
\* stored link with a PIN, and a linking session the bank of its dialog.
ImportsIntoItsBank ==
  /\ \A r \in Requests :
       /\ req[r].pc \in {"import", "fetch"} => login[req[r].dlg] = blz[req[r].conn]
       /\ req[r].pc \in {"upsert", "booking"} /\ req[r].conn \in rows
            => login[req[r].dlg] = blz[req[r].conn]
  /\ pending # NoPending =>
       pending.conn \in rows \cap pin /\ login[pending.dlg] = blz[pending.conn]
  /\ \A d \in Dialogs : sessions[d] # NoBank => login[d] = sessions[d]

\* Two imports into one row overlap only while the row reads "syncing" from a
\* link that was never finished: otherwise the first flush of _execute_import
\* takes the row lock, and a second confirm waits until the first has committed.
ImportsOverlapOnlyAfterUnfinishedLink ==
  \A r, q \in Requests :
    /\ r # q
    /\ req[r].pc = "fetch" /\ req[q].pc = "fetch"
    /\ req[r].conn = req[q].conn
    => "syncing" \in {req[r].seen[req[r].conn], req[q].seen[req[q].conn]}

\* At most one sync login per connection and hour (ARCHITECTURE.md, Bank sync), and no
\* more of a bank: linking it again finds its row (upsert_bank_connection), whatever the
\* row reads, and also if another dialog of the bank was begun before and stores later.
OneStartPerHour ==
  /\ \A c \in Conns : starts[c] <= 1
  /\ \A c, k \in rows : blz[c] = blz[k] /\ starts[c] # 0 /\ starts[k] # 0 => c = k

\* After the hint to tap Sync bank and approve the new request, the dead login
\* is not in the way of that sync.
HintedLoginIsDropped ==
  pending # NoPending /\ pending.dlg \in told
    => \E r \in Requests : req[r].dlg = pending.dlg

\* A link reads "stale" only if nothing was imported for 30 days.
StaleMeansIdle == \A c \in rows : status[c] = "stale" => c \notin fresh

-----------------------------------------------------------------------------
(* What a step may never do *)

\* What an import does becomes visible in one commit: last_synced_at with the
\* status "idle" and the bookings.  Its "syncing" never does, neither when it fails
\* nor after a restart: only a /connect that waits for the approval commits one.
SyncIsAtomic ==
  [][/\ \A c \in synced' \ synced : status'[c] = "idle" /\ c \in fresh'
     /\ \A c \in Conns :
          status[c] # "syncing" /\ status'[c] = "syncing"
            => \E r \in Requests : /\ req[r].pc = "commit" /\ req[r].kind = "link"
                                   /\ req[r].tan]_vars

\* A login the user was asked to approve stays pending until a confirm has
\* imported from it, or the app restarts.
PromptedLoginStaysPending ==
  [][ pending # NoPending /\ pending' # pending
      => \/ \E r \in Requests : req[r].pc = "fetch" /\ req[r].dlg = pending.dlg
                                /\ req'[r].pc = "commit"
         \/ \A r \in Requests : req'[r] = NoRequest ]_vars

-----------------------------------------------------------------------------
(* Liveness *)

\* Every sync ends, also when two of them meet on the rows of a household: neither the
\* sync loop nor waiting for row locks goes on for ever (start_household_sync keeps the
\* locks of the rows it has passed).
EveryRequestEnds ==
  \A r \in Requests : req[r].pc # "idle" ~> req[r].pc = "idle"

\* A link that nothing has synced for 30 days is marked "stale" by the daily
\* check, whatever its status, unless a sync gets there first.
StaleIsNoticed ==
  \A c \in Conns : c \in rows \ synced ~> c \in synced \/ status[c] = "stale"
=============================================================================
