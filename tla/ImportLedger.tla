---------------------------- MODULE ImportLedger ----------------------------
(***************************************************************************)
(* How an import writes the ledger: the loop of _execute_import and of     *)
(* _fetch_and_store_accounts over one IBAN of a household, with            *)
(* find_account_by_iban, create_account, add_transaction and the           *)
(* correction of initial_balance, next to bookings a user or the LLM tool  *)
(* adds by hand meanwhile.                                                 *)
(*                                                                         *)
(* Every session is a PostgreSQL transaction under READ COMMITTED: it sees *)
(* what is committed and what it wrote itself, and what it wrote is        *)
(* committed or lost as a whole.  BankSync models when imports start; here *)
(* they start at any time, kept apart by the row lock of the connection.   *)
(***************************************************************************)
EXTENDS Integers, Sequences, FiniteSets

CONSTANTS
  Imports,      \* sessions that import
  Links,        \* those of api_connect_bank and api_submit_tan
  Lockless,     \* those that share no locked connection row with another: they
                \* found sync_status "syncing" already set, or link a new row
  Hands,        \* sessions that add one booking by hand
  Keys,         \* bookings up to date, amount and description
  Total,        \* the sum of the amounts of a set of bookings
  List,         \* bound: what the bank posts to the IBAN, in order
  Balance,      \* the bank's balance after so many postings
  Old,          \* the postings dated before import_since_date
  MaxAccounts,  \* bound: rows of accounts for the IBAN
  FirstOpening, \* initial_balance of the account there may be at the start
  None, Unknown, Keep, NoAccount

Sessions == Imports \cup Hands
Accounts == 1..MaxAccounts
Postings == 0..Len(List)

ASSUME SessionsAssumption ==
  /\ Links \subseteq Imports
  /\ Lockless \subseteq Imports
  /\ Imports \cap Hands = {}

ASSUME BankAssumption ==
  /\ List \in Seq(Keys)
  /\ Balance \in [Postings -> Int]
  /\ Old \in Postings
  /\ MaxAccounts \in Nat \ {0}
  /\ FirstOpening \in Int

\* The sum of amounts is additive.
ASSUME TotalAssumption ==
  /\ Total \in [SUBSET Keys -> Int]
  /\ \A A, B \in SUBSET Keys :
       A \cap B = {} => Total[A \cup B] = Total[A] + Total[B]

ASSUME NoValueAssumption ==
  /\ None \notin Postings
  /\ Unknown \notin Int
  /\ Keep \notin Int
  /\ NoAccount \notin Accounts

VARIABLES
  accounts,    \* committed rows of accounts with the IBAN
  opening,     \* their initial_balance
  booked,      \* the committed bookings of each, by what import_hash is made of
  posted,      \* how many bookings the bank has posted
  work,        \* the sessions
  \* history, read by properties only
  known,       \* what the ledger should show: the last balance and what followed
  asOf,        \* how many postings the last stored balance had counted
  overlapped,  \* two imports in flight have found no account
  unsent       \* accounts whose last import with a balance sent no UPDATE, since
               \* it had computed what it had loaded, and what it had loaded was
               \* no longer stored

history == <<known, asOf, overlapped, unsent>>
vars    == <<accounts, opening, booked, posted, work, history>>

-----------------------------------------------------------------------------
(* Values *)

\* A session runs once.  The awaits of _execute_import: the flush of sync_status,
\* fetch_accounts, find_account_by_iban, create_account, fetch_transactions, the
\* duplicate check and the INSERT of add_transaction, the UPDATE of
\* initial_balance, the commit.  A link without accounts still writes its row.
Places == {"idle", "lock", "lock only", "accounts", "find", "create", "bookings",
           "look", "insert", "flush", "commit", "done"}

Session ==
  [ pc      : Places,
    acc     : Accounts \cup {NoAccount},
    makes   : BOOLEAN,                  \* it found no account and inserts one
    at      : Postings \cup {None},     \* the postings its balance counts
    loaded  : Int,                      \* initial_balance as loaded
    opening : Int \cup {Keep},          \* initial_balance as written
    got     : SUBSET Keys,              \* what fetch_transactions returned
    todo    : Seq(Keys),                \* raw_txs still to be added
    new     : SUBSET Keys,              \* inserted bookings, uncommitted
    \* history
    late    : Int ]     \* amounts others committed after its SELECT of the sum

NoSession ==
  [ pc |-> "idle", acc |-> NoAccount, makes |-> FALSE, at |-> None,
    loaded |-> 0, opening |-> Keep, got |-> {}, todo |-> <<>>, new |-> {},
    late |-> 0 ]

Ended == [NoSession EXCEPT !.pc = "done"]

TypeOK ==
  /\ accounts \subseteq Accounts
  /\ opening \in [Accounts -> Int]
  /\ booked \in [Accounts -> SUBSET Keys]
  /\ posted \in Postings
  /\ work \in [Sessions -> Session]
  /\ known \in [Accounts -> Int \cup {Unknown}]
  /\ asOf \in [Accounts -> Postings]
  /\ overlapped \in BOOLEAN
  /\ unsent \subseteq Accounts

\* Before the first import; the user may have created the account by hand.
Init ==
  /\ accounts \in {{}, {1}}
  /\ opening = [a \in Accounts |-> IF a \in accounts THEN FirstOpening ELSE 0]
  /\ booked = [a \in Accounts |-> {}]
  /\ posted = Old
  /\ work = [s \in Sessions |-> NoSession]
  /\ known = [a \in Accounts |-> Unknown]
  /\ asOf = [a \in Accounts |-> 0]
  /\ overlapped = FALSE
  /\ unsent = {}

-----------------------------------------------------------------------------
(* Visibility and locks *)

\* Fault: a session without autoflush does not see what it has added.
VisibleCommitted(s) == booked[work[s].acc]

\* What s sees booked on its account: committed bookings and its own.
Visible(s) == booked[work[s].acc] \cup work[s].new

\* Fault: sync_status is set and flushed only at the end.
HoldsNothing(s) == FALSE

\* s has flushed sync_status or the credentials, which locks the connection row.
HoldsConnection(s) ==
  /\ s \in Imports \ Lockless
  /\ work[s].pc \notin {"idle", "lock", "lock only", "done"}
  /\ s \in Links => work[s].pc # "accounts"

\* s has flushed an UPDATE of the account, which locks its row.
HoldsAccount(s, a) ==
  work[s].acc = a /\ work[s].pc = "commit" /\ work[s].opening # Keep

\* Fault: import_hash is not unique.
KeyIsFreeUnindexed(s, k) == TRUE

\* An INSERT of a key another transaction has inserted waits for its end.
KeyIsFree(s, k) ==
  \A t \in Sessions \ {s} : work[t].acc = work[s].acc => k \notin work[t].new

-----------------------------------------------------------------------------
(* Imports *)

\* A sync first flushes sync_status, a link first asks the bank.
BeginImport(s) ==
  /\ s \in Imports /\ work[s].pc = "idle"
  /\ work' = [work EXCEPT ![s] =
       [NoSession EXCEPT !.pc = IF s \in Links THEN "accounts" ELSE "lock"]]
  /\ UNCHANGED <<accounts, opening, booked, posted, history>>

\* The flush waits while another transaction holds the row.
LockConnection(s) ==
  /\ work[s].pc \in {"lock", "lock only"}
  /\ s \notin Lockless => \A t \in Imports \ {s} : ~HoldsConnection(t)
  /\ work' = [work EXCEPT ![s].pc =
       IF work[s].pc = "lock only" THEN "commit"
       ELSE IF s \in Links THEN "find" ELSE "accounts"]
  /\ UNCHANGED <<accounts, opening, booked, posted, history>>

\* fetch_accounts: the account with its balance, or without one when only
\* get_balance failed, or an empty list, after which nothing is left to do.
FetchAccounts(s) ==
  /\ work[s].pc = "accounts"
  /\ \/ \E at \in {posted, None} :
          work' = [work EXCEPT ![s].at = at,
                     ![s].pc = IF s \in Links THEN "lock" ELSE "find"]
     \/ work' = [work EXCEPT ![s].pc = IF s \in Links THEN "lock only" ELSE "commit"]
  /\ UNCHANGED <<accounts, opening, booked, posted, history>>

\* Fault: IBANs are compared as they are written, so the stored one never matches.
FindAccountVerbatim(s) ==
  /\ work[s].pc = "find"
  /\ work' = [work EXCEPT ![s].makes = TRUE, ![s].pc = "create"]
  /\ overlapped' = (overlapped \/ \E t \in Sessions \ {s} : work[t].makes)
  /\ UNCHANGED <<accounts, opening, booked, posted, known, asOf, unsent>>

\* find_account_by_iban: the first match, in no particular order.
FindAccount(s) ==
  /\ work[s].pc = "find"
  /\ IF accounts = {}
     THEN /\ work' = [work EXCEPT ![s].makes = TRUE, ![s].pc = "create"]
          /\ overlapped' = (overlapped \/ \E t \in Sessions \ {s} : work[t].makes)
     ELSE /\ \E a \in accounts :
               work' = [work EXCEPT ![s].acc = a, ![s].loaded = opening[a],
                                    ![s].pc = "bookings"]
          /\ UNCHANGED overlapped
  /\ UNCHANGED <<accounts, opening, booked, posted, known, asOf, unsent>>

\* Fault: no initial_balance when the bank gave no balance.
CreateAccountBlank(s) ==
  /\ work[s].pc = "create" /\ work[s].at = None
  /\ \E a \in Accounts \ accounts :
       work' = [work EXCEPT ![s].acc = a, ![s].loaded = None, ![s].opening = None,
                            ![s].pc = "bookings"]
  /\ UNCHANGED <<accounts, opening, booked, posted, history>>

\* create_account: a row of its own, its initial_balance the bank's balance or 0.
CreateAccount(s) ==
  /\ work[s].pc = "create"
  /\ \E a \in Accounts \ accounts :
       /\ \A t \in Sessions : work[t].acc # a
       /\ \A b \in Accounts : b < a => b \in accounts \/ \E t \in Sessions : work[t].acc = b
       /\ LET first == IF work[s].at = None THEN 0 ELSE Balance[work[s].at]
          IN  work' = [work EXCEPT ![s].acc = a, ![s].loaded = first,
                                   ![s].opening = first, ![s].pc = "bookings"]
  /\ UNCHANGED <<accounts, opening, booked, posted, history>>

\* Fault: the bookings of the two statement formats come in any order.
FetchBookingsUnordered(s) ==
  /\ work[s].pc = "bookings"
  /\ \E up \in BOOLEAN :
       LET n   == posted - Old
           raw == [i \in 1..n |-> List[IF up THEN Old + i ELSE posted + 1 - i]]
       IN  work' = [work EXCEPT ![s].todo = raw, ![s].pc = "look",
                                ![s].got = {raw[i] : i \in DOMAIN raw}]
  /\ UNCHANGED <<accounts, opening, booked, posted, history>>

\* fetch_transactions: the postings since import_since_date, or none on an error.
FetchBookings(s) ==
  /\ work[s].pc = "bookings"
  /\ \E raw \in {<<>>, SubSeq(List, Old + 1, posted)} :
       work' = [work EXCEPT ![s].todo = raw, ![s].pc = "look",
                            ![s].got = {raw[i] : i \in DOMAIN raw}]
  /\ UNCHANGED <<accounts, opening, booked, posted, history>>

-----------------------------------------------------------------------------
(* add_transaction *)

\* POST /transactions and the LLM tool add_transaction: one booking by hand.
AddByHand(s) ==
  /\ s \in Hands /\ work[s].pc = "idle"
  /\ \E a \in accounts, k \in Keys :
       work' = [work EXCEPT ![s] =
                  [NoSession EXCEPT !.pc = "look", !.acc = a, !.todo = <<k>>]]
  /\ UNCHANGED <<accounts, opening, booked, posted, history>>

\* Fault: the first duplicate ends the import of the bookings.
LookForFirstDuplicate(s) ==
  /\ work[s].pc = "look" /\ work[s].todo # <<>>
  /\ LET w == work[s]
     IN  work' = [work EXCEPT ![s] =
           IF Head(w.todo) \in Visible(s)
           THEN [w EXCEPT !.todo = <<>>]
           ELSE [w EXCEPT !.pc = "insert"]]
  /\ UNCHANGED <<accounts, opening, booked, posted, history>>

\* The duplicate check: a visible import_hash raises ValueError.  An import
\* goes on with the next booking, a booking by hand is refused.
LookForDuplicate(s) ==
  /\ work[s].pc = "look" /\ work[s].todo # <<>>
  /\ LET w == work[s]
     IN  work' = [work EXCEPT ![s] =
           IF Head(w.todo) \in Visible(s)
           THEN [w EXCEPT !.todo = Tail(w.todo)]
           ELSE [w EXCEPT !.pc = "insert"]]
  /\ UNCHANGED <<accounts, opening, booked, posted, history>>

\* The INSERT: it waits for another session with the same import_hash; when that
\* one has committed, the unique index fails the whole session.
Insert(s) ==
  /\ work[s].pc = "insert"
  /\ LET w == work[s]
         k == Head(w.todo)
     IN  /\ KeyIsFree(s, k)
         /\ work' = [work EXCEPT ![s] =
              IF k \in booked[w.acc]
              THEN Ended
              ELSE [w EXCEPT !.new = w.new \cup {k}, !.todo = Tail(w.todo),
                             !.pc = "look"]]
  /\ UNCHANGED <<accounts, opening, booked, posted, history>>

-----------------------------------------------------------------------------
(* The balance, and the end of a session *)

\* initial_balance is the bank's balance less the sum of the visible bookings.
\* SQLAlchemy flushes it only if it differs from the value it loaded.
SumUp(s) ==
  /\ work[s].pc = "look" /\ work[s].todo = <<>>
  /\ LET w     == work[s]
         first == Balance[w.at] - Total[Visible(s)]
     IN  work' = [work EXCEPT ![s] =
           IF w.at = None \/ first = w.loaded
           THEN [w EXCEPT !.pc = "commit"]
           ELSE [w EXCEPT !.opening = first, !.pc = "flush"]]
  /\ UNCHANGED <<accounts, opening, booked, posted, history>>

\* The UPDATE waits while another transaction holds the account's row.
FlushOpening(s) ==
  /\ work[s].pc = "flush"
  /\ \A t \in Sessions \ {s} : ~HoldsAccount(t, work[s].acc)
  /\ work' = [work EXCEPT ![s].pc = "commit"]
  /\ UNCHANGED <<accounts, opening, booked, posted, history>>

\* What the ledger should show once s has committed.
Shown(s) ==
  LET w == work[s]
  IN  IF w.at # None THEN Balance[w.at] + w.late
      ELSE IF known[w.acc] = Unknown THEN Unknown ELSE known[w.acc] + Total[w.new]

\* s computed the initial_balance it had loaded and sends no UPDATE, but another
\* session has replaced that value since.
SendsNothing(s) ==
  work[s].opening = Keep /\ opening[work[s].acc] # work[s].loaded

\* The other sessions once s has committed: those on the same account that have
\* the sum already miss the bookings of s.
Outdated(s) ==
  [t \in Sessions |->
     IF t = s THEN Ended
     ELSE IF work[t].acc = work[s].acc /\ work[t].pc \in {"flush", "commit"}
     THEN [work[t] EXCEPT !.late = @ + Total[work[s].new]]
     ELSE work[t]]

\* The session commits.
Commit(s) ==
  LET w == work[s]
  IN  /\ w.pc = "commit"
      /\ IF w.acc = NoAccount
         THEN /\ work' = [work EXCEPT ![s] = Ended]
              /\ UNCHANGED <<accounts, opening, booked, known, asOf, unsent>>
         ELSE /\ work' = Outdated(s)
              /\ accounts' = accounts \cup {w.acc}
              /\ opening' = IF w.opening = Keep THEN opening
                            ELSE [opening EXCEPT ![w.acc] = w.opening]
              /\ booked' = [booked EXCEPT ![w.acc] = @ \cup w.new]
              /\ known' = [known EXCEPT ![w.acc] = Shown(s)]
              /\ asOf' = IF w.at = None THEN asOf
                         ELSE [asOf EXCEPT ![w.acc] = w.at]
              /\ unsent' = IF w.at = None THEN unsent
                           ELSE IF SendsNothing(s) THEN unsent \cup {w.acc}
                           ELSE unsent \ {w.acc}
      /\ UNCHANGED <<posted, overlapped>>

\* The session is lost at any await: a crash, a lost connection, a deploy.
Fail(s) ==
  /\ work[s].pc \notin {"idle", "done"}
  /\ work' = [work EXCEPT ![s] = Ended]
  /\ UNCHANGED <<accounts, opening, booked, posted, history>>

\* The bank posts the next booking.
Post ==
  /\ posted < Len(List)
  /\ posted' = posted + 1
  /\ UNCHANGED <<accounts, opening, booked, work, history>>

Step(s) ==
  \/ LockConnection(s)
  \/ FetchAccounts(s)
  \/ FindAccount(s)
  \/ CreateAccount(s)
  \/ FetchBookings(s)
  \/ LookForDuplicate(s)
  \/ Insert(s)
  \/ SumUp(s)
  \/ FlushOpening(s)
  \/ Commit(s)

Next ==
  \/ \E s \in Sessions : BeginImport(s) \/ AddByHand(s) \/ Step(s) \/ Fail(s)
  \/ Post

Spec == Init /\ [][Next]_vars

-----------------------------------------------------------------------------
(* Properties *)

\* Two sessions can pass the duplicate check with the same booking: the index on
\* import_hash still lets only one of them have it.
NoBookingTwice ==
  \A s \in Sessions :
    work[s].new # {} =>
      /\ work[s].new \cap booked[work[s].acc] = {}
      /\ \A t \in Sessions \ {s} :
           work[t].acc = work[s].acc => work[s].new \cap work[t].new = {}

\* An IBAN has one account, and so each of its bookings is kept once, unless two
\* imports both found none and each made one.
OneAccountPerIban ==
  ~overlapped => \A a, b \in accounts : a = b

\* initial_balance and the sum of the bookings are the balance the bank reported to
\* the last import and what was booked after it.
ShowsBalance(a) ==
  known[a] # Unknown => opening[a] + Total[booked[a]] = known[a]

\* The balance the app shows is the bank's, whichever imports and bookings by hand
\* overlap, but for one lost update: the last import there found the initial_balance
\* it had loaded right and so sent no UPDATE, after another session had replaced it.
LedgerMatchesBank ==
  \A a \in accounts \ unsent : ShowsBalance(a)

\* An import that commits has stored every booking the bank has returned to it,
\* whoever else was booking meanwhile.
FetchedIsBooked ==
  [][\A s \in Imports :
       Commit(s) /\ work[s].acc # NoAccount =>
         work[s].got \subseteq booked'[work[s].acc]]_vars

\* Syncs ask for the balance under the lock of the connection: they never replace
\* it by an older one, as long as no session without that lock has begun.
BalanceNeverOlder ==
  [][\A s \in Imports \ Links, a \in Accounts :
       Commit(s) /\ (\A t \in Lockless : work[t].pc = "idle") =>
         asOf'[a] >= asOf[a]]_vars

\* The sessions s has to wait for.
Blocks(t, s) ==
  \/ /\ work[s].pc \in {"lock", "lock only"} /\ s \notin Lockless
     /\ t \in Imports /\ HoldsConnection(t)
  \/ /\ work[s].pc = "insert" /\ work[t].acc = work[s].acc
     /\ Head(work[s].todo) \in work[t].new
  \/ work[s].pc = "flush" /\ HoldsAccount(t, work[s].acc)

\* Sessions never wait for each other in a circle, for the connection, for a booking of
\* the other or for the account: every import inserts in the order of the bank.
NoCircularWait ==
  \A waiting \in (SUBSET Sessions) \ {{}} :
    \E s \in waiting : \A t \in waiting \ {s} : ~Blocks(t, s)
=============================================================================
