--------------------------- MODULE Classification ---------------------------
(***************************************************************************)
(* How the bookings of a household get their category: chosen by hand, by  *)
(* a rule, by a rule learned from what was chosen by hand, or as a         *)
(* transfer between the household's own accounts                           *)
(* (classification/service.py and its callers), as PostgreSQL transactions *)
(* that overlap.                                                           *)
(*                                                                         *)
(* A session sees what is committed and its own writes.  It loads a row    *)
(* once and keeps it (SQLAlchemy's identity map).  A flush locks the rows  *)
(* it updates until the end, and the UPDATE sets only the columns that     *)
(* differ from what was loaded; every query flushes first.                 *)
(***************************************************************************)
EXTENDS Naturals, FiniteSets

CONSTANTS
  N,           \* bookings 1..N, by transaction_date
  Categories,  \* categories a user or a rule may choose
  Transfer,    \* "Internal Transfer"
  DepotTransfer, \* "Depot Transfer"
  LabelLimit,  \* _LABEL_LIMIT
  Phrases,     \* values of rules
  Text,        \* the phrases each booking's text contains
  Lesson,      \* rule_value_from_transaction of each booking
  Builtin,     \* the category BUILTIN_RULES give each booking
  OwnIban,     \* bookings that mention another linked account
  SourceIban,  \* bookings that mention the account they are on
  SameHolder,  \* of each booking, those whose holder's name is in its own: both name a
               \* holder after an IBAN
  DepotIban,   \* bookings that mention the account that is, or may become, the depot
  Priorities,  \* bound: priorities of rules made by hand
  Sessions,    \* bound: database sessions
  None

Bookings == 1..N
Learned == 50  \* the default priority, which learned rules get

ASSUME ClassificationAssumption ==
  /\ N \in Nat
  /\ LabelLimit \in Nat
  /\ None \notin Categories \cup {Transfer, DepotTransfer} \cup Phrases
  /\ \A c \in Categories \cup {Transfer, DepotTransfer, None}, m, x \in BOOLEAN :
       None # [category |-> c, manual |-> m, exclude |-> x]
  /\ Text \in [Bookings -> SUBSET Phrases]
  /\ Lesson \in [Bookings -> Phrases \cup {None}]
  /\ \A b \in Bookings : Lesson[b] \in Text[b] \cup {None}
  /\ Builtin \in [Bookings -> Categories \cup {None}]
  /\ OwnIban \cup SourceIban \cup DepotIban \subseteq Bookings
  /\ SameHolder \in [Bookings -> SUBSET Bookings]
  /\ Learned \in Priorities /\ Priorities \subseteq Nat

VARIABLES
  rows,     \* committed transactions
  rules,    \* committed classification_rules
  depot,    \* the depot account: not there, an account, marked as depot
  work,     \* sessions
  \* history
  choice,   \* the category last chosen by hand, committed
  raced,    \* bookings whose category another session had loaded when it changed
  settled,  \* a reclassification has seen all there is, but for bookings added since
  swept     \* the bookings the last reclassification has seen

vars == <<rows, rules, depot, work, choice, raced, settled, swept>>

-----------------------------------------------------------------------------
(* Values *)

Values == Categories \cup {Transfer, DepotTransfer, None}

Row == [category : Values, manual : BOOLEAN, exclude : BOOLEAN]

\* A rule learned from a booking has its category, also that of a transfer which a
\* session that had loaded the booking before wrote over the choice.
Rule == [value : Phrases, category : Values \ {None}, priority : Priorities]

Accounts == {"none", "own", "depot"}

Places == {"idle", "label", "teach", "exclude", "classify new", "load", "load rows", "learn",
           "classify", "commit", "done"}

Session ==
  [ pc       : Places,
    op       : {"none", "set", "label", "exclude", "add", "import", "rule", "depot", "reclassify"},
    pick     : SUBSET Bookings,                \* the bookings it is about
    category : Categories \cup {None},         \* the category chosen by hand
    hint     : Phrases \cup {None},            \* the search of label_transactions
    seen     : [Bookings -> Row \cup {None}],  \* rows as the database had them
    row      : [Bookings -> Row \cup {None}],  \* rows in the identity map
    locked   : SUBSET Bookings,                \* flushed, not committed
    todo     : SUBSET Bookings,                \* still to classify
    account  : Accounts,                       \* the depot account it has loaded
    moved    : BOOLEAN,                        \* it has written the account
    new      : SUBSET Rule,                    \* rules it has inserted
    alone    : BOOLEAN ]                       \* history: no other session has run beside it

NoRows == [b \in Bookings |-> None]

NoWork ==
  [ pc |-> "idle", op |-> "none", pick |-> {}, category |-> None, hint |-> None,
    seen |-> NoRows, row |-> NoRows, locked |-> {}, todo |-> {}, account |-> "none",
    moved |-> FALSE, new |-> {}, alone |-> FALSE ]

TypeOK ==
  /\ rows \in [Bookings -> Row \cup {None}]
  /\ rules \subseteq Rule
  /\ depot \in Accounts
  /\ work \in [Sessions -> Session]
  /\ choice \in [Bookings -> Categories \cup {None}]
  /\ raced \subseteq Bookings
  /\ settled \in BOOLEAN
  /\ swept \subseteq Bookings

\* Rows from before there were rules: classified by hand or not at all.
Init ==
  /\ rows \in [Bookings -> {None, [category |-> None, manual |-> FALSE, exclude |-> FALSE]}
                 \cup [category : Categories, manual : {TRUE}, exclude : {FALSE}]]
  /\ rules = {}
  /\ depot \in {"none", "own"}
  /\ work = [s \in Sessions |-> NoWork]
  /\ choice = [b \in Bookings |-> IF rows[b] = None THEN None ELSE rows[b].category]
  /\ raced = {}
  /\ settled = FALSE
  /\ swept = {}

-----------------------------------------------------------------------------
(* Sessions *)

InFlight(s) == work[s].pc \notin {"idle", "done"}
Others(s) == {t \in Sessions \ {s} : InFlight(t)}

Committed == <<rows, rules, depot>>
History == <<choice, raced, settled, swept>>

Loaded(b) == [NoRows EXCEPT ![b] = rows[b]]

\* The bookings there are, in the database or in a session.
Present(row) == {b \in Bookings : row[b] # None}

\* s begins with the fields of w, after its first reads.
Begin(s, w) ==
  /\ work[s].pc = "idle"
  /\ work' = [t \in Sessions |->
       IF t = s THEN [w EXCEPT !.alone = Others(s) = {}]
       ELSE [work[t] EXCEPT !.alone = FALSE]]
  /\ UNCHANGED <<Committed, History>>

Goes(s, w) ==
  /\ work' = [work EXCEPT ![s] = w]
  /\ UNCHANGED <<Committed, History>>

\* Rows changed in the session and not yet sent.
Dirty(w) == {b \in Bookings : w.row[b] # w.seen[b]} \ w.locked

\* A flush waits for the rows others have updated.
CanFlush(s) == \A t \in Others(s) : Dirty(work[s]) \cap work[t].locked = {}

\* The session after a flush.
Flushed(w) == [w EXCEPT !.locked = @ \cup Dirty(w)]

\* What a query for rules returns.
VisibleRulesUnflushed(s) == rules
VisibleRules(s) == rules \cup work[s].new

-----------------------------------------------------------------------------
(* classify_transaction *)

\* The booking mentions another account of the household; the depot account counts
\* once it is known.
MentionsOwn(b, account) == b \in OwnIban \/ (b \in DepotIban /\ account # "none")

\* collect_own_holder_names: the bookings of `from` whose holder is the household's.
NameHolders(from, account) == {a \in from : a \in SourceIban \/ MentionsOwn(a, account)}

\* is_internal_transfer: by account, or by the names of holders collected from the
\* bookings `from`; a caller that passes no names collects them from none.
IsInternal(b, account, from) ==
  MentionsOwn(b, account) \/ NameHolders(from, account) \cap SameHolder[b] # {}

IsDepotLeg(b, account) == b \in DepotIban /\ account = "depot"

Matches(b, r) == r.value \in Text[b]

\* The category of a booking: any, if rules of one priority disagree.
Outcomes(b, account, known, from) ==
  LET fits  == {r \in known : Matches(b, r)}
      first == {r \in fits : \A q \in fits : r.priority <= q.priority}
  IN  IF IsInternal(b, account, from)
      THEN {IF IsDepotLeg(b, account) THEN DepotTransfer ELSE Transfer}
      ELSE IF fits # {} THEN {r.category : r \in first} ELSE {Builtin[b]}

-----------------------------------------------------------------------------
(* Choices by hand *)

\* api_set_transaction_category, set_transaction_category
SetCategory(s, b, c) ==
  /\ rows[b] # None
  /\ Begin(s, [NoWork EXCEPT !.pc = "label", !.op = "set", !.pick = {b}, !.category = c,
                             !.seen = Loaded(b), !.row = Loaded(b)])

\* label_transactions: by ids, by a search, or both, up to a limit
LabelTransactions(s, B, c, h) ==
  /\ B # {} \/ h # None
  /\ Cardinality(B) <= LabelLimit
  /\ \A b \in B : rows[b] # None
  /\ Begin(s, [NoWork EXCEPT !.pc = "label", !.op = "label", !.pick = B, !.category = c,
                             !.hint = h, !.seen = rows, !.row = rows])

\* The flush of the choice.
Label(s) ==
  LET w == [work[s] EXCEPT !.row = [b \in Bookings |->
              IF b \in work[s].pick
              THEN [@[b] EXCEPT !.category = work[s].category, !.manual = TRUE]
              ELSE @[b]]]
  IN  /\ work[s].pc = "label"
      /\ \A t \in Others(s) : Dirty(w) \cap work[t].locked = {}
      /\ Goes(s, [Flushed(w) EXCEPT !.pc = IF w.op = "label" THEN "teach" ELSE "load"])

\* learn_classification_rule: from the search, else from the newest booking, unless
\* there is a rule of that value or one that already gives this category.
Teach(s) ==
  LET w      == work[s]
      newest == CHOOSE b \in w.pick : \A a \in w.pick : a <= b
      value  == IF w.hint # None THEN w.hint ELSE Lesson[newest]
      knows  == \E r \in VisibleRules(s) :
                  \/ r.value = value
                  \/ w.pick # {} /\ r.category = w.category /\ Matches(newest, r)
  IN  /\ w.pc = "teach"
      /\ Goes(s, [w EXCEPT !.pc = "load", !.new = IF value = None \/ knows THEN @
           ELSE @ \cup {[value |-> value, category |-> w.category, priority |-> Learned]}])

\* api_set_transaction_exclude, set_transaction_exclude
SetExclude(s, b, x) ==
  /\ rows[b] # None
  /\ Begin(s, [NoWork EXCEPT !.pc = "exclude", !.op = "exclude", !.pick = {b},
                             !.seen = Loaded(b), !.row = [Loaded(b) EXCEPT ![b].exclude = x]])

\* The flush of the flag.
Exclude(s) ==
  /\ work[s].pc = "exclude"
  /\ CanFlush(s)
  /\ Goes(s, [Flushed(work[s]) EXCEPT !.pc = "commit"])

\* create_classification_rule
CreateRule(s, r) ==
  /\ r.category \in Categories
  /\ Begin(s, [NoWork EXCEPT !.pc = "commit", !.op = "rule", !.new = {r}])

-----------------------------------------------------------------------------
(* New bookings and accounts *)

\* Fault: the flag is the category.
AddTransactionFlagged(s, b, c, op) ==
  LET row == [category |-> c, manual |-> c, exclude |-> FALSE]
  IN  /\ rows[b] = None /\ \A t \in Others(s) : work[t].row[b] = None
      /\ op = "import" => c = None
      /\ Begin(s, [NoWork EXCEPT !.pc = "classify new", !.op = op, !.pick = {b}, !.category = c,
                     !.row = [NoRows EXCEPT ![b] = row], !.locked = {b}])

\* add_transaction: with a category it counts as chosen by hand.
AddTransaction(s, b, c, op) ==
  LET row == [category |-> c, manual |-> c # None, exclude |-> FALSE]
  IN  /\ rows[b] = None /\ \A t \in Others(s) : work[t].row[b] = None
      /\ op = "import" => c = None
      /\ Begin(s, [NoWork EXCEPT !.pc = "classify new", !.op = op, !.pick = {b}, !.category = c,
                     !.row = [NoRows EXCEPT ![b] = row], !.locked = {b}])

\* A booking without a category is classified, without the names of holders; an import
\* goes on with all the others.
ClassifyNew(s) ==
  LET w == work[s]
  IN  /\ w.pc = "classify new"
      /\ \E b \in w.pick :
           \E c \in IF w.category = None THEN Outcomes(b, depot, VisibleRules(s), {})
                  ELSE {w.category} :
             Goes(s, [w EXCEPT !.row[b].category = c,
                               !.pc = IF w.op = "import" THEN "load" ELSE "commit"])

\* api_register_depot, api_set_account_depot.  The flush waits for another one, unless
\* nothing changes.
SetDepot(s, a) ==
  /\ a = "own" => depot # "none"
  /\ a # depot => \A t \in Others(s) : ~work[t].moved
  /\ Begin(s, [NoWork EXCEPT !.pc = "load", !.op = "depot", !.account = a, !.moved = a # depot])

-----------------------------------------------------------------------------
(* reclassify_user_transactions *)

\* api_reclassify_transactions, reclassify_transactions, reclassify_all_users
Reclassify(s) == Begin(s, [NoWork EXCEPT !.pc = "load", !.op = "reclassify"])

\* _own_ibans
Load(s) ==
  /\ work[s].pc = "load"
  /\ Goes(s, [work[s] EXCEPT !.account = IF work[s].op = "depot" THEN @ ELSE depot,
                             !.pc = "load rows"])

\* All bookings; those the session has loaded before stay as they were.
LoadRows(s) ==
  LET w == work[s]
      fresh == {b \in Bookings : w.row[b] = None}
  IN  /\ w.pc = "load rows"
      /\ Goes(s, [w EXCEPT !.seen = [b \in Bookings |-> IF b \in fresh THEN rows[b] ELSE @[b]],
                           !.row = [b \in Bookings |-> IF b \in fresh THEN rows[b] ELSE @[b]],
                           !.pc = "learn"])

\* Fault: the oldest choice comes first.
LessonsOldest(w, known) ==
  LET teaches(b, have) ==
        /\ w.row[b] # None /\ w.row[b].manual /\ w.row[b].category # None
        /\ Lesson[b] # None
        /\ \A r \in have : r.value # Lesson[b] /\ ~(r.category = w.row[b].category /\ Matches(b, r))
      rule(b) == [value |-> Lesson[b], category |-> w.row[b].category, priority |-> Learned]
      after[k \in 0..N] ==
        IF k = 0 THEN known
        ELSE LET have == after[k - 1]
             IN  IF teaches(k, have) THEN have \cup {rule(k)} ELSE have
  IN  after[N]

\* learn_from_manual_transactions: the newest choice first, each unless there is a
\* rule of that value or one that gives this booking its category.
Lessons(w, known) ==
  LET teaches(b, have) ==
        /\ w.row[b] # None /\ w.row[b].manual /\ w.row[b].category # None
        /\ Lesson[b] # None
        /\ \A r \in have : r.value # Lesson[b] /\ ~(r.category = w.row[b].category /\ Matches(b, r))
      rule(b) == [value |-> Lesson[b], category |-> w.row[b].category, priority |-> Learned]
      after[k \in 0..N] ==
        IF k = 0 THEN known
        ELSE LET have == after[k - 1]
                 b    == N + 1 - k
             IN  IF teaches(b, have) THEN have \cup {rule(b)} ELSE have
  IN  after[N]

Learn(s) ==
  LET w == work[s]
  IN  /\ w.pc = "learn"
      /\ Goes(s, [w EXCEPT
           !.new = @ \cup (Lessons(w, VisibleRules(s)) \ VisibleRules(s)),
           !.todo = {b \in Bookings : w.row[b] # None /\ ~w.row[b].manual},
           !.pc = "classify"])

\* Fault: whatever got a category counts again.
ReclassifiedAnyCounts(row, b, c, account, from) ==
  [row EXCEPT !.category = IF c = None THEN @ ELSE c, !.exclude = @ /\ c = None]

\* Without a match the old category stays; an internal transfer is no longer
\* excluded.
Reclassified(row, b, c, account, from) ==
  [row EXCEPT !.category = IF c = None THEN @ ELSE c,
              !.exclude = @ /\ ~IsInternal(b, account, from)]

\* One booking.  The query for rules, which transfers do without, flushes the ones
\* before it.
Classify(s, b) ==
  LET w == work[s]
      queries == ~IsInternal(b, w.account, Present(w.row))
  IN  /\ w.pc = "classify" /\ b \in w.todo
      /\ queries => CanFlush(s)
      /\ \E c \in Outcomes(b, w.account, VisibleRules(s), Present(w.row)) :
           Goes(s, [(IF queries THEN Flushed(w) ELSE w) EXCEPT
             !.row[b] = Reclassified(@, b, c, w.account, Present(w.row)), !.todo = @ \ {b}])

\* The last flush.
Finish(s) ==
  /\ work[s].pc = "classify" /\ work[s].todo = {}
  /\ CanFlush(s)
  /\ Goes(s, [Flushed(work[s]) EXCEPT !.pc = "commit"])

-----------------------------------------------------------------------------
(* The end *)

\* Fault: an UPDATE always sets the category.
WrittenAnyway(w, b) ==
  IF b \notin w.locked THEN rows[b]
  ELSE IF w.seen[b] = None THEN w.row[b]
  ELSE [f \in DOMAIN rows[b] |->
          IF f = "category" \/ w.row[b][f] # w.seen[b][f] THEN w.row[b][f] ELSE rows[b][f]]

\* The row after the session's INSERT or UPDATE.
Written(w, b) ==
  IF b \notin w.locked THEN rows[b]
  ELSE IF w.seen[b] = None THEN w.row[b]
  ELSE [f \in DOMAIN rows[b] |->
          IF w.row[b][f] # w.seen[b][f] THEN w.row[b][f] ELSE rows[b][f]]

Chooses(w) == w.op \in {"set", "label"} \/ (w.op = "add" /\ w.category # None)

Sweeps(w) == w.op \in {"set", "label", "import", "depot", "reclassify"}

Commit(s) ==
  LET w == work[s]
      after == [b \in Bookings |-> Written(w, b)]
  IN  /\ w.pc = "commit"
      /\ rows' = after
      /\ rules' = rules \cup w.new
      /\ depot' = IF w.moved THEN w.account ELSE depot
      /\ work' = [work EXCEPT ![s] = [NoWork EXCEPT !.pc = "done"]]
      /\ choice' = [b \in Bookings |-> IF Chooses(w) /\ b \in w.pick THEN w.category ELSE choice[b]]
      /\ raced' = raced \cup {b \in Bookings :
           /\ rows[b] # None /\ [after[b] EXCEPT !.exclude = rows[b].exclude] # rows[b]
           /\ \E t \in Others(s) : Sweeps(work[t]) /\ work[t].seen[b] # None}
      /\ settled' = IF Sweeps(w) THEN w.alone
                    ELSE settled /\ (w.op = "exclude" \/ (w.op = "add" /\ w.alone))
      /\ swept' = IF Sweeps(w) THEN Present(w.row) ELSE swept

\* A failed statement, a deadlock PostgreSQL resolves, a lost process.
Fail(s) ==
  /\ InFlight(s)
  /\ Goes(s, [NoWork EXCEPT !.pc = "done"])

Next ==
  \E s \in Sessions :
    \/ \E b \in Bookings :
         \/ \E c \in Categories : SetCategory(s, b, c)
         \/ \E x \in BOOLEAN : SetExclude(s, b, x)
         \/ \E c \in Categories \cup {None}, op \in {"add", "import"} : AddTransaction(s, b, c, op)
         \/ Classify(s, b)
    \/ \E B \in SUBSET Bookings, c \in Categories, h \in Phrases \cup {None} :
         LabelTransactions(s, B, c, h)
    \/ \E r \in Rule : CreateRule(s, r)
    \/ \E a \in Accounts \ {"none"} : SetDepot(s, a)
    \/ Reclassify(s)
    \/ Label(s)
    \/ Teach(s)
    \/ Exclude(s)
    \/ ClassifyNew(s)
    \/ Load(s)
    \/ LoadRows(s)
    \/ Learn(s)
    \/ Finish(s)
    \/ Commit(s)
    \/ Fail(s)

Spec == Init /\ [][Next]_vars

-----------------------------------------------------------------------------
(* Properties *)

\* A booking classified by hand has the category that was chosen, whatever is
\* reclassified, excluded or learned, unless a session that had loaded the booking
\* before the choice ran on.
ManualChoiceStays ==
  \A b \in Bookings \ raced :
    rows[b] # None /\ rows[b].manual => rows[b].category = choice[b]

\* After a reclassification that nothing ran beside, every other booking has the
\* category the transfers, the rules and the built-in rules give it now, also the rules
\* the same session learned.  The names of holders count for the bookings the
\* reclassification has seen, and those it has seen give them; a booking added since
\* has what it gets without any name, and gives none.
CategoriesFollowRules ==
  settled => \A b \in Bookings :
    rows[b] # None /\ ~rows[b].manual
    => LET fits == Outcomes(b, depot, rules, IF b \in swept THEN swept ELSE {})
       IN  rows[b].category \in fits \/ fits = {None}

\* Only its user brings an excluded booking back, unless it is an internal transfer, by
\* account or by a holder's name on any booking.
ExcludeStays ==
  [][\A b \in Bookings :
       /\ rows[b] # None /\ rows[b].exclude /\ ~rows'[b].exclude
       /\ ~IsInternal(b, depot', Present(rows'))
       => \E s \in Sessions : work[s].op = "exclude" /\ b \in work[s].pick /\ work'[s].pc = "done"]_vars

\* Of choices that disagree on a phrase, the newest teaches the rule: a newer one is
\* passed over only if a rule already gives its category.  And a session that nothing ran
\* beside never teaches two categories for one phrase, nor one for a phrase with a rule.
NewestTeaches ==
  [][\A s \in Sessions :
       /\ work[s].pc = "learn" /\ work'[s].pc = "classify"
          => LET w == work'[s] IN
             \A r \in w.new \ work[s].new : \E b \in Bookings :
               /\ w.row[b] # None /\ w.row[b].manual
               /\ Lesson[b] = r.value /\ w.row[b].category = r.category
               /\ \A a \in Bookings :
                    a > b /\ w.row[a] # None /\ w.row[a].manual /\ Lesson[a] = r.value
                    => \E q \in VisibleRules(s)' : q.category = w.row[a].category /\ Matches(a, q)
       /\ work[s].pc = "commit" /\ work'[s].pc = "done" /\ work[s].alone /\ work[s].op # "rule"
          => \A r \in rules' \ rules, q \in rules' : q.value = r.value => q = r]_vars
=============================================================================
