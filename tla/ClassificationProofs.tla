------------------------ MODULE ClassificationProofs ------------------------
(***************************************************************************)
(* Theorems about Classification, for any number of bookings, sessions,    *)
(* phrases and categories.                                                 *)
(***************************************************************************)
EXTENDS Classification, NumbersAndSums

-----------------------------------------------------------------------------
(* What each place of a session says of its fields *)

Fresh(w) ==
  /\ w.op = "none" /\ w.seen = NoRows /\ w.row = NoRows /\ w.locked = {} /\ w.todo = {}
  /\ w.new = {} /\ ~w.moved /\ w.account = "none"

PlaceOK(w) ==
  /\ w.pc \in {"idle", "done"} <=> w.op = "none"
  /\ w.op = "none" => Fresh(w)
  /\ w.pc = "label" => w.op \in {"set", "label"}
  /\ w.pc = "teach" => w.op = "label"
  /\ w.pc = "exclude" => w.op = "exclude"
  /\ w.pc = "classify new" => w.op \in {"add", "import"}
  /\ w.pc \in {"load", "load rows", "learn", "classify"} => Sweeps(w)
  /\ w.op \in {"set", "label"} => w.category \in Categories
  /\ w.op = "label" => w.pick # {} \/ w.hint # None
  /\ w.op = "import" => w.category = None
  /\ w.op \in {"add", "import"} => \E b \in Bookings : w.pick = {b}
  /\ w.op \in {"add", "exclude"} => w.new = {}
  /\ w.moved => w.op = "depot" /\ w.account # "none"
  /\ w.todo # {} => w.pc = "classify"
  /\ w.pc \in {"label", "teach", "classify new", "load"} /\ w.op # "depot" => w.account = "none"

\* It has inserted the booking and not committed it.
Inserts(w, b) == w.row[b] # None /\ w.seen[b] = None

\* It has flushed its choice for the booking.
Labelled(w, b) == w.op \in {"set", "label"} /\ w.pc # "label" /\ b \in w.pick

\* What it has made of a row it has loaded.
ChangeOK(w, b) ==
  /\ w.row[b].category = None => w.seen[b].category = None
  /\ Labelled(w, b) => w.row[b].manual /\ w.row[b].category = w.category
  /\ ~Labelled(w, b) => /\ w.row[b].manual = w.seen[b].manual
                        /\ w.row[b].manual => w.row[b].category = w.seen[b].category
  /\ w.op = "exclude" => b \in w.pick /\ w.row[b].category = w.seen[b].category
  /\ w.op # "exclude" =>
       \/ w.row[b].exclude = w.seen[b].exclude
       \/ IsInternal(b, w.account, Present(w.row))
  /\ w.pc = "label" => w.row[b] = w.seen[b]
  /\ w.pc = "commit" => b \in w.locked \/ w.row[b] = w.seen[b]

InsertOK(w, b) ==
  /\ w.op \in {"add", "import"} /\ b \in w.pick /\ b \in w.locked
  /\ w.row[b].manual <=> w.op = "add" /\ w.category # None
  /\ w.row[b].manual => w.row[b].category = w.category

RowOK(w, b) ==
  /\ w.seen[b] # None => w.row[b] # None /\ ChangeOK(w, b)
  /\ Inserts(w, b) => InsertOK(w, b)
  /\ b \in w.locked => w.row[b] # None
  /\ w.row[b] # None /\ w.row[b].manual => w.row[b].category # None
  /\ b \in w.todo => w.row[b] # None /\ ~w.row[b].manual
  /\ w.op \in {"set", "label"} /\ b \in w.pick => w.seen[b] # None
  /\ w.op \in {"add", "rule"} => w.seen[b] = None
  /\ w.op \in {"add", "import"} /\ b \in w.pick => Inserts(w, b)

\* Each session is where its fields say, and has loaded only rows that are there.
TypeInv ==
  /\ TypeOK
  /\ \A s \in Sessions : PlaceOK(work[s])
  /\ \A s \in Sessions, b \in Bookings :
       RowOK(work[s], b) /\ (work[s].seen[b] # None => rows[b] # None)

\* A category is never taken away, and a booking chosen by hand has one.
CategoryInv ==
  /\ \A b \in Bookings : rows[b] # None /\ rows[b].manual => rows[b].category # None
  /\ \A s \in Sessions, b \in Bookings :
       work[s].seen[b] # None /\ rows[b].category = None => work[s].seen[b].category = None

\* What a session that classifies has loaded is what is committed, unless it was
\* overtaken.
SeenInv ==
  \A s \in Sessions, b \in Bookings \ raced :
    Sweeps(work[s]) /\ work[s].seen[b] # None =>
      /\ work[s].seen[b].category = rows[b].category
      /\ work[s].seen[b].manual = rows[b].manual

\* A booking is inserted once.
InsertInv ==
  \A s \in Sessions, b \in Bookings : Inserts(work[s], b) =>
    /\ rows[b] = None
    /\ \A t \in Sessions \ {s} : work[t].row[b] = None

\* The depot account does not go away.
AccountInv ==
  \A s \in Sessions : work[s].account # "none" => depot # "none" \/ work[s].moved

\* What the last reclassification has seen is there.
SweptInv == swept \subseteq Present(rows)

\* The category a rule, a transfer or a built-in rule gives, or none of them.
Fits(c, b, account, known, from) ==
  c \in Outcomes(b, account, known, from) \/ Outcomes(b, account, known, from) = {None}

AloneOK(w) ==
  /\ \A b \in Bookings : w.seen[b] # None => rows[b] = w.seen[b]
  /\ Sweeps(w) /\ w.pc \in {"learn", "classify", "commit"} =>
       \A b \in Bookings : rows[b] # None => w.row[b] # None
  /\ Sweeps(w) /\ w.pc \in {"load rows", "learn", "classify", "commit"} /\ ~w.moved =>
       w.account = depot
  /\ w.op = "depot" /\ w.pc = "load" /\ ~w.moved => w.account = depot
  /\ Sweeps(w) /\ w.pc \in {"classify", "commit"} =>
       \A b \in Bookings \ w.todo : w.row[b] # None /\ ~w.row[b].manual =>
         Fits(w.row[b].category, b, w.account, rules \cup w.new, Present(w.row))
  /\ w.op = "add" /\ w.pc = "commit" =>
       \A b \in w.pick : ~w.row[b].manual => Fits(w.row[b].category, b, depot, rules, {})
  /\ w.op # "rule" =>
       \A r \in w.new, q \in rules \cup w.new : q.value = r.value => q = r

AloneInv ==
  \A s \in Sessions : work[s].alone /\ InFlight(s) => Others(s) = {} /\ AloneOK(work[s])

-----------------------------------------------------------------------------
(* Rows and rules *)

LEMMA RowShape ==
  ASSUME NEW x \in Row
  PROVE  /\ x # None
         /\ x.category \in Values /\ x.manual \in BOOLEAN /\ x.exclude \in BOOLEAN
<1>1. x = [category |-> x.category, manual |-> x.manual, exclude |-> x.exclude]
  BY DEF Row
<1>2. x.category \in Values /\ x.manual \in BOOLEAN /\ x.exclude \in BOOLEAN
  BY DEF Row
<1>3. QED
  BY <1>1, <1>2, ClassificationAssumption DEF Values

LEMMA OutcomeShape ==
  ASSUME NEW b \in Bookings, NEW account, NEW known \in SUBSET Rule, NEW from
  PROVE  LET fits == Outcomes(b, account, known, from)
         IN  fits \subseteq Values /\ (None \in fits => fits = {None})
<1>1. Transfer # None /\ DepotTransfer # None /\ Builtin[b] \in Categories \cup {None}
  BY ClassificationAssumption
<1>2. \A r \in known : r.category \in Values /\ r.category # None
  BY DEF Rule, Values
<1>3. QED
  BY <1>1, <1>2 DEF Outcomes, Values

\* An internal transfer stays one as accounts and bookings get known.
LEMMA InternalGrows ==
  ASSUME NEW b, NEW old, NEW account, old # "none" => account # "none",
         NEW from, NEW to, from \subseteq to, IsInternal(b, old, from)
  PROVE  IsInternal(b, account, to)
<1>1. \A a : MentionsOwn(a, old) => MentionsOwn(a, account)
  BY DEF MentionsOwn
<1>2. NameHolders(from, old) \subseteq NameHolders(to, account)
  BY <1>1 DEF NameHolders
<1>3. QED
  BY <1>1, <1>2 DEF IsInternal

\* A category that a booking gets, or keeps as none is found, fits it.
LEMMA ReclassifiedFits ==
  ASSUME NEW b \in Bookings, NEW account, NEW known \in SUBSET Rule, NEW x \in Row,
         NEW from, NEW c \in Outcomes(b, account, known, from)
  PROVE  LET y == Reclassified(x, b, c, account, from)
         IN  /\ y \in Row
             /\ y.manual = x.manual
             /\ y.category = None => x.category = None
             /\ y.exclude = x.exclude \/ IsInternal(b, account, from)
             /\ Fits(y.category, b, account, known, from)
<1>1. c \in Values
  BY OutcomeShape
<1>2. c = None => Outcomes(b, account, known, from) = {None}
  BY OutcomeShape
<1>3. x.category \in Values /\ x.manual \in BOOLEAN /\ x.exclude \in BOOLEAN
  BY RowShape
<1> DEFINE y == Reclassified(x, b, c, account, from)
<1>4. y = [x EXCEPT !.category = IF c = None THEN @ ELSE c, !.exclude = @ /\ ~IsInternal(b, account, from)]
  BY DEF Reclassified
<1>5. (x.exclude /\ ~IsInternal(b, account, from)) \in BOOLEAN
  OBVIOUS
<1>6. /\ y.category = IF c = None THEN x.category ELSE c
      /\ y.manual = x.manual
      /\ y.exclude = (x.exclude /\ ~IsInternal(b, account, from))
  BY <1>4 DEF Row
<1>7. y \in Row
  BY <1>1, <1>3, <1>4, <1>5 DEF Row
<1> HIDE DEF y
<1>8. Fits(y.category, b, account, known, from)
  BY <1>2, <1>6 DEF Fits
<1>9. y.exclude = x.exclude \/ IsInternal(b, account, from)
  BY <1>3, <1>6
<1>10. QED
  BY <1>6, <1>7, <1>8, <1>9 DEF y

-----------------------------------------------------------------------------
(* What learn_from_manual_transactions learns *)

Teaches(w, b, have) ==
  /\ w.row[b] # None /\ w.row[b].manual /\ w.row[b].category # None
  /\ Lesson[b] # None
  /\ \A r \in have : r.value # Lesson[b] /\ ~(r.category = w.row[b].category /\ Matches(b, r))

LessonOf(w, b) == [value |-> Lesson[b], category |-> w.row[b].category, priority |-> Learned]

More(w, b, have) == IF Teaches(w, b, have) THEN have \cup {LessonOf(w, b)} ELSE have

LEMMA LessonsByMore ==
  ASSUME NEW w, NEW known
  PROVE  Lessons(w, known)
         = (CHOOSE g : g = [k \in 0..N |-> IF k = 0 THEN known ELSE More(w, N + 1 - k, g[k - 1])])[N]
  BY DEF Lessons, More, Teaches, LessonOf

\* g holds the rules after each of the newest m bookings.
IsChain(w, known, g, m) ==
  /\ g = [k \in 0..m |-> g[k]]
  /\ g[0] = known
  /\ \A k \in 1..m : g[k] = More(w, N + 1 - k, g[k - 1])

LEMMA ChainExists ==
  ASSUME NEW w, NEW known
  PROVE  \E g : IsChain(w, known, g, N)
<1> N \in Nat
  BY ClassificationAssumption
<1> DEFINE T == {m \in 0..N : \E g : IsChain(w, known, g, m)}
<1>1. 0 \in T
  <2> DEFINE g == [k \in 0..0 |-> known]
  <2>1. IsChain(w, known, g, 0)
    BY DEF IsChain
  <2>2. QED
    BY <2>1
<1>2. ASSUME NEW m \in 0..(N - 1), m \in T PROVE m + 1 \in T
  <2>1. PICK g : IsChain(w, known, g, m)
    BY <1>2
  <2> DEFINE h == [k \in 0..(m + 1) |-> IF k = m + 1 THEN More(w, N + 1 - k, g[m]) ELSE g[k]]
  <2>2. h[0] = known
    BY <2>1 DEF IsChain
  <2>3. ASSUME NEW k \in 1..(m + 1) PROVE h[k] = More(w, N + 1 - k, h[k - 1])
    <3>1. CASE k = m + 1
      BY <3>1
    <3>2. CASE k # m + 1
      <4>1. k \in 1..m /\ k - 1 \in 0..m
        BY <3>2
      <4>2. h[k] = g[k] /\ h[k - 1] = g[k - 1]
        BY <4>1
      <4>3. QED
        BY <2>1, <4>1, <4>2 DEF IsChain
    <3>3. QED
      BY <3>1, <3>2
  <2>4. h = [k \in 0..(m + 1) |-> h[k]]
    OBVIOUS
  <2> HIDE DEF h
  <2>5. IsChain(w, known, h, m + 1)
    BY <2>2, <2>3, <2>4 DEF IsChain
  <2>6. m + 1 \in 0..N
    BY <1>2
  <2>7. QED
    BY <2>5, <2>6
<1> HIDE DEF T
<1>3. 0..N \subseteq T
  BY <1>1, <1>2, UpTo
<1>4. N \in T
  BY <1>3
<1>5. QED
  BY <1>4 DEF T

LEMMA LessonsChain ==
  ASSUME NEW w, NEW known
  PROVE  \E g : IsChain(w, known, g, N) /\ Lessons(w, known) = g[N]
<1> N \in Nat
  BY ClassificationAssumption
<1> DEFINE P(g) == g = [k \in 0..N |-> IF k = 0 THEN known ELSE More(w, N + 1 - k, g[k - 1])]
           c == CHOOSE g : P(g)
<1>1. \E g : P(g)
  <2>1. PICK g : IsChain(w, known, g, N)
    BY ChainExists
  <2>2. \A k \in 0..N : g[k] = IF k = 0 THEN known ELSE More(w, N + 1 - k, g[k - 1])
    BY <2>1 DEF IsChain
  <2>3. g = [k \in 0..N |-> g[k]]
    BY <2>1 DEF IsChain
  <2>4. P(g)
    BY <2>2, <2>3
  <2>5. QED
    BY <2>4
<1>2. P(c)
  <2> HIDE DEF P
  <2>1. QED
    BY <1>1
<1>3. Lessons(w, known) = c[N]
  BY LessonsByMore
<1> HIDE DEF c
<1>4. \A k \in 0..N : c[k] = IF k = 0 THEN known ELSE More(w, N + 1 - k, c[k - 1])
  BY <1>2
<1>5. c = [k \in 0..N |-> c[k]]
  BY <1>2, <1>4
<1>6. IsChain(w, known, c, N)
  <2>1. c[0] = known
    BY <1>4
  <2>2. ASSUME NEW k \in 1..N PROVE c[k] = More(w, N + 1 - k, c[k - 1])
    <3>1. k \in 0..N /\ k # 0
      OBVIOUS
    <3>2. QED
      BY <1>4, <3>1
  <2>3. QED
    BY <1>5, <2>1, <2>2 DEF IsChain
<1>7. QED
  BY <1>3, <1>6

LEMMA ChainGrows ==
  ASSUME NEW w, NEW known, NEW g, IsChain(w, known, g, N), NEW i \in 0..N, NEW j \in 0..N, i <= j
  PROVE  g[i] \subseteq g[j]
<1> N \in Nat
  BY ClassificationAssumption
<1> DEFINE T == {m \in 0..N : i <= m => g[i] \subseteq g[m]}
<1>1. 0 \in T
  OBVIOUS
<1>2. ASSUME NEW m \in 0..(N - 1), m \in T PROVE m + 1 \in T
  <2>1. m + 1 \in 1..N /\ (m + 1) - 1 = m
    OBVIOUS
  <2>2. g[m + 1] = More(w, N + 1 - (m + 1), g[m])
    BY <2>1 DEF IsChain
  <2>3. g[m] \subseteq g[m + 1]
    BY <2>2 DEF More
  <2>4. i <= m + 1 => i <= m \/ i = m + 1
    OBVIOUS
  <2>5. QED
    BY <1>2, <2>1, <2>3, <2>4
<1> HIDE DEF T
<1>3. 0..N \subseteq T
  BY <1>1, <1>2, UpTo
<1>4. QED
  BY <1>3 DEF T

LEMMA ChainTeaches ==
  ASSUME NEW w, NEW known, NEW g, IsChain(w, known, g, N), NEW r \in g[N], r \notin known
  PROVE  \E k \in 1..N :
           /\ Teaches(w, N + 1 - k, g[k - 1]) /\ r = LessonOf(w, N + 1 - k) /\ r \in g[k]
<1> N \in Nat
  BY ClassificationAssumption
<1> DEFINE T == {k \in 0..N : r \in g[k]}
<1>1. T \in SUBSET Nat /\ N \in T
  OBVIOUS
<1> HIDE DEF T
<1>2. PICK k \in T : \A m \in T : k <= m
  BY <1>1, LeastNat
<1>3. k # 0
  BY DEF IsChain, T
<1>4. k \in 1..N /\ k - 1 \in 0..N /\ r \in g[k]
  BY <1>3 DEF T
<1>5. r \notin g[k - 1]
  <2>1. ~(k <= k - 1)
    BY <1>4
  <2>2. k - 1 \notin T
    BY <1>2, <2>1
  <2>3. QED
    BY <1>4, <2>2 DEF T
<1>6. g[k] = More(w, N + 1 - k, g[k - 1])
  BY <1>4 DEF IsChain
<1>7. QED
  BY <1>4, <1>5, <1>6 DEF More

\* What is learned has new values, each from the newest booking that teaches it, and
\* a newer choice is passed over only if a rule gives its category.
LEMMA LessonsLearned ==
  ASSUME NEW w, NEW known,
         \A a \in Bookings : w.row[a] # None /\ w.row[a].manual => w.row[a].category # None
  PROVE  /\ known \subseteq Lessons(w, known)
         /\ \A r \in Lessons(w, known) \ known, q \in Lessons(w, known) : q.value = r.value => q = r
         /\ \A r \in Lessons(w, known) \ known : \E b \in Bookings :
              /\ w.row[b] # None /\ w.row[b].manual /\ w.row[b].category # None
              /\ Lesson[b] # None /\ r = LessonOf(w, b)
              /\ \A a \in Bookings :
                   a > b /\ w.row[a] # None /\ w.row[a].manual /\ Lesson[a] = Lesson[b]
                   => \E q \in Lessons(w, known) : q.category = w.row[a].category /\ Matches(a, q)
<1> N \in Nat
  BY ClassificationAssumption
<1>1. PICK g : IsChain(w, known, g, N) /\ Lessons(w, known) = g[N]
  BY LessonsChain
<1>2. \A i, j \in 0..N : i <= j => g[i] \subseteq g[j]
  BY <1>1, ChainGrows
<1>3. \A r \in g[N] \ known : \E k \in 1..N :
        /\ Teaches(w, N + 1 - k, g[k - 1]) /\ r = LessonOf(w, N + 1 - k) /\ r \in g[k]
  BY <1>1, ChainTeaches
<1>4. g[0] = known
  BY <1>1 DEF IsChain
<1>5. known \subseteq g[N]
  BY <1>2, <1>4
<1>6. ASSUME NEW r \in g[N] \ known, NEW q \in g[N], q.value = r.value PROVE q = r
  <2>1. PICK k \in 1..N : Teaches(w, N + 1 - k, g[k - 1]) /\ r = LessonOf(w, N + 1 - k) /\ r \in g[k]
    BY <1>3
  <2>2. r.value = Lesson[N + 1 - k]
    BY <2>1 DEF LessonOf
  <2>3. q \notin g[k - 1]
    BY <1>6, <2>1, <2>2 DEF Teaches
  <2>4. k - 1 \in 0..N /\ k \in 0..N /\ 0 <= k - 1
    OBVIOUS
  <2>5. q \notin known
    BY <1>2, <1>4, <2>3, <2>4
  <2>6. PICK l \in 1..N : Teaches(w, N + 1 - l, g[l - 1]) /\ q = LessonOf(w, N + 1 - l) /\ q \in g[l]
    BY <1>3, <2>5
  <2>7. q.value = Lesson[N + 1 - l]
    BY <2>6 DEF LessonOf
  <2>8. r \notin g[l - 1]
    BY <1>6, <2>6, <2>7 DEF Teaches
  <2>9. l - 1 \in 0..N /\ l \in 0..N
    OBVIOUS
  <2>10. ~(l <= k - 1)
    BY <1>2, <2>3, <2>4, <2>6, <2>9
  <2>11. ~(k <= l - 1)
    BY <1>2, <2>1, <2>4, <2>8, <2>9
  <2>12. k = l
    BY <2>10, <2>11
  <2>13. QED
    BY <2>1, <2>6, <2>12
<1>7. ASSUME NEW r \in g[N] \ known
      PROVE  \E b \in Bookings :
              /\ w.row[b] # None /\ w.row[b].manual /\ w.row[b].category # None
              /\ Lesson[b] # None /\ r = LessonOf(w, b)
              /\ \A a \in Bookings :
                   a > b /\ w.row[a] # None /\ w.row[a].manual /\ Lesson[a] = Lesson[b]
                   => \E q \in g[N] : q.category = w.row[a].category /\ Matches(a, q)
  <2>1. PICK k \in 1..N : Teaches(w, N + 1 - k, g[k - 1]) /\ r = LessonOf(w, N + 1 - k) /\ r \in g[k]
    BY <1>3
  <2> DEFINE b == N + 1 - k
  <2>2. b \in Bookings /\ k = N + 1 - b
    BY DEF Bookings
  <2>3. /\ w.row[b] # None /\ w.row[b].manual /\ w.row[b].category # None
        /\ Lesson[b] # None /\ r = LessonOf(w, b)
    BY <2>1 DEF Teaches
  <2>4. ASSUME NEW a \in Bookings, a > b, w.row[a] # None, w.row[a].manual, Lesson[a] = Lesson[b]
        PROVE  \E q \in g[N] : q.category = w.row[a].category /\ Matches(a, q)
    <3> DEFINE l == N + 1 - a
    <3>1. /\ l \in 1..N /\ a = N + 1 - l /\ l \in 0..N /\ l - 1 \in 0..N /\ k - 1 \in 0..N
          /\ l <= k - 1 /\ l - 1 <= k - 1 /\ l - 1 <= N
      BY <2>2, <2>4 DEF Bookings
    <3> HIDE DEF l
    <3>2. g[l] = More(w, a, g[l - 1])
      BY <1>1, <3>1 DEF IsChain
    <3>3. g[l] \subseteq g[k - 1] /\ g[l - 1] \subseteq g[k - 1] /\ g[l - 1] \subseteq g[N]
      BY <1>2, <3>1
    <3>4. \A q \in g[k - 1] : q.value # Lesson[b]
      BY <2>1 DEF Teaches
    <3>5. ~Teaches(w, a, g[l - 1])
      <4> SUFFICES ASSUME Teaches(w, a, g[l - 1]) PROVE FALSE
        OBVIOUS
      <4>1. LessonOf(w, a) \in g[l]
        BY <3>2 DEF More
      <4>2. LessonOf(w, a).value = Lesson[b]
        BY <2>4 DEF LessonOf
      <4>3. QED
        BY <3>3, <3>4, <4>1, <4>2
    <3>6. w.row[a].category # None /\ Lesson[a] # None
      BY <2>3, <2>4
    <3>7. PICK q \in g[l - 1] : q.value = Lesson[a] \/ (q.category = w.row[a].category /\ Matches(a, q))
      BY <2>4, <3>5, <3>6 DEF Teaches
    <3>8. QED
      BY <2>4, <3>3, <3>4, <3>7
  <2> HIDE DEF b
  <2>5. QED
    BY <2>2, <2>3, <2>4
<1>8. QED
  BY <1>1, <1>5, <1>6, <1>7

-----------------------------------------------------------------------------
(* The inductive invariant *)

Inv ==
  /\ TypeInv
  /\ CategoryInv
  /\ SeenInv
  /\ InsertInv
  /\ AccountInv
  /\ SweptInv
  /\ AloneInv
  /\ ManualChoiceStays
  /\ CategoriesFollowRules

\* How a session goes on from w to v.
Follows(w, v) ==
  /\ v.op \in {w.op, "none"}
  /\ v.alone => w.alone
  /\ \A b \in Bookings :
       /\ v.seen[b] \in {w.seen[b], rows[b], None}
       /\ v.row[b] # None => w.row[b] # None \/ rows[b] # None
       /\ Inserts(v, b) => Inserts(w, b)
  /\ v.account = "none" \/ (v.moved = w.moved /\ v.account \in {w.account, depot})

LEMMA SweepsFly ==
  ASSUME NEW w, PlaceOK(w), Sweeps(w)
  PROVE  w.pc \notin {"idle", "done"}
  BY DEF PlaceOK, Sweeps

\* Nothing is inserted or loaded by a session that has not begun or is done.
LEMMA RestIsFresh ==
  ASSUME NEW w, PlaceOK(w), w.pc \in {"idle", "done"}, NEW b \in Bookings
  PROVE  w.row[b] = None /\ w.seen[b] = None
  BY DEF PlaceOK, Fresh, NoRows

LEMMA GoesKeeps ==
  ASSUME Inv, NEW s \in Sessions, NEW v \in Session, InFlight(s), Goes(s, v), Follows(work[s], v),
         PlaceOK(v), \A b \in Bookings : RowOK(v, b), v.alone => AloneOK(v)
  PROVE  Inv'
<1>1. /\ work' = [work EXCEPT ![s] = v] /\ rows' = rows /\ rules' = rules /\ depot' = depot
      /\ choice' = choice /\ raced' = raced /\ settled' = settled /\ swept' = swept
  BY DEF Goes, Committed, History
<1>2. work \in [Sessions -> Session]
  BY DEF Inv, TypeInv, TypeOK
<1>3. work'[s] = v /\ \A t \in Sessions \ {s} : work'[t] = work[t]
  BY <1>1, <1>2
<1>4. TypeOK'
  BY <1>1, <1>2 DEF Inv, TypeInv, TypeOK
<1>5. ASSUME NEW b \in Bookings
      PROVE  /\ v.seen[b] \in {work[s].seen[b], rows[b], None}
             /\ v.row[b] # None => work[s].row[b] # None \/ rows[b] # None
             /\ Inserts(v, b) => Inserts(work[s], b)
  BY DEF Follows
<1>6. TypeInv'
  <2>1. \A t \in Sessions : PlaceOK(work[t])'
    <3>1. TAKE t \in Sessions
    <3>2. PlaceOK(work'[t])
      BY <1>3 DEF Inv, TypeInv
    <3>3. QED
      BY <3>2 DEF PlaceOK, Fresh
  <2>2. \A t \in Sessions, b \in Bookings :
          RowOK(work'[t], b) /\ (work'[t].seen[b] # None => rows[b] # None)
    BY <1>3, <1>5 DEF Inv, TypeInv
  <2>3. \A t \in Sessions, b \in Bookings :
          RowOK(work[t], b)' /\ (work'[t].seen[b] # None => rows'[b] # None)
    BY <1>1, <2>2 DEF RowOK, ChangeOK, InsertOK, Inserts, Labelled
  <2>4. QED
    BY <1>4, <2>1, <2>3 DEF TypeInv
<1>7. CategoryInv'
  <2>1. \A t \in Sessions, b \in Bookings :
          work'[t].seen[b] # None /\ rows[b].category = None => work'[t].seen[b].category = None
    BY <1>3, <1>5 DEF Inv, CategoryInv
  <2>2. QED
    BY <1>1, <2>1 DEF Inv, CategoryInv
<1>8. SeenInv'
  <2>1. Sweeps(v) => Sweeps(work[s])
    BY DEF Follows, Sweeps
  <2>2. \A t \in Sessions, b \in Bookings \ raced :
          Sweeps(work'[t]) /\ work'[t].seen[b] # None =>
            work'[t].seen[b].category = rows[b].category /\ work'[t].seen[b].manual = rows[b].manual
    BY <1>3, <1>5, <2>1 DEF Inv, SeenInv
  <2>3. QED
    BY <1>1, <2>2 DEF SeenInv, Sweeps
<1>9. InsertInv'
  <2>1. ASSUME NEW t \in Sessions, NEW b \in Bookings, Inserts(work'[t], b)
        PROVE  rows[b] = None /\ \A u \in Sessions \ {t} : work'[u].row[b] = None
    <3>1. Inserts(work[t], b)
      BY <1>3, <1>5, <2>1
    <3>2. rows[b] = None /\ \A u \in Sessions \ {t} : work[u].row[b] = None
      BY <3>1 DEF Inv, InsertInv
    <3>3. QED
      BY <1>3, <1>5, <3>2
  <2>2. QED
    BY <1>1, <2>1 DEF InsertInv, Inserts
<1>10. AccountInv'
  <2>1. v.account # "none" => depot # "none" \/ v.moved
    BY DEF Follows, Inv, AccountInv
  <2>2. QED
    BY <1>1, <1>3, <2>1 DEF Inv, AccountInv
<1>11. AloneInv'
  <2>1. ASSUME NEW t \in Sessions, work'[t].alone, work'[t].pc \notin {"idle", "done"}
        PROVE  t = s /\ AloneOK(v) /\ Others(s) = {}
    <3>1. CASE t = s
      <4>1. work[s].alone
        BY <1>3, <2>1, <3>1 DEF Follows
      <4>2. QED
        BY <1>3, <2>1, <3>1, <4>1 DEF Inv, AloneInv
    <3>2. CASE t # s
      <4>1. work[t].alone /\ InFlight(t)
        BY <1>3, <2>1, <3>2 DEF InFlight
      <4>2. s \in Others(t)
        BY <3>2 DEF Others
      <4>3. QED
        BY <4>1, <4>2 DEF Inv, AloneInv
    <3>3. QED
      BY <3>1, <3>2
  <2>2. AloneOK(v) => AloneOK(work[s])'
    BY <1>1, <1>3 DEF AloneOK, Sweeps, Fits
  <2>3. Others(s) = {} => Others(s)' = {}
    BY <1>3 DEF Others, InFlight
  <2>4. QED
    BY <2>1, <2>2, <2>3 DEF AloneInv, InFlight
<1>12. ManualChoiceStays' /\ CategoriesFollowRules' /\ SweptInv'
  BY <1>1 DEF Inv, ManualChoiceStays, CategoriesFollowRules, SweptInv
<1>13. QED
  BY <1>6, <1>7, <1>8, <1>9, <1>10, <1>11, <1>12 DEF Inv

LEMMA AloneEnds ==
  ASSUME NEW x \in Session, PlaceOK(x), \A b \in Bookings : RowOK(x, b)
  PROVE  LET y == [x EXCEPT !.alone = FALSE]
         IN  /\ y \in Session /\ PlaceOK(y) /\ \A b \in Bookings : RowOK(y, b)
             /\ y.pc = x.pc /\ y.op = x.op /\ y.seen = x.seen /\ y.row = x.row /\ y.moved = x.moved
             /\ y.account = x.account /\ y.alone = FALSE /\ y.new = x.new
<1> DEFINE y == [x EXCEPT !.alone = FALSE]
<1>1. /\ y \in Session
      /\ y.pc = x.pc /\ y.op = x.op /\ y.pick = x.pick /\ y.category = x.category /\ y.hint = x.hint
      /\ y.seen = x.seen /\ y.row = x.row /\ y.locked = x.locked /\ y.todo = x.todo
      /\ y.account = x.account /\ y.moved = x.moved /\ y.new = x.new /\ y.alone = FALSE
  BY DEF Session
<1> HIDE DEF y
<1>2. PlaceOK(y)
  BY <1>1 DEF PlaceOK, Fresh, Sweeps
<1>3. \A b \in Bookings : RowOK(y, b)
  BY <1>1 DEF RowOK, ChangeOK, InsertOK, Inserts, Labelled
<1>4. QED
  BY <1>1, <1>2, <1>3 DEF y

\* What a session that begins with v must be.
Starts(s, v) ==
  /\ v.pc \notin {"idle", "done"}
  /\ v.alone => Others(s) = {}
  /\ \A b \in Bookings :
       /\ v.seen[b] \in {rows[b], None}
       /\ Inserts(v, b) => rows[b] = None /\ \A t \in Sessions \ {s} : work[t].row[b] = None
       /\ v.row[b] # None => rows[b] # None \/ Inserts(v, b)
  /\ v.account # "none" => depot # "none" \/ v.moved

LEMMA BeginKeeps ==
  ASSUME Inv, NEW s \in Sessions, NEW w, Begin(s, w),
         LET v == [w EXCEPT !.alone = Others(s) = {}]
         IN  /\ v \in Session /\ PlaceOK(v) /\ \A b \in Bookings : RowOK(v, b)
             /\ Starts(s, v) /\ AloneOK(v)
  PROVE  Inv'
<1> DEFINE v == [w EXCEPT !.alone = Others(s) = {}]
<1>1. /\ v \in Session /\ PlaceOK(v) /\ \A b \in Bookings : RowOK(v, b)
      /\ Starts(s, v) /\ AloneOK(v)
  OBVIOUS
<1>2. /\ work' = [t \in Sessions |-> IF t = s THEN v ELSE [work[t] EXCEPT !.alone = FALSE]]
      /\ rows' = rows /\ rules' = rules /\ depot' = depot
      /\ choice' = choice /\ raced' = raced /\ settled' = settled /\ swept' = swept /\ work[s].pc = "idle"
  BY DEF Begin, Committed, History
<1> HIDE DEF v
<1>3. work'[s] = v /\ work' \in [Sessions -> Session]
  <2>1. \A t \in Sessions : [work[t] EXCEPT !.alone = FALSE] \in Session
    BY AloneEnds DEF Inv, TypeInv, TypeOK
  <2>2. QED
    BY <1>1, <1>2, <2>1
<1>4. ASSUME NEW t \in Sessions \ {s}
      PROVE  /\ PlaceOK(work'[t]) /\ \A b \in Bookings : RowOK(work'[t], b)
             /\ work'[t].op = work[t].op /\ work'[t].seen = work[t].seen /\ work'[t].row = work[t].row
             /\ work'[t].moved = work[t].moved /\ work'[t].account = work[t].account
             /\ work'[t].alone = FALSE /\ work'[t].pc = work[t].pc
  <2>1. work'[t] = [work[t] EXCEPT !.alone = FALSE]
    BY <1>2
  <2>2. work[t] \in Session /\ PlaceOK(work[t]) /\ \A b \in Bookings : RowOK(work[t], b)
    BY DEF Inv, TypeInv, TypeOK
  <2>3. QED
    BY <2>1, <2>2, AloneEnds
<1>5. ASSUME NEW b \in Bookings
      PROVE  /\ v.seen[b] \in {rows[b], None}
             /\ Inserts(v, b) => rows[b] = None /\ \A t \in Sessions \ {s} : work[t].row[b] = None
             /\ v.row[b] # None => rows[b] # None \/ Inserts(v, b)
  BY <1>1 DEF Starts
<1>6. TypeInv'
  <2>1. \A t \in Sessions : PlaceOK(work[t])'
    <3>1. TAKE t \in Sessions
    <3>2. PlaceOK(work'[t])
      BY <1>1, <1>3, <1>4
    <3>3. QED
      BY <3>2 DEF PlaceOK, Fresh
  <2>2. \A t \in Sessions, b \in Bookings :
          RowOK(work'[t], b) /\ (work'[t].seen[b] # None => rows[b] # None)
    <3>1. TAKE t \in Sessions, b \in Bookings
    <3>2. CASE t = s
      BY <1>1, <1>3, <1>5, <3>2
    <3>3. CASE t # s
      BY <1>4, <3>3 DEF Inv, TypeInv
    <3>4. QED
      BY <3>2, <3>3
  <2>3. \A t \in Sessions, b \in Bookings :
          RowOK(work[t], b)' /\ (work'[t].seen[b] # None => rows'[b] # None)
    BY <1>2, <2>2 DEF RowOK, ChangeOK, InsertOK, Inserts, Labelled
  <2>4. TypeOK'
    BY <1>2, <1>3 DEF Inv, TypeInv, TypeOK
  <2>5. QED
    BY <2>1, <2>3, <2>4 DEF TypeInv
<1>7. CategoryInv'
  <2>1. \A t \in Sessions, b \in Bookings :
          work'[t].seen[b] # None /\ rows[b].category = None => work'[t].seen[b].category = None
    <3>1. TAKE t \in Sessions, b \in Bookings
    <3>2. CASE t = s
      BY <1>3, <1>5, <3>2
    <3>3. CASE t # s
      BY <1>4, <3>3 DEF Inv, CategoryInv
    <3>4. QED
      BY <3>2, <3>3
  <2>2. QED
    BY <1>2, <2>1 DEF Inv, CategoryInv
<1>8. SeenInv'
  <2>1. \A t \in Sessions \ {s} : Sweeps(work'[t]) => Sweeps(work[t])
    BY <1>4 DEF Sweeps
  <2>2. \A t \in Sessions, b \in Bookings \ raced :
          Sweeps(work'[t]) /\ work'[t].seen[b] # None =>
            work'[t].seen[b].category = rows[b].category /\ work'[t].seen[b].manual = rows[b].manual
    <3>1. TAKE t \in Sessions, b \in Bookings \ raced
    <3>2. CASE t = s
      BY <1>3, <1>5, <3>2
    <3>3. CASE t # s
      BY <1>4, <2>1, <3>3 DEF Inv, SeenInv
    <3>4. QED
      BY <3>2, <3>3
  <2>3. QED
    BY <1>2, <2>2 DEF SeenInv, Sweeps
<1>9. InsertInv'
  <2>1. ASSUME NEW t \in Sessions, NEW b \in Bookings, Inserts(work'[t], b)
        PROVE  rows[b] = None /\ \A u \in Sessions \ {t} : work'[u].row[b] = None
    <3>1. CASE t = s
      BY <1>3, <1>4, <1>5, <2>1, <3>1
    <3>2. CASE t # s
      <4>1. Inserts(work[t], b)
        BY <1>4, <2>1, <3>2 DEF Inserts
      <4>2. rows[b] = None /\ \A u \in Sessions \ {t} : work[u].row[b] = None
        BY <4>1 DEF Inv, InsertInv
      <4>3. work[t].row[b] # None
        BY <4>1 DEF Inserts
      <4>4. v.row[b] = None
        BY <1>5, <3>2, <4>2, <4>3
      <4>5. QED
        BY <1>3, <1>4, <4>2, <4>4
    <3>3. QED
      BY <3>1, <3>2
  <2>2. QED
    BY <1>2, <2>1 DEF InsertInv, Inserts
<1>10. AccountInv'
  <2>1. v.account # "none" => depot # "none" \/ v.moved
    BY <1>1 DEF Starts
  <2>2. QED
    BY <1>2, <1>3, <1>4, <2>1 DEF Inv, AccountInv
<1>11. AloneInv'
  <2>1. AloneOK(work[s])'
    BY <1>1, <1>2, <1>3 DEF AloneOK, Sweeps, Fits
  <2>2. work'[s].alone => Others(s)' = {}
    <3>1. \A t \in Sessions \ {s} : InFlight(t)' <=> InFlight(t)
      BY <1>4 DEF InFlight
    <3>2. Others(s) = {} => Others(s)' = {}
      BY <3>1 DEF Others
    <3>3. QED
      BY <1>1, <1>3, <3>2 DEF Starts
  <2>3. \A t \in Sessions : work'[t].alone => t = s
    BY <1>4
  <2>4. QED
    BY <2>1, <2>2, <2>3 DEF AloneInv
<1>12. ManualChoiceStays' /\ CategoriesFollowRules' /\ SweptInv'
  BY <1>2 DEF Inv, ManualChoiceStays, CategoriesFollowRules, SweptInv
<1>13. QED
  BY <1>6, <1>7, <1>8, <1>9, <1>10, <1>11, <1>12 DEF Inv

-----------------------------------------------------------------------------
(* Sessions begin *)

LEMMA TypesOfRows ==
  ASSUME Inv, NEW b \in Bookings
  PROVE  /\ rows[b] \in Row \cup {None}
         /\ rows[b] # None => /\ rows[b] \in Row /\ rows[b].category \in Values
                              /\ rows[b].manual \in BOOLEAN /\ rows[b].exclude \in BOOLEAN
         /\ rows[b] # None /\ rows[b].manual => rows[b].category # None
  BY RowShape DEF Inv, TypeInv, TypeOK, CategoryInv

LEMMA SetCategoryKeeps ==
  ASSUME Inv, NEW s \in Sessions, NEW b \in Bookings, NEW c \in Categories, SetCategory(s, b, c)
  PROVE  Inv'
<1> DEFINE w == [NoWork EXCEPT !.pc = "label", !.op = "set", !.pick = {b}, !.category = c,
                               !.seen = Loaded(b), !.row = Loaded(b)]
           alone == Others(s) = {}
           v == [w EXCEPT !.alone = alone]
<1>1. Begin(s, w) /\ rows[b] # None
  BY DEF SetCategory
<1>2. alone \in BOOLEAN
  OBVIOUS
<1>3. \A a \in Bookings : Loaded(b)[a] = IF a = b THEN rows[b] ELSE None
  BY DEF Loaded, NoRows
<1>4. Loaded(b) \in [Bookings -> Row \cup {None}]
  BY TypesOfRows DEF Loaded, NoRows
<1> HIDE DEF alone
<1>5. /\ v.pc = "label" /\ v.op = "set" /\ v.pick = {b} /\ v.category = c /\ v.hint = None
      /\ v.seen = Loaded(b) /\ v.row = Loaded(b) /\ v.locked = {} /\ v.todo = {}
      /\ v.account = "none" /\ v.moved = FALSE /\ v.new = {} /\ v.alone = alone
      /\ v \in Session
  BY <1>2, <1>4 DEF NoWork, Session, Places, Accounts
<1> HIDE DEF v
<1>6. PlaceOK(v)
  BY <1>5 DEF PlaceOK, Sweeps
<1>7. ASSUME NEW a \in Bookings PROVE RowOK(v, a)
  <2>1. CASE a = b
    BY <1>1, <1>3, <1>5, <2>1, TypesOfRows DEF RowOK, ChangeOK, Inserts, Labelled
  <2>2. CASE a # b
    BY <1>3, <1>5, <2>2 DEF RowOK, ChangeOK, Inserts, Labelled
  <2>3. QED
    BY <2>1, <2>2
<1>8. Starts(s, v)
  BY <1>1, <1>3, <1>5 DEF Starts, Inserts, alone
<1>9. AloneOK(v)
  BY <1>1, <1>3, <1>5 DEF AloneOK, Sweeps
<1>10. QED
  BY <1>1, <1>5, <1>6, <1>7, <1>8, <1>9, BeginKeeps DEF v, alone

LEMMA LabelTransactionsKeeps ==
  ASSUME Inv, NEW s \in Sessions, NEW B \in SUBSET Bookings, NEW c \in Categories,
         NEW h \in Phrases \cup {None}, LabelTransactions(s, B, c, h)
  PROVE  Inv'
<1> DEFINE w == [NoWork EXCEPT !.pc = "label", !.op = "label", !.pick = B, !.category = c,
                               !.hint = h, !.seen = rows, !.row = rows]
           alone == Others(s) = {}
           v == [w EXCEPT !.alone = alone]
<1>1. Begin(s, w) /\ (\A b \in B : rows[b] # None) /\ (B # {} \/ h # None)
  BY DEF LabelTransactions
<1>2. alone \in BOOLEAN
  OBVIOUS
<1>3. rows \in [Bookings -> Row \cup {None}]
  BY DEF Inv, TypeInv, TypeOK
<1> HIDE DEF alone
<1>4. /\ v.pc = "label" /\ v.op = "label" /\ v.pick = B /\ v.category = c /\ v.hint = h
      /\ v.seen = rows /\ v.row = rows /\ v.locked = {} /\ v.todo = {}
      /\ v.account = "none" /\ v.moved = FALSE /\ v.new = {} /\ v.alone = alone
      /\ v \in Session
  BY <1>2, <1>3 DEF NoWork, Session, Places, Accounts
<1> HIDE DEF v
<1>5. PlaceOK(v)
  BY <1>1, <1>4 DEF PlaceOK, Sweeps
<1>6. \A a \in Bookings : RowOK(v, a)
  BY <1>1, <1>4, TypesOfRows DEF RowOK, ChangeOK, Inserts, Labelled
<1>7. Starts(s, v)
  BY <1>4 DEF Starts, Inserts, alone
<1>8. AloneOK(v)
  BY <1>4 DEF AloneOK, Sweeps
<1>9. QED
  BY <1>1, <1>4, <1>5, <1>6, <1>7, <1>8, BeginKeeps DEF v, alone

LEMMA SetExcludeKeeps ==
  ASSUME Inv, NEW s \in Sessions, NEW b \in Bookings, NEW x \in BOOLEAN, SetExclude(s, b, x)
  PROVE  Inv'
<1> DEFINE row == [Loaded(b) EXCEPT ![b].exclude = x]
           w == [NoWork EXCEPT !.pc = "exclude", !.op = "exclude", !.pick = {b},
                               !.seen = Loaded(b), !.row = row]
           alone == Others(s) = {}
           v == [w EXCEPT !.alone = alone]
<1>1. Begin(s, w) /\ rows[b] # None
  BY DEF SetExclude
<1>2. alone \in BOOLEAN
  OBVIOUS
<1>3. \A a \in Bookings : Loaded(b)[a] = IF a = b THEN rows[b] ELSE None
  BY DEF Loaded, NoRows
<1>4. Loaded(b) \in [Bookings -> Row \cup {None}]
  BY TypesOfRows DEF Loaded, NoRows
<1> DEFINE y == [rows[b] EXCEPT !.exclude = x]
<1>5. rows[b] \in Row /\ y \in Row /\ y.category = rows[b].category /\ y.manual = rows[b].manual
  BY <1>1, TypesOfRows DEF Row
<1>6. row = [Loaded(b) EXCEPT ![b] = y]
  BY <1>3, <1>4
<1> HIDE DEF y
<1>7. /\ row \in [Bookings -> Row \cup {None}]
      /\ \A a \in Bookings : row[a] = IF a = b THEN y ELSE None
  BY <1>3, <1>4, <1>5, <1>6
<1>8. y # None
  BY <1>5, RowShape
<1> HIDE DEF alone, row
<1>9. /\ v.pc = "exclude" /\ v.op = "exclude" /\ v.pick = {b} /\ v.category = None /\ v.hint = None
      /\ v.seen = Loaded(b) /\ v.row = row /\ v.locked = {} /\ v.todo = {}
      /\ v.account = "none" /\ v.moved = FALSE /\ v.new = {} /\ v.alone = alone
      /\ v \in Session
  BY <1>2, <1>4, <1>7 DEF NoWork, Session, Places, Accounts
<1> HIDE DEF v
<1>10. PlaceOK(v)
  BY <1>9 DEF PlaceOK, Sweeps
<1>11. ASSUME NEW a \in Bookings PROVE RowOK(v, a)
  <2>1. CASE a = b
    BY <1>1, <1>3, <1>5, <1>7, <1>8, <1>9, <2>1, TypesOfRows
       DEF RowOK, ChangeOK, Inserts, Labelled
  <2>2. CASE a # b
    BY <1>3, <1>7, <1>9, <2>2 DEF RowOK, ChangeOK, Inserts, Labelled
  <2>3. QED
    BY <2>1, <2>2
<1>12. Starts(s, v)
  BY <1>1, <1>3, <1>7, <1>9 DEF Starts, Inserts, alone
<1>13. AloneOK(v)
  BY <1>1, <1>3, <1>9 DEF AloneOK, Sweeps
<1>14. QED
  BY <1>1, <1>9, <1>10, <1>11, <1>12, <1>13, BeginKeeps DEF v, alone, row

LEMMA CreateRuleKeeps ==
  ASSUME Inv, NEW s \in Sessions, NEW r \in Rule, CreateRule(s, r)
  PROVE  Inv'
<1> DEFINE w == [NoWork EXCEPT !.pc = "commit", !.op = "rule", !.new = {r}]
           alone == Others(s) = {}
           v == [w EXCEPT !.alone = alone]
<1>1. Begin(s, w)
  BY DEF CreateRule
<1>2. alone \in BOOLEAN
  OBVIOUS
<1>3. NoRows \in [Bookings -> Row \cup {None}] /\ \A a \in Bookings : NoRows[a] = None
  BY DEF NoRows
<1> HIDE DEF alone
<1>4. /\ v.pc = "commit" /\ v.op = "rule" /\ v.pick = {} /\ v.category = None /\ v.hint = None
      /\ v.seen = NoRows /\ v.row = NoRows /\ v.locked = {} /\ v.todo = {}
      /\ v.account = "none" /\ v.moved = FALSE /\ v.new = {r} /\ v.alone = alone
      /\ v \in Session
  BY <1>2, <1>3 DEF NoWork, Session, Places, Accounts
<1> HIDE DEF v
<1>5. PlaceOK(v)
  BY <1>4 DEF PlaceOK, Sweeps
<1>6. \A a \in Bookings : RowOK(v, a)
  BY <1>3, <1>4 DEF RowOK, ChangeOK, Inserts, Labelled
<1>7. Starts(s, v)
  BY <1>3, <1>4 DEF Starts, Inserts, alone
<1>8. AloneOK(v)
  BY <1>3, <1>4 DEF AloneOK, Sweeps
<1>9. QED
  BY <1>1, <1>4, <1>5, <1>6, <1>7, <1>8, BeginKeeps DEF v, alone

LEMMA AddTransactionKeeps ==
  ASSUME Inv, NEW s \in Sessions, NEW b \in Bookings, NEW c \in Categories \cup {None},
         NEW op \in {"add", "import"}, AddTransaction(s, b, c, op)
  PROVE  Inv'
<1> DEFINE manual == c # None
           x == [category |-> c, manual |-> manual, exclude |-> FALSE]
           row == [NoRows EXCEPT ![b] = x]
           w == [NoWork EXCEPT !.pc = "classify new", !.op = op, !.pick = {b}, !.category = c,
                               !.row = row, !.locked = {b}]
           alone == Others(s) = {}
           v == [w EXCEPT !.alone = alone]
<1>1. Begin(s, w) /\ rows[b] = None /\ (\A t \in Others(s) : work[t].row[b] = None)
      /\ (op = "import" => c = None)
  BY DEF AddTransaction
<1>2. alone \in BOOLEAN /\ manual \in BOOLEAN
  OBVIOUS
<1>3. \A t \in Sessions \ {s} : work[t].row[b] = None
  <2>1. TAKE t \in Sessions \ {s}
  <2>2. CASE InFlight(t)
    BY <1>1, <2>2 DEF Others
  <2>3. CASE ~InFlight(t)
    BY <2>3, RestIsFresh DEF InFlight, Inv, TypeInv
  <2>4. QED
    BY <2>2, <2>3
<1> HIDE DEF alone, manual
<1>4. x \in Row /\ x.category = c /\ x.manual = manual
  BY <1>2 DEF Row, Values
<1>5. x # None
  BY <1>4, RowShape
<1> HIDE DEF x
<1>6. /\ row \in [Bookings -> Row \cup {None}] /\ NoRows \in [Bookings -> Row \cup {None}]
      /\ \A a \in Bookings : row[a] = (IF a = b THEN x ELSE None) /\ NoRows[a] = None
  BY <1>4 DEF NoRows
<1> HIDE DEF row
<1>7. /\ v.pc = "classify new" /\ v.op = op /\ v.pick = {b} /\ v.category = c /\ v.hint = None
      /\ v.seen = NoRows /\ v.row = row /\ v.locked = {b} /\ v.todo = {}
      /\ v.account = "none" /\ v.moved = FALSE /\ v.new = {} /\ v.alone = alone
      /\ v \in Session
  BY <1>2, <1>6 DEF NoWork, Session, Places, Accounts
<1> HIDE DEF v
<1>8. PlaceOK(v)
  BY <1>1, <1>7 DEF PlaceOK, Sweeps
<1>9. ASSUME NEW a \in Bookings PROVE RowOK(v, a)
  <2>1. CASE a = b
    BY <1>1, <1>4, <1>5, <1>6, <1>7, <2>1 DEF RowOK, InsertOK, Inserts, manual
  <2>2. CASE a # b
    BY <1>6, <1>7, <2>2 DEF RowOK, Inserts
  <2>3. QED
    BY <2>1, <2>2
<1>10. Starts(s, v)
  BY <1>1, <1>3, <1>5, <1>6, <1>7 DEF Starts, Inserts, alone
<1>11. AloneOK(v)
  BY <1>6, <1>7 DEF AloneOK, Sweeps
<1>12. QED
  BY <1>1, <1>7, <1>8, <1>9, <1>10, <1>11, BeginKeeps DEF v, alone, row, x, manual

LEMMA SetDepotKeeps ==
  ASSUME Inv, NEW s \in Sessions, NEW a \in Accounts \ {"none"}, SetDepot(s, a)
  PROVE  Inv'
<1> DEFINE moved == a # depot
           w == [NoWork EXCEPT !.pc = "load", !.op = "depot", !.account = a, !.moved = moved]
           alone == Others(s) = {}
           v == [w EXCEPT !.alone = alone]
<1>1. Begin(s, w)
  BY DEF SetDepot
<1>2. alone \in BOOLEAN /\ moved \in BOOLEAN
  OBVIOUS
<1>3. NoRows \in [Bookings -> Row \cup {None}] /\ \A b \in Bookings : NoRows[b] = None
  BY DEF NoRows
<1> HIDE DEF alone, moved
<1>4. /\ v.pc = "load" /\ v.op = "depot" /\ v.pick = {} /\ v.category = None /\ v.hint = None
      /\ v.seen = NoRows /\ v.row = NoRows /\ v.locked = {} /\ v.todo = {}
      /\ v.account = a /\ v.moved = moved /\ v.new = {} /\ v.alone = alone
      /\ v \in Session
  BY <1>2, <1>3 DEF NoWork, Session, Places
<1> HIDE DEF v
<1>5. PlaceOK(v)
  BY <1>4 DEF PlaceOK, Sweeps
<1>6. \A b \in Bookings : RowOK(v, b)
  BY <1>3, <1>4 DEF RowOK, ChangeOK, Inserts, Labelled
<1>7. Starts(s, v)
  BY <1>3, <1>4 DEF Starts, Inserts, alone, moved
<1>8. AloneOK(v)
  BY <1>3, <1>4 DEF AloneOK, Sweeps, moved
<1>9. QED
  BY <1>1, <1>4, <1>5, <1>6, <1>7, <1>8, BeginKeeps DEF v, alone, moved

LEMMA ReclassifyKeeps ==
  ASSUME Inv, NEW s \in Sessions, Reclassify(s)
  PROVE  Inv'
<1> DEFINE w == [NoWork EXCEPT !.pc = "load", !.op = "reclassify"]
           alone == Others(s) = {}
           v == [w EXCEPT !.alone = alone]
<1>1. Begin(s, w)
  BY DEF Reclassify
<1>2. alone \in BOOLEAN
  OBVIOUS
<1>3. NoRows \in [Bookings -> Row \cup {None}] /\ \A a \in Bookings : NoRows[a] = None
  BY DEF NoRows
<1> HIDE DEF alone
<1>4. /\ v.pc = "load" /\ v.op = "reclassify" /\ v.pick = {} /\ v.category = None /\ v.hint = None
      /\ v.seen = NoRows /\ v.row = NoRows /\ v.locked = {} /\ v.todo = {}
      /\ v.account = "none" /\ v.moved = FALSE /\ v.new = {} /\ v.alone = alone
      /\ v \in Session
  BY <1>2, <1>3 DEF NoWork, Session, Places, Accounts
<1> HIDE DEF v
<1>5. PlaceOK(v)
  BY <1>4 DEF PlaceOK, Sweeps
<1>6. \A a \in Bookings : RowOK(v, a)
  BY <1>3, <1>4 DEF RowOK, ChangeOK, Inserts, Labelled
<1>7. Starts(s, v)
  BY <1>3, <1>4 DEF Starts, Inserts, alone
<1>8. AloneOK(v)
  BY <1>3, <1>4 DEF AloneOK, Sweeps
<1>9. QED
  BY <1>1, <1>4, <1>5, <1>6, <1>7, <1>8, BeginKeeps DEF v, alone

\* A set of bookings has a newest one.
LEMMA MaxOfBookings ==
  ASSUME NEW B \in SUBSET Bookings, B # {}
  PROVE  (CHOOSE b \in B : \A a \in B : a <= b) \in B
<1>1. N \in Nat /\ B \in SUBSET (0..N)
  BY ClassificationAssumption DEF Bookings
<1>2. \E b \in B : \A a \in B : a <= b
  BY <1>1, GreatestUpTo
<1>3. QED
  BY <1>2

-----------------------------------------------------------------------------
(* Sessions go on *)

LEMMA SessionFacts ==
  ASSUME Inv, NEW s \in Sessions
  PROVE  /\ work[s] \in Session /\ PlaceOK(work[s]) /\ \A b \in Bookings : RowOK(work[s], b)
         /\ work[s].alone /\ InFlight(s) => AloneOK(work[s])
         /\ rules \cup work[s].new \in SUBSET Rule
         /\ \A b \in Bookings : work[s].row[b] # None => work[s].row[b] \in Row
<1>1. /\ work[s] \in Session /\ PlaceOK(work[s]) /\ \A b \in Bookings : RowOK(work[s], b)
      /\ rules \subseteq Rule
  BY DEF Inv, TypeInv, TypeOK
<1>2. work[s].alone /\ InFlight(s) => AloneOK(work[s])
  BY DEF Inv, AloneInv
<1>3. work[s].new \subseteq Rule /\ work[s].row \in [Bookings -> Row \cup {None}]
  BY <1>1 DEF Session
<1>4. QED
  BY <1>1, <1>2, <1>3

LEMMA FlushedFields ==
  ASSUME NEW w \in Session
  PROVE  LET y == Flushed(w)
         IN  /\ y \in Session /\ y.locked = w.locked \cup {b \in Bookings : w.row[b] # w.seen[b]}
             /\ y.pc = w.pc /\ y.op = w.op /\ y.pick = w.pick /\ y.category = w.category
             /\ y.hint = w.hint /\ y.seen = w.seen /\ y.row = w.row /\ y.todo = w.todo
             /\ y.account = w.account /\ y.moved = w.moved /\ y.new = w.new /\ y.alone = w.alone
<1> DEFINE l == w.locked \cup Dirty(w)
<1>1. l \in SUBSET Bookings /\ l = w.locked \cup {b \in Bookings : w.row[b] # w.seen[b]}
  BY DEF Session, Dirty
<1>2. Flushed(w) = [w EXCEPT !.locked = l]
  BY DEF Flushed, Session
<1> HIDE DEF l
<1>3. QED
  BY <1>1, <1>2 DEF Session

LEMMA LabelKeeps ==
  ASSUME Inv, NEW s \in Sessions, Label(s)
  PROVE  Inv'
<1> DEFINE x == work[s]
           pick(b) == [x.row[b] EXCEPT !.category = x.category, !.manual = TRUE]
           row == [b \in Bookings |-> IF b \in x.pick THEN pick(b) ELSE x.row[b]]
           w == [x EXCEPT !.row = row]
           v == [Flushed(w) EXCEPT !.pc = IF w.op = "label" THEN "teach" ELSE "load"]
<1>1. x.pc = "label" /\ Goes(s, v)
  BY DEF Label
<1>2. /\ x \in Session /\ PlaceOK(x) /\ \A b \in Bookings : RowOK(x, b)
      /\ x.alone => AloneOK(x)
      /\ \A b \in Bookings : x.row[b] # None => x.row[b] \in Row
  BY <1>1, SessionFacts DEF InFlight
<1>3. x.op \in {"set", "label"} /\ x.category \in Categories /\ x.category # None
  BY <1>1, <1>2, ClassificationAssumption DEF PlaceOK
<1>4. ASSUME NEW b \in Bookings, b \in x.pick
      PROVE  /\ x.row[b] # None /\ x.seen[b] # None /\ x.row[b] = x.seen[b] /\ pick(b) \in Row
             /\ pick(b) # None /\ pick(b).category = x.category /\ pick(b).manual = TRUE
             /\ pick(b).exclude = x.seen[b].exclude
  <2>1. x.seen[b] # None /\ x.row[b] # None /\ x.row[b] = x.seen[b]
    BY <1>1, <1>2, <1>3, <1>4 DEF RowOK, ChangeOK
  <2>2. x.row[b] \in Row
    BY <1>2, <2>1
  <2>3. pick(b) \in Row
    BY <1>3, <2>2 DEF Row, Values
  <2>4. pick(b).category = x.category /\ pick(b).manual = TRUE /\ pick(b).exclude = x.row[b].exclude
    BY <2>2 DEF Row
  <2>5. QED
    BY <2>1, <2>3, <2>4, RowShape
<1> HIDE DEF pick
<1>5. /\ row \in [Bookings -> Row \cup {None}]
      /\ \A b \in Bookings : row[b] = IF b \in x.pick THEN pick(b) ELSE x.row[b]
  BY <1>2, <1>4
<1>p. Present(row) = Present(x.row)
  BY <1>4, <1>5 DEF Present
<1> HIDE DEF row
<1>6. /\ w \in Session /\ w.op = x.op /\ w.pick = x.pick /\ w.category = x.category /\ w.hint = x.hint
      /\ w.seen = x.seen /\ w.row = row /\ w.locked = x.locked /\ w.todo = x.todo
      /\ w.account = x.account /\ w.moved = x.moved /\ w.new = x.new /\ w.alone = x.alone
  BY <1>2, <1>5 DEF Session
<1> HIDE DEF w
<1> DEFINE y == Flushed(w)
<1>7. /\ y \in Session /\ y.op = x.op /\ y.pick = x.pick /\ y.category = x.category /\ y.hint = x.hint
      /\ y.seen = x.seen /\ y.row = row /\ y.todo = x.todo
      /\ y.locked = x.locked \cup {b \in Bookings : row[b] # x.seen[b]}
      /\ y.account = x.account /\ y.moved = x.moved /\ y.new = x.new /\ y.alone = x.alone
  BY <1>6, FlushedFields
<1> HIDE DEF y
<1>8. /\ v = [y EXCEPT !.pc = IF w.op = "label" THEN "teach" ELSE "load"]
      /\ (IF w.op = "label" THEN "teach" ELSE "load") \in Places
  BY DEF y, Places
<1> HIDE DEF v
<1>9. /\ v \in Session /\ v.op = x.op /\ v.pick = x.pick /\ v.category = x.category /\ v.hint = x.hint
      /\ v.seen = x.seen /\ v.row = row /\ v.todo = x.todo
      /\ v.locked = x.locked \cup {b \in Bookings : row[b] # x.seen[b]}
      /\ v.account = x.account /\ v.moved = x.moved /\ v.new = x.new /\ v.alone = x.alone
      /\ v.pc = IF x.op = "label" THEN "teach" ELSE "load"
  BY <1>6, <1>7, <1>8 DEF Session
<1>10. PlaceOK(v)
  BY <1>1, <1>2, <1>3, <1>9 DEF PlaceOK, Sweeps
<1>11. ASSUME NEW b \in Bookings PROVE RowOK(v, b)
  <2>1. RowOK(x, b) /\ x.todo = {}
    BY <1>1, <1>2 DEF PlaceOK
  <2>2. CASE b \in x.pick
    <3>1. v.row[b] = pick(b) /\ v.seen[b] = x.seen[b]
      BY <1>5, <1>9, <2>2
    <3>2. QED
      BY <1>3, <1>4, <1>9, <1>p, <2>1, <2>2, <3>1 DEF RowOK, ChangeOK, Inserts, Labelled
  <2>3. CASE b \notin x.pick
    <3>1. v.row[b] = x.row[b] /\ v.seen[b] = x.seen[b]
      BY <1>5, <1>9, <2>3
    <3>2. QED
      BY <1>1, <1>3, <1>9, <1>p, <2>1, <2>3, <3>1, <1>5 DEF RowOK, ChangeOK, InsertOK, Inserts, Labelled
  <2>4. QED
    BY <2>2, <2>3
<1>12. Follows(x, v)
  BY <1>4, <1>5, <1>9 DEF Follows, Inserts
<1>13. v.alone => AloneOK(v)
  BY <1>2, <1>3, <1>9 DEF AloneOK, Sweeps
<1>14. QED
  BY <1>1, <1>9, <1>10, <1>11, <1>12, <1>13, GoesKeeps DEF InFlight

LEMMA TeachKeeps ==
  ASSUME Inv, NEW s \in Sessions, Teach(s)
  PROVE  Inv'
<1> DEFINE x == work[s]
           newest == CHOOSE b \in x.pick : \A a \in x.pick : a <= b
           value == IF x.hint # None THEN x.hint ELSE Lesson[newest]
           knows == \E r \in rules \cup x.new :
                      \/ r.value = value
                      \/ x.pick # {} /\ r.category = x.category /\ Matches(newest, r)
           rule == [value |-> value, category |-> x.category, priority |-> Learned]
           new == IF value = None \/ knows THEN x.new ELSE x.new \cup {rule}
           v == [x EXCEPT !.pc = "load", !.new = new]
<1>1. x.pc = "teach"
  BY DEF Teach
<1>2. /\ x \in Session /\ PlaceOK(x) /\ \A b \in Bookings : RowOK(x, b)
      /\ x.alone => AloneOK(x)
      /\ \A b \in Bookings : x.row[b] # None => x.row[b] \in Row
  BY <1>1, SessionFacts DEF InFlight
<1>3. Goes(s, v)
  <2>1. v = [x EXCEPT !.pc = "load", !.new = IF value = None \/ knows THEN @ ELSE @ \cup {rule}]
    BY <1>2 DEF Session
  <2>2. QED
    BY <2>1 DEF Teach, VisibleRules
<1>4. x.op = "label" /\ x.category \in Categories /\ x.category # None /\ x.todo = {}
  BY <1>1, <1>2, ClassificationAssumption DEF PlaceOK
<1>5. new \subseteq Rule
  <2>1. x.new \subseteq Rule /\ x.hint \in Phrases \cup {None} /\ x.pick \subseteq Bookings
    BY <1>2 DEF Session
  <2>2. ASSUME value # None PROVE value \in Phrases
    <3>1. CASE x.hint # None
      BY <2>1, <3>1
    <3>2. CASE x.hint = None
      <4>1. x.pick # {} /\ value = Lesson[newest]
        BY <1>2, <1>4, <3>2 DEF PlaceOK
      <4>2. newest \in x.pick
        BY <1>2, <2>1, <4>1, MaxOfBookings
      <4>3. QED
        BY <2>1, <2>2, <4>1, <4>2, ClassificationAssumption
    <3>3. QED
      BY <3>1, <3>2
  <2>3. value # None => rule \in Rule
    BY <1>4, <2>2, ClassificationAssumption DEF Rule, Values
  <2> HIDE DEF rule, knows, value
  <2>4. QED
    BY <2>1, <2>3
<1>6. \A r \in new \ x.new, q \in rules \cup new : q.value = r.value => q = r
  <2>1. rule.value = value
    OBVIOUS
  <2>2. ASSUME NEW r \in new \ x.new PROVE r = rule /\ \A q \in rules \cup x.new : q.value # value
    <3> HIDE DEF rule, value
    <3>1. QED
      BY <2>2
  <2> HIDE DEF rule, knows, value
  <2>3. QED
    BY <2>1, <2>2
<1>7. x.new \subseteq new
  OBVIOUS
<1> HIDE DEF new
<1>8. /\ v \in Session /\ v.op = x.op /\ v.pick = x.pick /\ v.category = x.category /\ v.hint = x.hint
      /\ v.seen = x.seen /\ v.row = x.row /\ v.todo = x.todo /\ v.locked = x.locked
      /\ v.account = x.account /\ v.moved = x.moved /\ v.new = new /\ v.alone = x.alone
      /\ v.pc = "load"
  BY <1>2, <1>5 DEF Session, Places
<1> HIDE DEF v
<1>9. PlaceOK(v)
  BY <1>1, <1>2, <1>4, <1>8 DEF PlaceOK, Sweeps
<1>10. \A b \in Bookings : RowOK(v, b)
  BY <1>1, <1>2, <1>4, <1>8 DEF RowOK, ChangeOK, InsertOK, Inserts, Labelled
<1>11. Follows(x, v)
  BY <1>8 DEF Follows, Inserts
<1>12. v.alone => AloneOK(v)
  <2> SUFFICES ASSUME v.alone PROVE AloneOK(v)
    OBVIOUS
  <2>1. AloneOK(x)
    BY <1>2, <1>8
  <2>2. \A r \in x.new, q \in rules \cup x.new : q.value = r.value => q = r
    BY <1>4, <2>1 DEF AloneOK
  <2>3. \A r \in new, q \in rules \cup new : q.value = r.value => q = r
    BY <1>6, <1>7, <2>2
  <2>4. \A b \in Bookings : v.seen[b] # None => rows[b] = v.seen[b]
    BY <1>8, <2>1 DEF AloneOK
  <2>5. QED
    BY <1>4, <1>8, <2>3, <2>4 DEF AloneOK, Sweeps
<1>13. QED
  BY <1>1, <1>3, <1>8, <1>9, <1>10, <1>11, <1>12, GoesKeeps DEF InFlight

LEMMA ExcludeKeeps ==
  ASSUME Inv, NEW s \in Sessions, Exclude(s)
  PROVE  Inv'
<1> DEFINE x == work[s]
           y == Flushed(x)
           v == [y EXCEPT !.pc = "commit"]
<1>1. x.pc = "exclude" /\ Goes(s, v)
  BY DEF Exclude
<1>2. /\ x \in Session /\ PlaceOK(x) /\ \A b \in Bookings : RowOK(x, b)
      /\ x.alone => AloneOK(x)
  BY <1>1, SessionFacts DEF InFlight
<1>3. x.op = "exclude" /\ x.todo = {} /\ x.new = {} /\ ~x.moved
  BY <1>1, <1>2 DEF PlaceOK
<1>4. /\ y \in Session /\ y.op = x.op /\ y.pick = x.pick /\ y.category = x.category /\ y.hint = x.hint
      /\ y.seen = x.seen /\ y.row = x.row /\ y.todo = x.todo
      /\ y.locked = x.locked \cup {b \in Bookings : x.row[b] # x.seen[b]}
      /\ y.account = x.account /\ y.moved = x.moved /\ y.new = x.new /\ y.alone = x.alone
  BY <1>2, FlushedFields
<1> HIDE DEF y
<1>5. /\ v \in Session /\ v.op = x.op /\ v.pick = x.pick /\ v.category = x.category /\ v.hint = x.hint
      /\ v.seen = x.seen /\ v.row = x.row /\ v.todo = x.todo
      /\ v.locked = x.locked \cup {b \in Bookings : x.row[b] # x.seen[b]}
      /\ v.account = x.account /\ v.moved = x.moved /\ v.new = x.new /\ v.alone = x.alone
      /\ v.pc = "commit"
  BY <1>4 DEF Session, Places
<1> HIDE DEF v
<1>6. PlaceOK(v)
  BY <1>1, <1>2, <1>3, <1>5 DEF PlaceOK, Sweeps
<1>7. \A b \in Bookings : RowOK(v, b)
  BY <1>1, <1>2, <1>3, <1>5 DEF RowOK, ChangeOK, InsertOK, Inserts, Labelled
<1>8. Follows(x, v)
  BY <1>5 DEF Follows, Inserts
<1>9. v.alone => AloneOK(v)
  BY <1>2, <1>3, <1>5 DEF AloneOK, Sweeps
<1>10. QED
  BY <1>1, <1>5, <1>6, <1>7, <1>8, <1>9, GoesKeeps DEF InFlight

LEMMA ClassifyNewKeeps ==
  ASSUME Inv, NEW s \in Sessions, ClassifyNew(s)
  PROVE  Inv'
<1> DEFINE x == work[s]
<1>1. x.pc = "classify new"
  BY DEF ClassifyNew
<1>2. /\ x \in Session /\ PlaceOK(x) /\ \A b \in Bookings : RowOK(x, b)
      /\ x.alone => AloneOK(x)
      /\ rules \cup x.new \in SUBSET Rule
      /\ \A b \in Bookings : x.row[b] # None => x.row[b] \in Row
  BY <1>1, SessionFacts DEF InFlight
<1> DEFINE Given(b) == IF x.category = None THEN Outcomes(b, depot, VisibleRules(s), {}) ELSE {x.category}
<1>b. PICK b \in x.pick : \E c \in Given(b) :
        Goes(s, [x EXCEPT !.row[b].category = c, !.pc = IF x.op = "import" THEN "load" ELSE "commit"])
  BY DEF ClassifyNew
<1>3. PICK c \in Given(b) :
        Goes(s, [x EXCEPT !.row[b].category = c, !.pc = IF x.op = "import" THEN "load" ELSE "commit"])
  BY <1>b
<1> DEFINE z == [x.row[b] EXCEPT !.category = c]
           row == [x.row EXCEPT ![b] = z]
           v == [x EXCEPT !.row = row, !.pc = IF x.op = "import" THEN "load" ELSE "commit"]
<1>4. /\ x.op \in {"add", "import"} /\ x.todo = {} /\ ~x.moved
      /\ (x.op = "add" => x.new = {}) /\ (x.op = "import" => x.category = None) /\ x.pick = {b}
      /\ b \in Bookings /\ x.category \in Categories \cup {None}
  <2>1. x.op \in {"add", "import"} /\ x.todo = {}
    BY <1>1, <1>2 DEF PlaceOK
  <2>2. x.category \in Categories \cup {None}
    BY <1>2 DEF Session
  <2>3. QED
    BY <1>2, <1>3, <2>1, <2>2 DEF PlaceOK
<1>5. x.row[b] # None /\ x.seen[b] = None /\ x.row[b] \in Row /\ RowOK(x, b)
  BY <1>2, <1>4 DEF RowOK, Inserts
<1>6. c \in Values
  <2>1. CASE x.category = None
    <3> DEFINE known == rules \cup x.new
    <3>1. known \in SUBSET Rule /\ b \in Bookings
      BY <1>2, <1>4
    <3>2. c \in Outcomes(b, depot, known, {})
      BY <2>1 DEF VisibleRules
    <3> HIDE DEF known
    <3>3. Outcomes(b, depot, known, {}) \subseteq Values
      BY <3>1, OutcomeShape
    <3>4. QED
      BY <3>2, <3>3
  <2>2. CASE x.category # None
    BY <1>3, <1>4, <2>2 DEF Values
  <2>3. QED
    BY <2>1, <2>2
<1>7. z \in Row /\ z.category = c /\ z.manual = x.row[b].manual /\ z # None
  <2>1. z \in Row
    BY <1>5, <1>6 DEF Row
  <2>2. z.category = c /\ z.manual = x.row[b].manual
    BY <1>5 DEF Row
  <2>3. QED
    BY <2>1, <2>2, RowShape
<1>8. v = [x EXCEPT !.row[b].category = c, !.pc = IF x.op = "import" THEN "load" ELSE "commit"]
  BY <1>2 DEF Session
<1>9. Goes(s, v)
  BY <1>3, <1>8
<1> HIDE DEF z
<1>10. row \in [Bookings -> Row \cup {None}] /\ \A a \in Bookings : row[a] = IF a = b THEN z ELSE x.row[a]
  BY <1>2, <1>4, <1>7 DEF Session
<1>p. Present(row) = Present(x.row)
  BY <1>5, <1>7, <1>10 DEF Present
<1> HIDE DEF row
<1>11. (IF x.op = "import" THEN "load" ELSE "commit") \in Places
  BY DEF Places
<1>12. /\ v \in Session /\ v.op = x.op /\ v.pick = x.pick /\ v.category = x.category /\ v.hint = x.hint
      /\ v.seen = x.seen /\ v.row = row /\ v.todo = x.todo /\ v.locked = x.locked
      /\ v.account = x.account /\ v.moved = x.moved /\ v.new = x.new /\ v.alone = x.alone
      /\ v.pc = IF x.op = "import" THEN "load" ELSE "commit"
  BY <1>2, <1>10, <1>11 DEF Session
<1> HIDE DEF v
<1>13. PlaceOK(v)
  BY <1>1, <1>2, <1>4, <1>12 DEF PlaceOK, Sweeps
<1>14. x.row[b].manual <=> x.op = "add" /\ x.category # None
  BY <1>5 DEF RowOK, Inserts, InsertOK
<1>15. x.category # None => c = x.category
  BY <1>3
<1>16. ASSUME NEW a \in Bookings PROVE RowOK(v, a)
  <2>1. CASE a = b
    <3>1. v.row[a] = z /\ v.seen[a] = None
      BY <1>5, <1>10, <1>12, <2>1
    <3>2. b \in x.locked
      BY <1>5 DEF RowOK, Inserts, InsertOK
    <3>3. QED
      BY <1>4, <1>7, <1>12, <1>14, <1>15, <2>1, <3>1, <3>2 DEF RowOK, InsertOK, Inserts
  <2>2. CASE a # b
    <3>1. v.row[a] = x.row[a] /\ v.seen[a] = x.seen[a] /\ RowOK(x, a)
      BY <1>2, <1>10, <1>12, <2>2
    <3>2. a \notin x.locked \/ x.row[a] # None
      BY <3>1 DEF RowOK
    <3>3. x.seen[a] # None => x.row[a] = x.seen[a] \/ a \in x.locked \/ x.op # "add"
      BY <3>1 DEF RowOK
    <3>4. QED
      BY <1>1, <1>4, <1>12, <1>p, <2>2, <3>1, <3>3 DEF RowOK, ChangeOK, InsertOK, Inserts, Labelled
  <2>3. QED
    BY <2>1, <2>2
<1>17. Follows(x, v)
  BY <1>5, <1>7, <1>10, <1>12 DEF Follows, Inserts
<1>18. v.alone => AloneOK(v)
  <2> SUFFICES ASSUME v.alone PROVE AloneOK(v)
    OBVIOUS
  <2>1. AloneOK(x)
    BY <1>2, <1>12
  <2>2. ASSUME x.op = "add", NEW a \in x.pick, ~v.row[a].manual
        PROVE  Fits(v.row[a].category, a, depot, rules, {})
    <3>1. a = b /\ v.row[a] = z /\ x.category = None
      BY <1>4, <1>7, <1>10, <1>12, <1>14, <2>2
    <3>2. VisibleRules(s) = rules
      BY <1>4, <2>2 DEF VisibleRules
    <3>3. QED
      BY <1>3, <1>7, <3>1, <3>2 DEF Fits
  <2>3. QED
    BY <1>4, <1>12, <2>1, <2>2 DEF AloneOK, Sweeps
<1>19. QED
  BY <1>1, <1>9, <1>12, <1>13, <1>16, <1>17, <1>18, GoesKeeps DEF InFlight

LEMMA LoadKeeps ==
  ASSUME Inv, NEW s \in Sessions, Load(s)
  PROVE  Inv'
<1> DEFINE x == work[s]
           account == IF x.op = "depot" THEN x.account ELSE depot
           v == [x EXCEPT !.account = account, !.pc = "load rows"]
<1>1. x.pc = "load"
  BY DEF Load
<1>2. /\ x \in Session /\ PlaceOK(x) /\ \A b \in Bookings : RowOK(x, b)
      /\ x.alone => AloneOK(x)
  BY <1>1, SessionFacts DEF InFlight
<1>3. Goes(s, v)
  <2>1. v = [x EXCEPT !.account = IF x.op = "depot" THEN @ ELSE depot, !.pc = "load rows"]
    BY <1>2 DEF Session
  <2>2. QED
    BY <2>1 DEF Load
<1>4. Sweeps(x) /\ x.todo = {} /\ account \in Accounts /\ (x.moved => account = x.account)
  BY <1>1, <1>2 DEF PlaceOK, Session, Inv, TypeInv, TypeOK
<1>5. account \in {x.account, depot}
  OBVIOUS
<1>6. x.op # "depot" => account = depot
  OBVIOUS
<1>7. x.op = "depot" => account = x.account
  OBVIOUS
<1> HIDE DEF account
<1>8. /\ v \in Session /\ v.op = x.op /\ v.pick = x.pick /\ v.category = x.category /\ v.hint = x.hint
      /\ v.seen = x.seen /\ v.row = x.row /\ v.todo = x.todo /\ v.locked = x.locked
      /\ v.account = account /\ v.moved = x.moved /\ v.new = x.new /\ v.alone = x.alone
      /\ v.pc = "load rows"
  BY <1>2, <1>4 DEF Session, Places
<1> HIDE DEF v
<1>9. PlaceOK(v)
  BY <1>1, <1>2, <1>4, <1>8 DEF PlaceOK, Sweeps
<1>10. ASSUME NEW b \in Bookings PROVE RowOK(v, b)
  <2>1. RowOK(x, b) /\ x.op # "exclude"
    BY <1>2, <1>4 DEF Sweeps
  <2>2. IsInternal(b, x.account, Present(x.row)) => IsInternal(b, account, Present(x.row))
    BY <1>1, <1>2, <1>7, InternalGrows DEF PlaceOK
  <2>3. QED
    BY <1>1, <1>4, <1>8, <2>1, <2>2 DEF RowOK, ChangeOK, InsertOK, Inserts, Labelled
<1>11. Follows(x, v)
  BY <1>5, <1>8 DEF Follows, Inserts
<1>12. v.alone => AloneOK(v)
  BY <1>2, <1>4, <1>6, <1>7, <1>8, <1>1 DEF AloneOK, Sweeps
<1>13. QED
  BY <1>1, <1>3, <1>8, <1>9, <1>10, <1>11, <1>12, GoesKeeps DEF InFlight

LEMMA LoadRowsKeeps ==
  ASSUME Inv, NEW s \in Sessions, LoadRows(s)
  PROVE  Inv'
<1> DEFINE x == work[s]
           fresh == {b \in Bookings : x.row[b] = None}
           seen == [b \in Bookings |-> IF b \in fresh THEN rows[b] ELSE x.seen[b]]
           row == [b \in Bookings |-> IF b \in fresh THEN rows[b] ELSE x.row[b]]
           v == [x EXCEPT !.seen = seen, !.row = row, !.pc = "learn"]
<1>1. x.pc = "load rows"
  BY DEF LoadRows
<1>2. /\ x \in Session /\ PlaceOK(x) /\ \A b \in Bookings : RowOK(x, b)
      /\ x.alone => AloneOK(x)
  BY <1>1, SessionFacts DEF InFlight
<1>3. Goes(s, v)
  <2>1. v = [x EXCEPT !.seen = [b \in Bookings |-> IF b \in fresh THEN rows[b] ELSE @[b]],
                      !.row = [b \in Bookings |-> IF b \in fresh THEN rows[b] ELSE @[b]],
                      !.pc = "learn"]
    BY <1>2 DEF Session
  <2>2. QED
    BY <2>1 DEF LoadRows
<1>4. Sweeps(x) /\ x.todo = {}
  BY <1>1, <1>2 DEF PlaceOK
<1>5. /\ seen \in [Bookings -> Row \cup {None}] /\ row \in [Bookings -> Row \cup {None}]
      /\ \A b \in Bookings : /\ x.row[b] = None => seen[b] = rows[b] /\ row[b] = rows[b]
                             /\ x.row[b] # None => seen[b] = x.seen[b] /\ row[b] = x.row[b]
  BY <1>2, TypesOfRows DEF Session
<1>p. Present(x.row) \subseteq Present(row)
  BY <1>5 DEF Present
<1> HIDE DEF seen, row
<1>6. /\ v \in Session /\ v.op = x.op /\ v.pick = x.pick /\ v.category = x.category /\ v.hint = x.hint
      /\ v.seen = seen /\ v.row = row /\ v.todo = x.todo /\ v.locked = x.locked
      /\ v.account = x.account /\ v.moved = x.moved /\ v.new = x.new /\ v.alone = x.alone
      /\ v.pc = "learn"
  BY <1>2, <1>5 DEF Session, Places
<1> HIDE DEF v
<1>7. PlaceOK(v)
  BY <1>1, <1>2, <1>4, <1>6 DEF PlaceOK, Sweeps
<1>8. ASSUME NEW b \in Bookings PROVE RowOK(v, b)
  <2>1. RowOK(x, b)
    BY <1>2
  <2>2. CASE x.row[b] = None
    <3>1. /\ v.seen[b] = rows[b] /\ v.row[b] = rows[b] /\ x.seen[b] = None
          /\ b \notin x.locked /\ ~(x.op \in {"set", "label"} /\ b \in x.pick)
          /\ ~(x.op \in {"add", "import"} /\ b \in x.pick) /\ x.op \notin {"add", "rule", "exclude"}
      BY <1>4, <1>5, <1>6, <2>1, <2>2 DEF RowOK, Inserts, Sweeps
    <3>2. rows[b] # None /\ rows[b].manual => rows[b].category # None
      BY TypesOfRows
    <3>3. QED
      BY <1>4, <1>6, <3>1, <3>2 DEF RowOK, ChangeOK, Inserts, Labelled
  <2>3. CASE x.row[b] # None
    <3>1. v.seen[b] = x.seen[b] /\ v.row[b] = x.row[b]
      BY <1>5, <1>6, <2>3
    <3>2. IsInternal(b, x.account, Present(x.row)) => IsInternal(b, v.account, Present(v.row))
      BY <1>6, <1>p, InternalGrows
    <3>3. QED
      BY <1>1, <1>4, <1>6, <2>1, <3>1, <3>2 DEF RowOK, ChangeOK, InsertOK, Inserts, Labelled
  <2>4. QED
    BY <2>2, <2>3
<1>9. Follows(x, v)
  <2>1. ASSUME NEW b \in Bookings
        PROVE  /\ v.seen[b] \in {x.seen[b], rows[b], None}
               /\ v.row[b] # None => x.row[b] # None \/ rows[b] # None
               /\ Inserts(v, b) => Inserts(x, b)
    BY <1>5, <1>6 DEF Inserts
  <2>2. QED
    BY <1>6, <2>1 DEF Follows
<1>10. v.alone => AloneOK(v)
  <2> SUFFICES ASSUME v.alone PROVE AloneOK(v)
    OBVIOUS
  <2>1. AloneOK(x)
    BY <1>2, <1>6
  <2>2. \A b \in Bookings : v.seen[b] # None => rows[b] = v.seen[b]
    BY <1>5, <1>6, <2>1 DEF AloneOK
  <2>3. \A b \in Bookings : rows[b] # None => v.row[b] # None
    BY <1>5, <1>6
  <2>4. QED
    BY <1>1, <1>4, <1>6, <2>1, <2>2, <2>3 DEF AloneOK, Sweeps
<1>11. QED
  BY <1>1, <1>3, <1>6, <1>7, <1>8, <1>9, <1>10, GoesKeeps DEF InFlight

\* Each rule that is learned is a rule.
LEMMA LessonIsRule ==
  ASSUME NEW x \in Session, NEW b \in Bookings, x.row[b] # None, x.row[b].category # None,
         Lesson[b] # None
  PROVE  LessonOf(x, b) \in Rule
<1>1. x.row[b] \in Row
  BY DEF Session
<1>2. x.row[b].category \in Values \ {None}
  BY <1>1, RowShape
<1>3. Lesson[b] \in Phrases
  BY ClassificationAssumption
<1>4. Learned \in Priorities
  BY ClassificationAssumption
<1>5. QED
  BY <1>2, <1>3, <1>4 DEF LessonOf, Rule

LEMMA LearnKeeps ==
  ASSUME Inv, NEW s \in Sessions, Learn(s)
  PROVE  Inv'
<1> DEFINE x == work[s]
           known == rules \cup x.new
           learned == Lessons(x, known)
           new == x.new \cup (learned \ known)
           todo == {b \in Bookings : x.row[b] # None /\ ~x.row[b].manual}
           v == [x EXCEPT !.new = new, !.todo = todo, !.pc = "classify"]
<1>1. x.pc = "learn"
  BY DEF Learn
<1>2. /\ x \in Session /\ PlaceOK(x) /\ \A b \in Bookings : RowOK(x, b)
      /\ x.alone => AloneOK(x)
  BY <1>1, SessionFacts DEF InFlight
<1>3. Goes(s, v)
  <2>1. v = [x EXCEPT !.new = @ \cup (learned \ known), !.todo = todo, !.pc = "classify"]
    BY <1>2 DEF Session
  <2>2. QED
    BY <2>1 DEF Learn, VisibleRules
<1>4. Sweeps(x)
  BY <1>1, <1>2 DEF PlaceOK
<1>5. \A b \in Bookings : x.row[b] # None /\ x.row[b].manual => x.row[b].category # None
  BY <1>2 DEF RowOK
<1>6. /\ known \subseteq learned
      /\ \A r \in learned \ known, q \in learned : q.value = r.value => q = r
      /\ \A r \in learned \ known : \E b \in Bookings :
           x.row[b] # None /\ x.row[b].category # None /\ Lesson[b] # None /\ r = LessonOf(x, b)
  <2> HIDE DEF known, x
  <2>1. QED
    BY <1>5, LessonsLearned
<1> HIDE DEF learned
<1>7. new \in SUBSET Rule
  <2>1. \A r \in learned \ known : r \in Rule
    BY <1>2, <1>6, LessonIsRule
  <2>2. x.new \subseteq Rule
    BY <1>2 DEF Session
  <2>3. QED
    BY <2>1, <2>2
<1>8. todo \in SUBSET Bookings
  OBVIOUS
<1>9. new \subseteq learned /\ rules \subseteq learned /\ new \ x.new \subseteq learned \ known
  BY <1>6
<1>10. \A r \in new \ x.new, q \in rules \cup new : q.value = r.value => q = r
  BY <1>6, <1>9
<1>11. \A r \in x.new, q \in new \ x.new : q.value = r.value => q = r
  BY <1>6, <1>9
<1>12. x.new \subseteq new
  OBVIOUS
<1>13. \A b \in Bookings : b \in todo <=> x.row[b] # None /\ ~x.row[b].manual
  OBVIOUS
<1> HIDE DEF new, todo
<1>14. /\ v \in Session /\ v.op = x.op /\ v.pick = x.pick /\ v.category = x.category /\ v.hint = x.hint
      /\ v.seen = x.seen /\ v.row = x.row /\ v.todo = todo /\ v.locked = x.locked
      /\ v.account = x.account /\ v.moved = x.moved /\ v.new = new /\ v.alone = x.alone
      /\ v.pc = "classify"
  BY <1>2, <1>7, <1>8 DEF Session, Places
<1> HIDE DEF v
<1>15. PlaceOK(v)
  BY <1>1, <1>2, <1>4, <1>14 DEF PlaceOK, Sweeps
<1>16. \A b \in Bookings : RowOK(v, b)
  BY <1>1, <1>2, <1>4, <1>13, <1>14 DEF RowOK, ChangeOK, InsertOK, Inserts, Labelled
<1>17. Follows(x, v)
  BY <1>14 DEF Follows, Inserts
<1>18. v.alone => AloneOK(v)
  <2> SUFFICES ASSUME v.alone PROVE AloneOK(v)
    OBVIOUS
  <2>1. AloneOK(x)
    BY <1>2, <1>14
  <2>2. x.op # "rule"
    BY <1>4 DEF Sweeps
  <2>3. \A r \in x.new, q \in rules \cup x.new : q.value = r.value => q = r
    BY <2>1, <2>2 DEF AloneOK
  <2>4. \A r \in new, q \in rules \cup new : q.value = r.value => q = r
    BY <1>10, <1>11, <1>12, <2>3
  <2>5. \A b \in Bookings \ v.todo : ~(v.row[b] # None /\ ~v.row[b].manual)
    BY <1>13, <1>14
  <2>6. QED
    BY <1>1, <1>4, <1>14, <2>1, <2>2, <2>4, <2>5 DEF AloneOK, Sweeps
<1>19. QED
  BY <1>1, <1>3, <1>14, <1>15, <1>16, <1>17, <1>18, GoesKeeps DEF InFlight

LEMMA ClassifyKeeps ==
  ASSUME Inv, NEW s \in Sessions, NEW b \in Bookings, Classify(s, b)
  PROVE  Inv'
<1> DEFINE x == work[s]
           known == rules \cup x.new
           from == Present(x.row)
           y == IF IsInternal(b, x.account, from) THEN x ELSE Flushed(x)
<1>1. x.pc = "classify" /\ b \in x.todo
  BY DEF Classify
<1>2. /\ x \in Session /\ PlaceOK(x) /\ \A a \in Bookings : RowOK(x, a)
      /\ x.alone => AloneOK(x)
      /\ known \in SUBSET Rule
      /\ \A a \in Bookings : x.row[a] # None => x.row[a] \in Row
  BY <1>1, SessionFacts DEF InFlight
<1> DEFINE changed(c) == Reclassified(x.row[b], b, c, x.account, from)
<1>3. PICK c \in Outcomes(b, x.account, known, from) :
        Goes(s, [y EXCEPT !.row[b] = Reclassified(@, b, c, x.account, from), !.todo = @ \ {b}])
  BY DEF Classify, VisibleRules
<1> DEFINE z == changed(c)
           row == [x.row EXCEPT ![b] = z]
           v == [y EXCEPT !.row = row, !.todo = x.todo \ {b}]
<1>4. Sweeps(x) /\ x.op \notin {"exclude", "add", "rule"}
  BY <1>1, <1>2 DEF PlaceOK, Sweeps
<1>5. x.row[b] # None /\ x.row[b] \in Row /\ ~x.row[b].manual /\ RowOK(x, b)
  BY <1>1, <1>2 DEF RowOK
<1>6. /\ z \in Row /\ z.manual = x.row[b].manual
      /\ z.category = None => x.row[b].category = None
      /\ z.exclude = x.row[b].exclude \/ IsInternal(b, x.account, from)
      /\ Fits(z.category, b, x.account, known, from)
  <2> HIDE DEF known, from, x
  <2>1. QED
    BY <1>2, <1>3, <1>5, ReclassifiedFits
<1>7. z # None
  BY <1>6, RowShape
<1>8. /\ y \in Session /\ y.op = x.op /\ y.pick = x.pick /\ y.category = x.category /\ y.hint = x.hint
      /\ y.seen = x.seen /\ y.row = x.row /\ y.todo = x.todo /\ y.pc = x.pc
      /\ x.locked \subseteq y.locked
      /\ y.locked \subseteq x.locked \cup {a \in Bookings : x.row[a] # x.seen[a]}
      /\ y.account = x.account /\ y.moved = x.moved /\ y.new = x.new /\ y.alone = x.alone
  BY <1>2, FlushedFields
<1> HIDE DEF y
<1>9. Goes(s, v)
  <2>1. v = [y EXCEPT !.row[b] = Reclassified(@, b, c, x.account, from), !.todo = @ \ {b}]
    BY <1>8 DEF Session
  <2>2. QED
    BY <1>3, <2>1
<1> HIDE DEF z
<1>10. /\ row \in [Bookings -> Row \cup {None}]
       /\ row[b] = z /\ \A a \in Bookings \ {b} : row[a] = x.row[a]
  BY <1>2, <1>6 DEF Session
<1>p. Present(row) = from
  BY <1>5, <1>7, <1>10 DEF Present
<1> HIDE DEF row
<1>11. /\ v \in Session /\ v.op = x.op /\ v.pick = x.pick /\ v.category = x.category /\ v.hint = x.hint
      /\ v.seen = x.seen /\ v.row = row /\ v.todo = x.todo \ {b} /\ v.locked = y.locked
      /\ v.account = x.account /\ v.moved = x.moved /\ v.new = x.new /\ v.alone = x.alone
      /\ v.pc = "classify"
  BY <1>1, <1>8, <1>10 DEF Session
<1> HIDE DEF v
<1>12. PlaceOK(v)
  BY <1>1, <1>2, <1>4, <1>11 DEF PlaceOK, Sweeps
<1>13. ASSUME NEW a \in Bookings PROVE RowOK(v, a)
  <2>1. RowOK(x, a) /\ (a \in x.locked => a \in v.locked)
        /\ (a \in v.locked => a \in x.locked \/ x.row[a] # x.seen[a])
    BY <1>2, <1>8, <1>11
  <2>2. CASE a = b
    <3>1. v.row[a] = z /\ v.seen[a] = x.seen[a]
      BY <1>10, <1>11, <2>2
    <3>2. ~Labelled(x, a) \/ x.seen[a] = None
      BY <1>5, <2>2 DEF RowOK, ChangeOK
    <3>3. x.seen[a] # None => ChangeOK(v, a)
      BY <1>1, <1>4, <1>5, <1>6, <1>11, <1>p, <2>2, <3>1, <3>2 DEF RowOK, ChangeOK, Labelled
    <3>4. Inserts(v, a) => InsertOK(v, a)
      BY <1>5, <1>6, <1>11, <2>1, <2>2, <3>1 DEF RowOK, Inserts, InsertOK
    <3>5. QED
      BY <1>4, <1>5, <1>6, <1>7, <1>11, <2>1, <2>2, <3>1, <3>3, <3>4 DEF RowOK, Inserts
  <2>3. CASE a # b
    <3>1. v.row[a] = x.row[a] /\ v.seen[a] = x.seen[a]
      BY <1>10, <1>11, <2>3
    <3>2. QED
      BY <1>1, <1>4, <1>11, <1>p, <2>1, <2>3, <3>1 DEF RowOK, ChangeOK, InsertOK, Inserts, Labelled
  <2>4. QED
    BY <2>2, <2>3
<1>14. Follows(x, v)
  <2>1. ASSUME NEW a \in Bookings
        PROVE  /\ v.seen[a] \in {x.seen[a], rows[a], None}
               /\ v.row[a] # None => x.row[a] # None \/ rows[a] # None
               /\ Inserts(v, a) => Inserts(x, a)
    BY <1>5, <1>10, <1>11 DEF Inserts
  <2>2. QED
    BY <1>11, <2>1 DEF Follows
<1>15. v.alone => AloneOK(v)
  <2> SUFFICES ASSUME v.alone PROVE AloneOK(v)
    OBVIOUS
  <2>1. AloneOK(x)
    BY <1>2, <1>11
  <2>2. \A a \in Bookings : rows[a] # None => v.row[a] # None
    BY <1>1, <1>4, <1>7, <1>10, <1>11, <2>1 DEF AloneOK
  <2>3. \A a \in Bookings \ v.todo : v.row[a] # None /\ ~v.row[a].manual =>
          Fits(v.row[a].category, a, v.account, rules \cup v.new, Present(v.row))
    <3>1. TAKE a \in Bookings \ v.todo
    <3>2. CASE a = b
      BY <1>6, <1>10, <1>11, <1>p, <3>2
    <3>3. CASE a # b
      <4>1. a \in Bookings \ x.todo /\ v.row[a] = x.row[a]
        BY <1>10, <1>11, <3>3
      <4>2. QED
        BY <1>1, <1>4, <1>11, <1>p, <2>1, <4>1 DEF AloneOK
    <3>4. QED
      BY <3>2, <3>3
  <2>4. QED
    BY <1>1, <1>4, <1>11, <2>1, <2>2, <2>3 DEF AloneOK, Sweeps
<1>16. QED
  BY <1>1, <1>9, <1>11, <1>12, <1>13, <1>14, <1>15, GoesKeeps DEF InFlight

LEMMA FinishKeeps ==
  ASSUME Inv, NEW s \in Sessions, Finish(s)
  PROVE  Inv'
<1> DEFINE x == work[s]
           y == Flushed(x)
           v == [y EXCEPT !.pc = "commit"]
<1>1. x.pc = "classify" /\ x.todo = {} /\ Goes(s, v)
  BY DEF Finish
<1>2. /\ x \in Session /\ PlaceOK(x) /\ \A b \in Bookings : RowOK(x, b)
      /\ x.alone => AloneOK(x)
  BY <1>1, SessionFacts DEF InFlight
<1>3. Sweeps(x) /\ x.op \notin {"exclude", "add", "rule"}
  BY <1>1, <1>2 DEF PlaceOK, Sweeps
<1>4. /\ y \in Session /\ y.op = x.op /\ y.pick = x.pick /\ y.category = x.category /\ y.hint = x.hint
      /\ y.seen = x.seen /\ y.row = x.row /\ y.todo = x.todo
      /\ y.locked = x.locked \cup {b \in Bookings : x.row[b] # x.seen[b]}
      /\ y.account = x.account /\ y.moved = x.moved /\ y.new = x.new /\ y.alone = x.alone
  BY <1>2, FlushedFields
<1> HIDE DEF y
<1>5. /\ v \in Session /\ v.op = x.op /\ v.pick = x.pick /\ v.category = x.category /\ v.hint = x.hint
      /\ v.seen = x.seen /\ v.row = x.row /\ v.todo = x.todo
      /\ v.locked = x.locked \cup {b \in Bookings : x.row[b] # x.seen[b]}
      /\ v.account = x.account /\ v.moved = x.moved /\ v.new = x.new /\ v.alone = x.alone
      /\ v.pc = "commit"
  BY <1>4 DEF Session, Places
<1> HIDE DEF v
<1>6. PlaceOK(v)
  BY <1>1, <1>2, <1>3, <1>5 DEF PlaceOK, Sweeps
<1>7. \A b \in Bookings : RowOK(v, b)
  BY <1>1, <1>2, <1>3, <1>5 DEF RowOK, ChangeOK, InsertOK, Inserts, Labelled
<1>8. Follows(x, v)
  BY <1>5 DEF Follows, Inserts
<1>9. v.alone => AloneOK(v)
  BY <1>1, <1>2, <1>3, <1>5 DEF AloneOK, Sweeps
<1>10. QED
  BY <1>1, <1>5, <1>6, <1>7, <1>8, <1>9, GoesKeeps DEF InFlight

LEMMA DoneFields ==
  LET y == [NoWork EXCEPT !.pc = "done"]
  IN  /\ y \in Session /\ PlaceOK(y) /\ \A b \in Bookings : RowOK(y, b)
      /\ y.pc = "done" /\ y.op = "none" /\ y.alone = FALSE /\ y.account = "none" /\ y.moved = FALSE
      /\ \A b \in Bookings : y.seen[b] = None /\ y.row[b] = None
<1> DEFINE y == [NoWork EXCEPT !.pc = "done"]
<1>1. NoRows \in [Bookings -> Row \cup {None}] /\ \A a \in Bookings : NoRows[a] = None
  BY DEF NoRows
<1>2. /\ y.pc = "done" /\ y.op = "none" /\ y.pick = {} /\ y.category = None /\ y.hint = None
      /\ y.seen = NoRows /\ y.row = NoRows /\ y.locked = {} /\ y.todo = {}
      /\ y.account = "none" /\ y.moved = FALSE /\ y.new = {} /\ y.alone = FALSE
      /\ y \in Session
  BY <1>1 DEF NoWork, Session, Places, Accounts
<1> HIDE DEF y
<1>3. PlaceOK(y)
  BY <1>2 DEF PlaceOK, Fresh, Sweeps
<1>4. \A b \in Bookings : RowOK(y, b)
  BY <1>1, <1>2 DEF RowOK, ChangeOK, Inserts, Labelled
<1>5. QED
  BY <1>1, <1>2, <1>3, <1>4 DEF y

LEMMA FailKeeps ==
  ASSUME Inv, NEW s \in Sessions, Fail(s)
  PROVE  Inv'
<1> DEFINE v == [NoWork EXCEPT !.pc = "done"]
<1>1. InFlight(s) /\ Goes(s, v)
  BY DEF Fail
<1>2. /\ v \in Session /\ PlaceOK(v) /\ \A b \in Bookings : RowOK(v, b)
      /\ v.pc = "done" /\ v.op = "none" /\ v.alone = FALSE /\ v.account = "none" /\ v.moved = FALSE
      /\ \A b \in Bookings : v.seen[b] = None /\ v.row[b] = None
  BY DoneFields
<1> HIDE DEF v
<1>3. Follows(work[s], v)
  BY <1>2 DEF Follows, Inserts
<1>4. QED
  BY <1>1, <1>2, <1>3, GoesKeeps

-----------------------------------------------------------------------------
(* Sessions commit *)

\* An UPDATE sets the columns that differ from what was loaded.
Merges(w, b, y) ==
  /\ rows[b] # None /\ w.seen[b] # None /\ w.row[b] # None
  /\ y.category = IF w.row[b].category # w.seen[b].category THEN w.row[b].category ELSE rows[b].category
  /\ y.manual = IF w.row[b].manual # w.seen[b].manual THEN w.row[b].manual ELSE rows[b].manual
  /\ y.exclude = IF w.row[b].exclude # w.seen[b].exclude THEN w.row[b].exclude ELSE rows[b].exclude

LEMMA WrittenMerges ==
  ASSUME NEW w, NEW b \in Bookings, b \in w.locked,
         rows[b] \in Row, w.row[b] \in Row, w.seen[b] \in Row
  PROVE  Written(w, b) \in Row /\ Merges(w, b, Written(w, b))
<1> DEFINE y == [f \in DOMAIN rows[b] |->
                   IF w.row[b][f] # w.seen[b][f] THEN w.row[b][f] ELSE rows[b][f]]
<1>1. w.seen[b] # None /\ rows[b] # None /\ w.row[b] # None
  BY RowShape
<1>2. Written(w, b) = y
  BY <1>1 DEF Written
<1>3. y \in Row
  BY DEF Row
<1>4. /\ y.category = IF w.row[b].category # w.seen[b].category THEN w.row[b].category ELSE rows[b].category
      /\ y.manual = IF w.row[b].manual # w.seen[b].manual THEN w.row[b].manual ELSE rows[b].manual
      /\ y.exclude = IF w.row[b].exclude # w.seen[b].exclude THEN w.row[b].exclude ELSE rows[b].exclude
  BY DEF Row
<1>5. QED
  BY <1>1, <1>2, <1>3, <1>4 DEF Merges

LEMMA WrittenWays ==
  ASSUME Inv, NEW s \in Sessions, work[s].pc = "commit", NEW b \in Bookings
  PROVE  LET y == Written(work[s], b)
         IN  /\ y \in Row \cup {None}
             /\ \/ b \notin work[s].locked /\ y = rows[b]
                \/ Inserts(work[s], b) /\ rows[b] = None /\ y = work[s].row[b] /\ b \in work[s].pick
                \/ y \in Row /\ Merges(work[s], b, y)
<1> DEFINE x == work[s]
<1>1. x \in Session /\ RowOK(x, b) /\ (x.seen[b] # None => rows[b] # None)
  BY SessionFacts DEF Inv, TypeInv
<1>2. rows[b] \in Row \cup {None}
  BY TypesOfRows
<1>3. CASE b \notin x.locked
  BY <1>2, <1>3 DEF Written
<1>4. CASE b \in x.locked /\ x.seen[b] = None
  <2>1. Inserts(x, b)
    BY <1>1, <1>4 DEF RowOK, Inserts
  <2>2. rows[b] = None
    BY <2>1 DEF Inv, InsertInv
  <2>3. Written(x, b) = x.row[b] /\ x.row[b] \in Row \cup {None}
    BY <1>1, <1>4 DEF Written, Session
  <2>4. b \in x.pick
    BY <1>1, <2>1 DEF RowOK, InsertOK
  <2>5. QED
    BY <2>1, <2>2, <2>3, <2>4
<1>5. CASE b \in x.locked /\ x.seen[b] # None
  <2>1. x.seen[b] \in Row /\ rows[b] \in Row
    BY <1>1, <1>2, <1>5 DEF Session
  <2>2. x.row[b] # None /\ x.row[b] \in Row
    BY <1>1, <1>5 DEF RowOK, Session
  <2>3. QED
    BY <1>5, <2>1, <2>2, WrittenMerges
<1>6. QED
  BY <1>3, <1>4, <1>5

LEMMA CommitSteps ==
  ASSUME Inv, NEW s \in Sessions, Commit(s)
  PROVE  /\ work[s].pc = "commit"
         /\ rows' = [b \in Bookings |-> Written(work[s], b)]
         /\ rules' = rules \cup work[s].new
         /\ depot' = IF work[s].moved THEN work[s].account ELSE depot
         /\ work'[s] = [NoWork EXCEPT !.pc = "done"]
         /\ work' \in [Sessions -> Session] /\ \A t \in Sessions \ {s} : work'[t] = work[t]
         /\ choice' = [b \in Bookings |->
              IF Chooses(work[s]) /\ b \in work[s].pick THEN work[s].category ELSE choice[b]]
         /\ raced' = raced \cup {b \in Bookings :
              /\ rows[b] # None /\ [rows'[b] EXCEPT !.exclude = rows[b].exclude] # rows[b]
              /\ \E t \in Others(s) : Sweeps(work[t]) /\ work[t].seen[b] # None}
         /\ settled' = IF Sweeps(work[s]) THEN work[s].alone
                       ELSE settled /\ (work[s].op = "exclude" \/ (work[s].op = "add" /\ work[s].alone))
         /\ swept' = IF Sweeps(work[s]) THEN Present(work[s].row) ELSE swept
<1>1. work \in [Sessions -> Session]
  BY DEF Inv, TypeInv, TypeOK
<1>2. [NoWork EXCEPT !.pc = "done"] \in Session
  BY DoneFields
<1>3. work' = [work EXCEPT ![s] = [NoWork EXCEPT !.pc = "done"]]
  BY DEF Commit
<1>4. /\ work'[s] = [NoWork EXCEPT !.pc = "done"]
      /\ work' \in [Sessions -> Session] /\ \A t \in Sessions \ {s} : work'[t] = work[t]
  BY <1>1, <1>2, <1>3
<1>5. /\ work[s].pc = "commit"
      /\ rows' = [b \in Bookings |-> Written(work[s], b)]
      /\ rules' = rules \cup work[s].new
      /\ depot' = IF work[s].moved THEN work[s].account ELSE depot
      /\ choice' = [b \in Bookings |->
           IF Chooses(work[s]) /\ b \in work[s].pick THEN work[s].category ELSE choice[b]]
  BY DEF Commit
<1>6. /\ raced' = raced \cup {b \in Bookings :
           /\ rows[b] # None /\ [rows'[b] EXCEPT !.exclude = rows[b].exclude] # rows[b]
           /\ \E t \in Others(s) : Sweeps(work[t]) /\ work[t].seen[b] # None}
  BY DEF Commit
<1>7. /\ settled' = IF Sweeps(work[s]) THEN work[s].alone
                    ELSE settled /\ (work[s].op = "exclude" \/ (work[s].op = "add" /\ work[s].alone))
      /\ swept' = IF Sweeps(work[s]) THEN Present(work[s].row) ELSE swept
  BY DEF Commit
<1>8. QED
  BY <1>4, <1>5, <1>6, <1>7

\* What a commit makes of one row.
LEMMA CommitRows ==
  ASSUME Inv, NEW s \in Sessions, Commit(s), NEW b \in Bookings
  PROVE  /\ rows'[b] \in Row \cup {None}
         /\ rows[b] # None => rows'[b] # None
         /\ rows[b] # None /\ rows'[b].category = None => rows[b].category = None
         /\ rows'[b] # None /\ rows'[b].manual => rows'[b].category # None
         /\ \/ b \notin work[s].locked /\ rows'[b] = rows[b]
            \/ Inserts(work[s], b) /\ rows[b] = None /\ rows'[b] = work[s].row[b] /\ b \in work[s].pick
            \/ rows'[b] # None /\ Merges(work[s], b, rows'[b])
<1> DEFINE x == work[s]
<1>1. rows'[b] = Written(x, b) /\ x.pc = "commit"
  BY CommitSteps
<1>2. /\ rows'[b] \in Row \cup {None}
      /\ \/ b \notin x.locked /\ rows'[b] = rows[b]
         \/ Inserts(x, b) /\ rows[b] = None /\ rows'[b] = x.row[b] /\ b \in x.pick
         \/ rows'[b] \in Row /\ Merges(x, b, rows'[b])
  BY <1>1, WrittenWays
<1>3. RowOK(x, b)
  BY SessionFacts
<1>4. rows[b] # None /\ rows[b].manual => rows[b].category # None
  BY TypesOfRows
<1>5. x.seen[b] # None /\ rows[b].category = None => x.seen[b].category = None
  BY DEF Inv, CategoryInv
<1>6. CASE b \notin x.locked /\ rows'[b] = rows[b]
  BY <1>2, <1>4, <1>6
<1>7. CASE Inserts(x, b) /\ rows[b] = None /\ rows'[b] = x.row[b] /\ b \in x.pick
  BY <1>2, <1>3, <1>7 DEF RowOK
<1>8. CASE rows'[b] \in Row /\ Merges(x, b, rows'[b])
  <2>1. rows'[b] # None
    BY <1>8, RowShape
  <2>2. x.row[b].category = None => x.seen[b].category = None
    BY <1>3, <1>8 DEF RowOK, ChangeOK, Merges
  <2>3. x.row[b].manual => x.row[b].category # None
    BY <1>3, <1>8 DEF RowOK, Merges
  <2>4. rows'[b].category = None => rows[b].category = None
    BY <1>8, <2>2 DEF Merges
  <2>5. rows'[b].manual => rows'[b].category # None
    <3>1. CASE x.row[b].manual # x.seen[b].manual
      BY <1>5, <1>8, <2>3, <3>1 DEF Merges
    <3>2. CASE x.row[b].manual = x.seen[b].manual
      BY <1>4, <1>8, <2>4, <3>2 DEF Merges
    <3>3. QED
      BY <3>1, <3>2
  <2>6. QED
    BY <1>8, <2>1, <2>4, <2>5
<1>9. QED
  BY <1>2, <1>6, <1>7, <1>8

\* What the session has loaded or inserted is there after its commit.
LEMMA CommitShows ==
  ASSUME Inv, NEW s \in Sessions, Commit(s)
  PROVE  Present(work[s].row) \subseteq Present(rows')
<1> SUFFICES ASSUME NEW b \in Bookings, work[s].row[b] # None PROVE rows'[b] # None
  BY DEF Present
<1> DEFINE x == work[s]
<1>1. RowOK(x, b) /\ (x.seen[b] # None => rows[b] # None)
  BY SessionFacts DEF Inv, TypeInv
<1>2. CASE x.seen[b] # None
  BY <1>1, <1>2, CommitRows
<1>3. CASE x.seen[b] = None
  BY <1>1, <1>3, CommitRows DEF RowOK, Inserts, InsertOK
<1>4. QED
  BY <1>2, <1>3

LEMMA CommitKeeps ==
  ASSUME Inv, NEW s \in Sessions, Commit(s)
  PROVE  Inv'
<1> DEFINE x == work[s]
           done == [NoWork EXCEPT !.pc = "done"]
<1>1. /\ x.pc = "commit" /\ x \in Session /\ PlaceOK(x) /\ \A b \in Bookings : RowOK(x, b)
      /\ x.alone => AloneOK(x)
      /\ rules \cup x.new \in SUBSET Rule /\ InFlight(s)
  BY SessionFacts, CommitSteps DEF InFlight
<1>2. /\ work'[s] = done /\ work' \in [Sessions -> Session]
      /\ \A t \in Sessions \ {s} : work'[t] = work[t]
  BY CommitSteps
<1>3. /\ done \in Session /\ PlaceOK(done) /\ \A b \in Bookings : RowOK(done, b)
      /\ done.pc = "done" /\ done.op = "none" /\ done.alone = FALSE /\ done.account = "none"
      /\ done.moved = FALSE
      /\ \A b \in Bookings : done.seen[b] = None /\ done.row[b] = None
  BY DoneFields
<1> HIDE DEF done
<1>4. /\ rules' = rules \cup x.new
      /\ depot' = IF x.moved THEN x.account ELSE depot
      /\ settled' = IF Sweeps(x) THEN x.alone
                    ELSE settled /\ (x.op = "exclude" \/ (x.op = "add" /\ x.alone))
      /\ swept' = IF Sweeps(x) THEN Present(x.row) ELSE swept
  BY CommitSteps
<1>5. /\ raced' = raced \cup {b \in Bookings :
           /\ rows[b] # None /\ [rows'[b] EXCEPT !.exclude = rows[b].exclude] # rows[b]
           /\ \E t \in Others(s) : Sweeps(work[t]) /\ work[t].seen[b] # None}
      /\ choice' = [b \in Bookings |->
              IF Chooses(x) /\ b \in x.pick THEN x.category ELSE choice[b]]
  BY CommitSteps
<1>6. ASSUME NEW b \in Bookings
      PROVE  /\ rows'[b] \in Row \cup {None}
             /\ rows[b] # None => rows'[b] # None
             /\ rows[b] # None /\ rows'[b].category = None => rows[b].category = None
             /\ rows'[b] # None /\ rows'[b].manual => rows'[b].category # None
             /\ \/ b \notin x.locked /\ rows'[b] = rows[b]
                \/ Inserts(x, b) /\ rows[b] = None /\ rows'[b] = x.row[b] /\ b \in x.pick
                \/ rows'[b] # None /\ Merges(x, b, rows'[b])
  BY CommitRows
<1>7. x.moved => x.op = "depot" /\ x.account # "none"
  BY <1>1 DEF PlaceOK
<1>8. TypeOK'
  <2>1. rows' \in [Bookings -> Row \cup {None}]
    BY <1>6, CommitSteps
  <2>2. rules' \subseteq Rule
    BY <1>1, <1>4
  <2>3. depot' \in Accounts
    BY <1>1, <1>4 DEF Session, Inv, TypeInv, TypeOK
  <2>4. choice' \in [Bookings -> Categories \cup {None}]
    <3>1. x.category \in Categories \cup {None} /\ choice \in [Bookings -> Categories \cup {None}]
      BY <1>1 DEF Session, Inv, TypeInv, TypeOK
    <3>2. QED
      BY <1>5, <3>1
  <2>5. raced' \subseteq Bookings
    BY <1>5 DEF Inv, TypeInv, TypeOK
  <2>6. settled' \in BOOLEAN
    <3>1. x.alone \in BOOLEAN /\ settled \in BOOLEAN
      BY <1>1 DEF Session, Inv, TypeInv, TypeOK
    <3>2. (settled /\ (x.op = "exclude" \/ (x.op = "add" /\ x.alone))) \in BOOLEAN
      OBVIOUS
    <3>3. QED
      BY <1>4, <3>1, <3>2
  <2>7. swept' \subseteq Bookings
    BY <1>4 DEF Present, Inv, TypeInv, TypeOK
  <2>8. QED
    BY <1>2, <2>1, <2>2, <2>3, <2>4, <2>5, <2>6, <2>7 DEF TypeOK
<1>9. TypeInv'
  <2>1. \A t \in Sessions : PlaceOK(work[t])'
    <3>1. TAKE t \in Sessions
    <3>2. PlaceOK(work'[t])
      BY <1>2, <1>3 DEF Inv, TypeInv
    <3>3. QED
      BY <3>2 DEF PlaceOK, Fresh
  <2>2. \A t \in Sessions, b \in Bookings :
          RowOK(work'[t], b) /\ (work'[t].seen[b] # None => rows'[b] # None)
    <3>1. TAKE t \in Sessions, b \in Bookings
    <3>2. CASE t = s
      BY <1>2, <1>3, <3>2
    <3>3. CASE t # s
      BY <1>2, <1>6, <3>3 DEF Inv, TypeInv
    <3>4. QED
      BY <3>2, <3>3
  <2>3. \A t \in Sessions, b \in Bookings :
          RowOK(work[t], b)' /\ (work'[t].seen[b] # None => rows'[b] # None)
    BY <2>2 DEF RowOK, ChangeOK, InsertOK, Inserts, Labelled
  <2>4. QED
    BY <1>8, <2>1, <2>3 DEF TypeInv
<1>10. CategoryInv'
  <2>1. ASSUME NEW t \in Sessions, NEW b \in Bookings,
               work'[t].seen[b] # None, rows'[b].category = None
        PROVE  work'[t].seen[b].category = None
    <3>1. t # s /\ work'[t] = work[t]
      BY <1>2, <1>3, <2>1
    <3>2. rows[b] # None
      BY <2>1, <3>1 DEF Inv, TypeInv
    <3>3. QED
      BY <1>6, <2>1, <3>1, <3>2 DEF Inv, CategoryInv
  <2>2. QED
    BY <1>6, <2>1 DEF CategoryInv
<1>11. SeenInv'
  <2>1. ASSUME NEW t \in Sessions, NEW b \in Bookings \ raced',
               Sweeps(work'[t]), work'[t].seen[b] # None
        PROVE  /\ work'[t].seen[b].category = rows'[b].category
               /\ work'[t].seen[b].manual = rows'[b].manual
    <3>1. t # s /\ work'[t] = work[t]
      BY <1>2, <1>3, <2>1
    <3>2. InFlight(t)
      BY <2>1, <3>1, SweepsFly DEF InFlight, Inv, TypeInv
    <3>3. t \in Others(s)
      BY <3>1, <3>2 DEF Others
    <3>4. rows[b] # None /\ b \notin raced
      BY <1>5, <2>1, <3>1 DEF Inv, TypeInv
    <3>5. [rows'[b] EXCEPT !.exclude = rows[b].exclude] = rows[b]
      BY <1>5, <2>1, <3>1, <3>3, <3>4
    <3>6. rows'[b] \in Row
      BY <1>6, <3>4
    <3>7. rows'[b].category = rows[b].category /\ rows'[b].manual = rows[b].manual
      BY <3>5, <3>6 DEF Row
    <3>8. QED
      BY <2>1, <3>1, <3>4, <3>7 DEF Inv, SeenInv
  <2>2. QED
    BY <2>1 DEF SeenInv, Sweeps
<1>12. InsertInv'
  <2>1. ASSUME NEW t \in Sessions, NEW b \in Bookings, Inserts(work'[t], b)
        PROVE  rows'[b] = None /\ \A u \in Sessions \ {t} : work'[u].row[b] = None
    <3>1. t # s /\ work'[t] = work[t]
      BY <1>2, <1>3, <2>1 DEF Inserts
    <3>2. rows[b] = None /\ \A u \in Sessions \ {t} : work[u].row[b] = None
      BY <2>1, <3>1 DEF Inv, InsertInv
    <3>3. x.row[b] = None
      BY <3>1, <3>2
    <3>4. rows'[b] = None
      BY <1>6, <3>2, <3>3 DEF Inserts, Merges
    <3>5. QED
      BY <1>2, <1>3, <3>2, <3>4
  <2>2. QED
    BY <2>1 DEF InsertInv, Inserts
<1>13. AccountInv'
  <2>1. depot # "none" => depot' # "none"
    BY <1>4, <1>7
  <2>2. QED
    BY <1>2, <1>3, <2>1 DEF Inv, AccountInv
<1>14. AloneInv'
  <2>1. ASSUME NEW t \in Sessions, work'[t].alone, work'[t].pc \notin {"idle", "done"} PROVE FALSE
    <3>1. t # s /\ work'[t] = work[t]
      BY <1>2, <1>3, <2>1
    <3>2. work[t].alone /\ InFlight(t)
      BY <2>1, <3>1 DEF InFlight
    <3>3. s \in Others(t)
      BY <1>1, <3>1 DEF Others
    <3>4. QED
      BY <3>2, <3>3 DEF Inv, AloneInv
  <2>2. QED
    BY <2>1 DEF AloneInv, InFlight
<1>15. ManualChoiceStays'
  <2>1. ASSUME NEW b \in Bookings \ raced', rows'[b] # None, rows'[b].manual
        PROVE  rows'[b].category = choice'[b]
    <3>1. b \in Bookings /\ b \notin raced /\ RowOK(x, b)
      BY <1>1, <1>5, <2>1
    <3>2. rows[b] # None /\ rows[b].manual => rows[b].category = choice[b]
      BY <3>1 DEF Inv, ManualChoiceStays
    <3>3. choice'[b] = IF Chooses(x) /\ b \in x.pick THEN x.category ELSE choice[b]
      BY <1>5, <3>1
    <3>4. Sweeps(x) /\ x.seen[b] # None =>
            x.seen[b].category = rows[b].category /\ x.seen[b].manual = rows[b].manual
      BY <3>1 DEF Inv, SeenInv
    <3>5. CASE Chooses(x) /\ b \in x.pick
      <4>1. CASE x.op = "add"
        <5>1. Inserts(x, b) /\ b \in x.locked /\ (x.row[b].manual => x.row[b].category = x.category)
          BY <3>1, <3>5, <4>1 DEF RowOK, InsertOK
        <5>2. rows'[b] = x.row[b]
          BY <1>6, <5>1 DEF Inserts, Merges
        <5>3. QED
          BY <2>1, <3>3, <3>5, <5>1, <5>2
      <4>2. CASE x.op # "add"
        <5>1. x.op \in {"set", "label"} /\ Labelled(x, b) /\ Sweeps(x) /\ x.seen[b] # None
          BY <1>1, <3>1, <3>5, <4>2 DEF Chooses, Labelled, Sweeps, RowOK
        <5>2. /\ x.row[b] # None /\ x.row[b].manual /\ x.row[b].category = x.category
              /\ b \in x.locked \/ x.row[b] = x.seen[b]
          BY <1>1, <3>1, <5>1 DEF RowOK, ChangeOK
        <5>3. CASE b \notin x.locked /\ rows'[b] = rows[b]
          BY <3>3, <3>4, <3>5, <5>1, <5>2, <5>3
        <5>4. CASE Merges(x, b, rows'[b])
          BY <3>3, <3>4, <3>5, <5>1, <5>2, <5>4 DEF Merges
        <5>5. QED
          BY <1>6, <3>1, <5>1, <5>3, <5>4 DEF Inserts
      <4>3. QED
        BY <4>1, <4>2
    <3>6. CASE ~(Chooses(x) /\ b \in x.pick)
      <4>1. CASE b \notin x.locked /\ rows'[b] = rows[b]
        BY <2>1, <3>2, <3>3, <3>6, <4>1
      <4>2. CASE Inserts(x, b) /\ rows[b] = None /\ rows'[b] = x.row[b] /\ b \in x.pick
        BY <2>1, <3>1, <3>6, <4>2 DEF RowOK, InsertOK, Chooses
      <4>3. CASE Merges(x, b, rows'[b])
        <5>1. /\ rows[b] # None /\ x.seen[b] # None /\ x.row[b] # None
              /\ x.op \notin {"add", "rule", "none"} /\ ~Labelled(x, b)
          BY <1>1, <3>1, <3>6, <4>3 DEF Merges, RowOK, Labelled, Chooses, PlaceOK
        <5>2. /\ x.row[b].manual = x.seen[b].manual
              /\ x.row[b].manual => x.row[b].category = x.seen[b].category
              /\ x.op = "exclude" => x.row[b].category = x.seen[b].category
          BY <3>1, <5>1 DEF RowOK, ChangeOK
        <5>3. x.op # "exclude" => Sweeps(x)
          BY <1>1, <5>1 DEF Sweeps, Session
        <5>4. rows'[b].manual = rows[b].manual
          BY <4>3, <5>2 DEF Merges
        <5>5. rows'[b].category = rows[b].category
          BY <2>1, <3>4, <4>3, <5>1, <5>2, <5>3, <5>4 DEF Merges
        <5>6. QED
          BY <2>1, <3>2, <3>3, <3>6, <5>1, <5>4, <5>5
      <4>4. QED
        BY <1>6, <3>1, <4>1, <4>2, <4>3
    <3>7. QED
      BY <3>5, <3>6
  <2>2. QED
    BY <2>1 DEF ManualChoiceStays
<1>16. CategoriesFollowRules'
  <2>1. ASSUME settled', NEW b \in Bookings, rows'[b] # None, ~rows'[b].manual
        PROVE  Fits(rows'[b].category, b, depot', rules', IF b \in swept' THEN swept' ELSE {})
    <3>1. RowOK(x, b)
      BY <1>1
    <3>2. CASE Sweeps(x)
      <4>1. x.alone /\ AloneOK(x) /\ b \in Bookings \ x.todo
        BY <1>1, <1>4, <2>1, <3>2 DEF PlaceOK
      <4>2. depot' = x.account
        BY <1>1, <1>4, <3>2, <4>1 DEF AloneOK
      <4>3. /\ x.seen[b] # None => rows[b] = x.seen[b]
            /\ rows[b] # None => x.row[b] # None
            /\ x.row[b] # None /\ ~x.row[b].manual =>
                 Fits(x.row[b].category, b, x.account, rules \cup x.new, Present(x.row))
        BY <1>1, <3>2, <4>1 DEF AloneOK
      <4>4. x.row[b] # None /\ rows'[b].category = x.row[b].category /\ rows'[b].manual = x.row[b].manual
        <5>1. CASE b \notin x.locked /\ rows'[b] = rows[b]
          BY <1>1, <2>1, <3>1, <4>3, <5>1 DEF RowOK, ChangeOK, InsertOK, Inserts
        <5>2. CASE Inserts(x, b) /\ rows[b] = None /\ rows'[b] = x.row[b] /\ b \in x.pick
          BY <5>2 DEF Inserts
        <5>3. CASE Merges(x, b, rows'[b])
          BY <4>3, <5>3 DEF Merges
        <5>4. QED
          BY <1>6, <5>1, <5>2, <5>3
      <4>5. swept' = Present(x.row) /\ b \in swept'
        BY <1>4, <3>2, <4>4 DEF Present
      <4>6. QED
        BY <1>4, <2>1, <4>2, <4>3, <4>4, <4>5
    <3>3. CASE x.op = "exclude"
      <4>1. settled /\ depot' = depot /\ rules' = rules /\ swept' = swept
        BY <1>1, <1>4, <1>7, <2>1, <3>3 DEF PlaceOK, Sweeps
      <4>2. rows[b] # None /\ rows'[b].category = rows[b].category /\ rows'[b].manual = rows[b].manual
        <5>1. CASE Inserts(x, b)
          BY <3>1, <3>3, <5>1 DEF RowOK, InsertOK
        <5>2. CASE Merges(x, b, rows'[b])
          <6>1. x.row[b].category = x.seen[b].category /\ x.row[b].manual = x.seen[b].manual
            BY <3>1, <3>3, <5>2 DEF Merges, RowOK, ChangeOK, Labelled
          <6>2. QED
            BY <5>2, <6>1 DEF Merges
        <5>3. QED
          BY <1>6, <2>1, <5>1, <5>2
      <4>3. QED
        BY <2>1, <4>1, <4>2 DEF Inv, CategoriesFollowRules, Fits
    <3>4. CASE x.op = "add"
      <4>1. settled /\ depot' = depot /\ rules' = rules /\ swept' = swept /\ AloneOK(x)
        BY <1>1, <1>4, <1>7, <2>1, <3>4 DEF PlaceOK, Sweeps
      <4>2. CASE Inserts(x, b) /\ rows'[b] = x.row[b] /\ b \in x.pick
        <5>1. Fits(rows'[b].category, b, depot, rules, {})
          BY <1>1, <2>1, <3>4, <4>1, <4>2 DEF AloneOK
        <5>2. b \notin swept
          BY <4>2 DEF Inv, InsertInv, SweptInv, Present
        <5>3. QED
          BY <4>1, <5>1, <5>2
      <4>3. CASE b \notin x.locked /\ rows'[b] = rows[b]
        BY <2>1, <4>1, <4>3 DEF Inv, CategoriesFollowRules, Fits
      <4>4. ~Merges(x, b, rows'[b])
        BY <3>1, <3>4 DEF RowOK, Merges
      <4>5. QED
        BY <1>6, <4>2, <4>3, <4>4
    <3>5. Sweeps(x) \/ x.op \in {"exclude", "add"}
      BY <1>4, <2>1
    <3>6. QED
      BY <3>2, <3>3, <3>4, <3>5
  <2>2. QED
    BY <2>1 DEF CategoriesFollowRules, Fits
<1>17. SweptInv'
  <2>1. Present(x.row) \subseteq Present(rows') /\ Present(rows) \subseteq Present(rows')
    BY <1>6, CommitShows DEF Present
  <2>2. QED
    BY <1>4, <2>1 DEF SweptInv, Inv
<1>18. QED
  BY <1>9, <1>10, <1>11, <1>12, <1>13, <1>14, <1>15, <1>16, <1>17 DEF Inv

-----------------------------------------------------------------------------
(* All steps *)

LEMMA NextKeeps ==
  ASSUME Inv, [Next]_vars
  PROVE  Inv'
<1>1. CASE vars' = vars
  <2>1. /\ rows' = rows /\ rules' = rules /\ depot' = depot /\ work' = work
        /\ choice' = choice /\ raced' = raced /\ settled' = settled /\ swept' = swept
    BY <1>1 DEF vars
  <2>2. TypeInv'
    <3>1. TypeOK'
      BY <2>1 DEF Inv, TypeInv, TypeOK
    <3>2. \A s \in Sessions : PlaceOK(work[s])'
      BY <2>1 DEF Inv, TypeInv, PlaceOK, Fresh
    <3>3. \A s \in Sessions, b \in Bookings :
            RowOK(work'[s], b) /\ (work'[s].seen[b] # None => rows'[b] # None)
      BY <2>1 DEF Inv, TypeInv
    <3>4. \A s \in Sessions, b \in Bookings :
            RowOK(work[s], b)' /\ (work'[s].seen[b] # None => rows'[b] # None)
      BY <3>3 DEF RowOK, ChangeOK, InsertOK, Inserts, Labelled
    <3>5. QED
      BY <3>1, <3>2, <3>4 DEF TypeInv
  <2>3. CategoryInv' /\ SeenInv' /\ InsertInv' /\ AccountInv'
    BY <2>1 DEF Inv, CategoryInv, SeenInv, InsertInv, AccountInv, Inserts, Sweeps
  <2>4. AloneInv'
    BY <2>1 DEF Inv, AloneInv, AloneOK, Fits, Others, InFlight, Sweeps
  <2>5. ManualChoiceStays' /\ CategoriesFollowRules' /\ SweptInv'
    BY <2>1 DEF Inv, ManualChoiceStays, CategoriesFollowRules, SweptInv
  <2>6. QED
    BY <2>2, <2>3, <2>4, <2>5 DEF Inv
<1>2. CASE Next
  <2>1. PICK s \in Sessions :
    \/ \E b \in Bookings :
         \/ \E c \in Categories : SetCategory(s, b, c)
         \/ \E x \in BOOLEAN : SetExclude(s, b, x)
         \/ \E c \in Categories \cup {None}, op \in {"add", "import"} : AddTransaction(s, b, c, op)
         \/ Classify(s, b)
    \/ \E B \in SUBSET Bookings, c \in Categories, h \in Phrases \cup {None} :
         LabelTransactions(s, B, c, h)
    \/ \E r \in Rule : CreateRule(s, r)
    \/ \E a \in Accounts \ {"none"} : SetDepot(s, a)
    \/ Reclassify(s) \/ Label(s) \/ Teach(s) \/ Exclude(s) \/ ClassifyNew(s) \/ Load(s)
    \/ LoadRows(s) \/ Learn(s) \/ Finish(s) \/ Commit(s) \/ Fail(s)
    BY <1>2 DEF Next
  <2>2. CASE \E b \in Bookings, c \in Categories : SetCategory(s, b, c)
    BY <2>2, SetCategoryKeeps
  <2>3. CASE \E b \in Bookings, x \in BOOLEAN : SetExclude(s, b, x)
    BY <2>3, SetExcludeKeeps
  <2>4. CASE \E b \in Bookings, c \in Categories \cup {None}, op \in {"add", "import"} :
               AddTransaction(s, b, c, op)
    BY <2>4, AddTransactionKeeps
  <2>5. CASE \E b \in Bookings : Classify(s, b)
    BY <2>5, ClassifyKeeps
  <2>6. CASE \E B \in SUBSET Bookings, c \in Categories, h \in Phrases \cup {None} :
               LabelTransactions(s, B, c, h)
    BY <2>6, LabelTransactionsKeeps
  <2>7. CASE \E r \in Rule : CreateRule(s, r)
    BY <2>7, CreateRuleKeeps
  <2>8. CASE \E a \in Accounts \ {"none"} : SetDepot(s, a)
    BY <2>8, SetDepotKeeps
  <2>9. CASE Reclassify(s) \/ Label(s) \/ Teach(s) \/ Exclude(s) \/ ClassifyNew(s)
    BY <2>9, ReclassifyKeeps, LabelKeeps, TeachKeeps, ExcludeKeeps, ClassifyNewKeeps
  <2>10. CASE Load(s) \/ LoadRows(s) \/ Learn(s) \/ Finish(s) \/ Commit(s) \/ Fail(s)
    BY <2>10, LoadKeeps, LoadRowsKeeps, LearnKeeps, FinishKeeps, CommitKeeps, FailKeeps
  <2>11. QED
    BY <2>1, <2>2, <2>3, <2>4, <2>5, <2>6, <2>7, <2>8, <2>9, <2>10
<1>3. QED
  BY <1>1, <1>2

LEMMA InitInv ==
  ASSUME Init
  PROVE  Inv
<1>1. NoRows \in [Bookings -> Row \cup {None}] /\ \A a \in Bookings : NoRows[a] = None
  BY DEF NoRows
<1>2. /\ NoWork.pc = "idle" /\ NoWork.op = "none" /\ NoWork.pick = {} /\ NoWork.category = None
      /\ NoWork.hint = None /\ NoWork.seen = NoRows /\ NoWork.row = NoRows /\ NoWork.locked = {}
      /\ NoWork.todo = {} /\ NoWork.account = "none" /\ NoWork.moved = FALSE /\ NoWork.new = {}
      /\ NoWork.alone = FALSE /\ NoWork \in Session
  BY <1>1 DEF NoWork, Session, Places, Accounts
<1>3. PlaceOK(NoWork)
  BY <1>2 DEF PlaceOK, Fresh, Sweeps
<1>4. \A b \in Bookings : RowOK(NoWork, b)
  BY <1>1, <1>2 DEF RowOK, ChangeOK, Inserts, Labelled
<1>5. \A s \in Sessions : work[s] = NoWork
  BY DEF Init
<1>6. ASSUME NEW b \in Bookings
      PROVE  /\ rows[b] \in Row \cup {None}
             /\ rows[b] # None => /\ rows[b] \in Row
                                  /\ rows[b].category \in Categories \cup {None}
                                  /\ rows[b].manual => rows[b].category # None
  <2>1. rows[b] \in {None, [category |-> None, manual |-> FALSE, exclude |-> FALSE]}
                      \cup [category : Categories, manual : {TRUE}, exclude : {FALSE}]
    BY DEF Init
  <2>2. CASE rows[b] = None
    BY <2>2
  <2>3. CASE rows[b] = [category |-> None, manual |-> FALSE, exclude |-> FALSE]
    BY <2>3 DEF Row, Values
  <2>4. CASE rows[b] \in [category : Categories, manual : {TRUE}, exclude : {FALSE}]
    BY <2>4, ClassificationAssumption DEF Row, Values
  <2>5. QED
    BY <2>1, <2>2, <2>3, <2>4
<1>7. TypeOK
  <2>1. rows \in [Bookings -> Row \cup {None}]
    BY <1>6 DEF Init
  <2>2. choice \in [Bookings -> Categories \cup {None}]
    BY <1>6 DEF Init
  <2>3. work \in [Sessions -> Session]
    BY <1>2 DEF Init
  <2>4. QED
    BY <2>1, <2>2, <2>3 DEF Init, TypeOK, Accounts
<1>8. TypeInv
  BY <1>1, <1>2, <1>3, <1>4, <1>5, <1>7 DEF TypeInv
<1>9. CategoryInv /\ SeenInv /\ InsertInv /\ AccountInv /\ AloneInv
  BY <1>1, <1>2, <1>5, <1>6 DEF CategoryInv, SeenInv, InsertInv, Inserts, AccountInv, AloneInv, Sweeps
<1>10. ManualChoiceStays /\ CategoriesFollowRules /\ SweptInv
  BY DEF Init, ManualChoiceStays, CategoriesFollowRules, SweptInv
<1>11. QED
  BY <1>8, <1>9, <1>10 DEF Inv

LEMMA Invariance == Spec => []Inv
  BY InitInv, NextKeeps, PTL DEF Spec

\* Sessions, rows and rules keep their types, also the rules that are learned.
THEOREM TypesHold == Spec => []TypeOK
<1>1. Inv => TypeOK
  BY DEF Inv, TypeInv
<1>2. QED
  BY <1>1, Invariance, PTL

\* A category chosen by hand stays, whatever sessions overlap, unless a session
\* that had loaded the booking before the choice ran on.
THEOREM ChoicesStay == Spec => []ManualChoiceStays
<1>1. Inv => ManualChoiceStays
  BY DEF Inv
<1>2. QED
  BY <1>1, Invariance, PTL

\* After a reclassification that nothing ran beside, each booking has the category
\* that transfers, rules and built-in rules give it.
THEOREM CategoriesAreOfRules == Spec => []CategoriesFollowRules
<1>1. Inv => CategoriesFollowRules
  BY DEF Inv
<1>2. QED
  BY <1>1, Invariance, PTL

-----------------------------------------------------------------------------
(* Which steps change what is committed, and which step learns *)

LEMMA OnlyCommits ==
  ASSUME Next, rows' # rows \/ rules' # rules
  PROVE  \E s \in Sessions : Commit(s)
<1>1. ASSUME NEW t \in Sessions, NEW w, Begin(t, w) \/ Goes(t, w) PROVE FALSE
  BY <1>1 DEF Begin, Goes, Committed
<1>2. ASSUME NEW t \in Sessions, NEW b \in Bookings,
             \/ \E c \in Categories : SetCategory(t, b, c)
             \/ \E x \in BOOLEAN : SetExclude(t, b, x)
             \/ \E c \in Categories \cup {None}, op \in {"add", "import"} : AddTransaction(t, b, c, op)
             \/ Classify(t, b)
      PROVE  FALSE
  BY <1>1, <1>2 DEF SetCategory, SetExclude, AddTransaction, Classify
<1>3. ASSUME NEW t \in Sessions,
             \E B \in SUBSET Bookings, c \in Categories, h \in Phrases \cup {None} :
               LabelTransactions(t, B, c, h)
      PROVE  FALSE
  BY <1>1, <1>3 DEF LabelTransactions
<1>4. ASSUME NEW t \in Sessions,
             \/ \E r \in Rule : CreateRule(t, r)
             \/ \E a \in Accounts \ {"none"} : SetDepot(t, a)
             \/ Reclassify(t)
      PROVE  FALSE
  BY <1>1, <1>4 DEF CreateRule, SetDepot, Reclassify
<1>5. ASSUME NEW t \in Sessions,
             Label(t) \/ Teach(t) \/ Exclude(t) \/ ClassifyNew(t) \/ Load(t) \/ LoadRows(t)
             \/ Learn(t) \/ Finish(t) \/ Fail(t)
      PROVE  FALSE
  BY <1>1, <1>5 DEF Label, Teach, Exclude, ClassifyNew, Load, LoadRows, Learn, Finish, Fail
<1>6. QED
  BY <1>2, <1>3, <1>4, <1>5 DEF Next

LEMMA OnlyLearns ==
  ASSUME Inv, Next, NEW s \in Sessions, work[s].pc = "learn", work'[s].pc = "classify"
  PROVE  Learn(s)
<1>1. work \in [Sessions -> Session]
  BY DEF Inv, TypeInv, TypeOK
<1>2. ASSUME NEW t \in Sessions, NEW v, Goes(t, v) PROVE t = s /\ v.pc = "classify"
  <2>1. work' = [work EXCEPT ![t] = v]
    BY <1>2 DEF Goes
  <2>2. QED
    BY <1>1, <2>1
<1>3. ASSUME NEW t \in Sessions, NEW w, Begin(t, w) PROVE FALSE
  <2>1. CASE t = s
    BY <1>3, <2>1 DEF Begin
  <2>2. CASE t # s
    <3>1. work'[s] = [work[s] EXCEPT !.alone = FALSE]
      BY <1>3, <2>2 DEF Begin
    <3>2. work'[s].pc = work[s].pc
      BY <1>1, <3>1 DEF Session
    <3>3. QED
      BY <3>2
  <2>3. QED
    BY <2>1, <2>2
<1>4. PICK t \in Sessions :
    \/ \E b \in Bookings :
         \/ \E c \in Categories : SetCategory(t, b, c)
         \/ \E x \in BOOLEAN : SetExclude(t, b, x)
         \/ \E c \in Categories \cup {None}, op \in {"add", "import"} : AddTransaction(t, b, c, op)
         \/ Classify(t, b)
    \/ \E B \in SUBSET Bookings, c \in Categories, h \in Phrases \cup {None} :
         LabelTransactions(t, B, c, h)
    \/ \E r \in Rule : CreateRule(t, r)
    \/ \E a \in Accounts \ {"none"} : SetDepot(t, a)
    \/ Reclassify(t) \/ Label(t) \/ Teach(t) \/ Exclude(t) \/ ClassifyNew(t) \/ Load(t)
    \/ LoadRows(t) \/ Learn(t) \/ Finish(t) \/ Commit(t) \/ Fail(t)
  BY DEF Next
<1>5. ASSUME NEW b \in Bookings, \/ \E c \in Categories : SetCategory(t, b, c)
                                 \/ \E x \in BOOLEAN : SetExclude(t, b, x)
                                 \/ \E c \in Categories \cup {None}, op \in {"add", "import"} :
                                      AddTransaction(t, b, c, op)
      PROVE  FALSE
  BY <1>3, <1>5 DEF SetCategory, SetExclude, AddTransaction
<1>6. ~\E B \in SUBSET Bookings, c \in Categories, h \in Phrases \cup {None} :
         LabelTransactions(t, B, c, h)
  BY <1>3 DEF LabelTransactions
<1>7. ~((\E r \in Rule : CreateRule(t, r)) \/ (\E a \in Accounts \ {"none"} : SetDepot(t, a)) \/ Reclassify(t))
  BY <1>3 DEF CreateRule, SetDepot, Reclassify
<1>8. ~(Label(t) \/ Teach(t) \/ Exclude(t) \/ ClassifyNew(t) \/ Load(t) \/ LoadRows(t) \/ Finish(t))
  BY <1>2 DEF Label, Teach, Exclude, ClassifyNew, Load, LoadRows, Finish
<1>9. ~\E b \in Bookings : Classify(t, b)
  BY <1>2 DEF Classify
<1>10. ~Commit(t)
  BY CommitSteps, DoneFields
<1>11. ~Fail(t)
  BY <1>2, DoneFields DEF Fail
<1>12. Learn(t)
  BY <1>4, <1>5, <1>6, <1>7, <1>8, <1>9, <1>10, <1>11
<1>13. t = s
  BY <1>2, <1>12 DEF Learn
<1>14. QED
  BY <1>12, <1>13

-----------------------------------------------------------------------------
(* What a step may never do *)

LEMMA ExcludeStep ==
  ASSUME Inv, Next
  PROVE  \A b \in Bookings :
           /\ rows[b] # None /\ rows[b].exclude /\ ~rows'[b].exclude
           /\ ~IsInternal(b, depot', Present(rows'))
           => \E s \in Sessions : work[s].op = "exclude" /\ b \in work[s].pick /\ work'[s].pc = "done"
<1> SUFFICES ASSUME NEW b \in Bookings, rows[b] # None, rows[b].exclude, ~rows'[b].exclude,
                    ~IsInternal(b, depot', Present(rows'))
             PROVE  \E s \in Sessions : work[s].op = "exclude" /\ b \in work[s].pick /\ work'[s].pc = "done"
  OBVIOUS
<1>1. rows' # rows
  OBVIOUS
<1>2. PICK s \in Sessions : Commit(s)
  BY <1>1, OnlyCommits
<1> DEFINE x == work[s]
<1>3. RowOK(x, b) /\ PlaceOK(x)
  BY SessionFacts
<1>4. /\ \/ b \notin x.locked /\ rows'[b] = rows[b]
         \/ Inserts(x, b) /\ rows[b] = None /\ rows'[b] = x.row[b] /\ b \in x.pick
         \/ rows'[b] # None /\ Merges(x, b, rows'[b])
  BY <1>2, CommitRows
<1>5. Merges(x, b, rows'[b])
  BY <1>4
<1>6. x.row[b].exclude # x.seen[b].exclude /\ x.seen[b] # None
  BY <1>5 DEF Merges
<1>7. x.op # "exclude" => IsInternal(b, x.account, Present(x.row))
  BY <1>3, <1>6 DEF RowOK, ChangeOK
<1>8. x.account # "none" => depot' # "none"
  <2>1. depot' = IF x.moved THEN x.account ELSE depot
    BY <1>2, CommitSteps
  <2>2. x.account # "none" => depot # "none" \/ x.moved
    BY DEF Inv, AccountInv
  <2>3. QED
    BY <2>1, <2>2
<1>9. x.op = "exclude"
  BY <1>2, <1>7, <1>8, CommitShows, InternalGrows
<1>10. b \in x.pick
  BY <1>3, <1>6, <1>9 DEF RowOK, ChangeOK
<1>11. work'[s].pc = "done"
  BY <1>2, CommitSteps, DoneFields
<1>12. QED
  BY <1>9, <1>10, <1>11

\* No reclassification, rule or import brings an excluded booking back.
THEOREM ExcludesStay == Spec => ExcludeStays
<1>1. Inv /\ [Next]_vars =>
        [\A b \in Bookings :
           /\ rows[b] # None /\ rows[b].exclude /\ ~rows'[b].exclude
           /\ ~IsInternal(b, depot', Present(rows'))
           => \E s \in Sessions : work[s].op = "exclude" /\ b \in work[s].pick /\ work'[s].pc = "done"]_vars
  BY ExcludeStep
<1>2. QED
  BY <1>1, Invariance, PTL DEF Spec, ExcludeStays

LEMMA TeachingStep ==
  ASSUME Inv, Next, NEW s \in Sessions, work[s].pc = "learn", work'[s].pc = "classify"
  PROVE  LET w == work'[s] IN
         \A r \in w.new \ work[s].new : \E b \in Bookings :
           /\ w.row[b] # None /\ w.row[b].manual
           /\ Lesson[b] = r.value /\ w.row[b].category = r.category
           /\ \A a \in Bookings :
                a > b /\ w.row[a] # None /\ w.row[a].manual /\ Lesson[a] = r.value
                => \E q \in VisibleRules(s)' : q.category = w.row[a].category /\ Matches(a, q)
<1>1. Learn(s)
  BY OnlyLearns
<1> DEFINE x == work[s]
           known == rules \cup x.new
           learned == Lessons(x, known)
<1>2. x \in Session /\ \A b \in Bookings : RowOK(x, b)
  BY SessionFacts
<1>3. work'[s] = [x EXCEPT !.new = @ \cup (learned \ known),
                           !.todo = {b \in Bookings : x.row[b] # None /\ ~x.row[b].manual},
                           !.pc = "classify"]
  BY <1>1 DEF Learn, Goes, VisibleRules, Inv, TypeInv, TypeOK
<1>4. work'[s].new = x.new \cup (learned \ known) /\ work'[s].row = x.row
  BY <1>2, <1>3 DEF Session
<1>5. \A b \in Bookings : x.row[b] # None /\ x.row[b].manual => x.row[b].category # None
  BY <1>2 DEF RowOK
<1>6. /\ known \subseteq learned
      /\ \A r \in learned \ known : \E b \in Bookings :
              /\ x.row[b] # None /\ x.row[b].manual /\ x.row[b].category # None
              /\ Lesson[b] # None /\ r = LessonOf(x, b)
              /\ \A a \in Bookings :
                   a > b /\ x.row[a] # None /\ x.row[a].manual /\ Lesson[a] = Lesson[b]
                   => \E q \in learned : q.category = x.row[a].category /\ Matches(a, q)
  <2> HIDE DEF known, x
  <2>1. QED
    BY <1>5, LessonsLearned
<1> HIDE DEF learned
<1>7. rules' = rules
  BY <1>1 DEF Learn, Goes, Committed
<1>8. learned \subseteq VisibleRules(s)'
  BY <1>4, <1>7 DEF VisibleRules
<1>9. ASSUME NEW r \in work'[s].new \ x.new
      PROVE  \E b \in Bookings :
               /\ x.row[b] # None /\ x.row[b].manual
               /\ Lesson[b] = r.value /\ x.row[b].category = r.category
               /\ \A a \in Bookings :
                    a > b /\ x.row[a] # None /\ x.row[a].manual /\ Lesson[a] = r.value
                    => \E q \in VisibleRules(s)' : q.category = x.row[a].category /\ Matches(a, q)
  <2>1. r \in learned \ known
    BY <1>4
  <2>2. PICK b \in Bookings :
          /\ x.row[b] # None /\ x.row[b].manual /\ x.row[b].category # None
          /\ Lesson[b] # None /\ r = LessonOf(x, b)
          /\ \A a \in Bookings :
               a > b /\ x.row[a] # None /\ x.row[a].manual /\ Lesson[a] = Lesson[b]
               => \E q \in learned : q.category = x.row[a].category /\ Matches(a, q)
    BY <1>6, <2>1
  <2>3. r.value = Lesson[b] /\ r.category = x.row[b].category
    BY <2>2 DEF LessonOf
  <2>4. QED
    BY <1>8, <2>2, <2>3
<1>10. QED
  BY <1>4, <1>9

LEMMA LearnedStep ==
  ASSUME Inv, Next, NEW s \in Sessions, work[s].pc = "commit", work'[s].pc = "done",
         work[s].alone, work[s].op # "rule"
  PROVE  \A r \in rules' \ rules, q \in rules' : q.value = r.value => q = r
<1>1. CASE rules' = rules
  BY <1>1
<1>2. CASE rules' # rules
  <2>1. PICK t \in Sessions : Commit(t)
    BY <1>2, OnlyCommits
  <2>2. t = s
    <3>1. t # s => work'[s] = work[s]
      BY <2>1, CommitSteps
    <3>2. QED
      BY <3>1
  <2>3. rules' = rules \cup work[s].new
    BY <2>1, <2>2, CommitSteps
  <2>4. \A r \in work[s].new, q \in rules \cup work[s].new : q.value = r.value => q = r
    BY SessionFacts DEF InFlight, AloneOK
  <2>5. QED
    BY <2>3, <2>4
<1>3. QED
  BY <1>1, <1>2

\* The newest of the choices that disagree on a phrase teaches the rule, and no
\* phrase gets two categories from a session that nothing ran beside.
THEOREM NewestChoiceTeaches == Spec => NewestTeaches
<1>1. Inv /\ [Next]_vars =>
  [\A s \in Sessions :
       /\ work[s].pc = "learn" /\ work'[s].pc = "classify"
          => LET w == work'[s] IN
             \A r \in w.new \ work[s].new : \E b \in Bookings :
               /\ w.row[b] # None /\ w.row[b].manual
               /\ Lesson[b] = r.value /\ w.row[b].category = r.category
               /\ \A a \in Bookings :
                    a > b /\ w.row[a] # None /\ w.row[a].manual /\ Lesson[a] = r.value
                    => \E q \in VisibleRules(s)' : q.category = w.row[a].category /\ Matches(a, q)
       /\ work[s].pc = "commit" /\ work'[s].pc = "done" /\ work[s].alone /\ work[s].op # "rule"
          => \A r \in rules' \ rules, q \in rules' : q.value = r.value => q = r]_vars
  BY TeachingStep, LearnedStep
<1>2. QED
  BY <1>1, Invariance, PTL DEF Spec, NewestTeaches
=============================================================================
