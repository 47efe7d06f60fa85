---------------------------- MODULE ReportsProofs ----------------------------
(***************************************************************************)
(* Theorems about Reports, for every number of households, sessions,       *)
(* processes, bookings and events: what is seeded once, what is sent once, *)
(* that no digest is forgotten, that its figures agree, that projections   *)
(* are in order, and the types.                                            *)
(***************************************************************************)
EXTENDS Reports, NumbersAndSums, SequenceTheorems, FiniteSetTheorems, TLAPS

-----------------------------------------------------------------------------
(* What a session still has to do *)

Queries ==
  {"seed", "accounts", "period", "previous", "snapshots", "holdings", "sheet",
   "config", "balances", "projection", "uncategorized", "send", "commit", "update",
   "joint", "users", "delay"}

Occurs(q, x) == \E i \in 1..Len(q) : q[i] = x

Once(q, x) == \A i, j \in 1..Len(q) : q[i] = x /\ q[j] = x => i = j

\* A script ends with its commit, or with the delay of the messages, and has its other
\* steps that matter once.
ScriptOK(q) ==
  /\ q \in Seq(Queries) /\ q # <<>> /\ q[Len(q)] \in {"commit", "delay"}
  /\ Once(q, "send") /\ Once(q, "users")
  /\ ~(Occurs(q, "send") /\ Occurs(q, "users"))

\* The fields of a session.
Fields ==
  {"kind", "h", "todo", "accs", "now", "agg", "kpi", "sheet", "cfg", "makes", "seeds",
   "hides", "balance", "shown", "open", "left", "sent", "holds", "calm"}

SessionOK(w) ==
  /\ DOMAIN w = Fields
  /\ w.kind # "none" => ScriptOK(w.todo)
  /\ w.kind # "none" /\ Occurs(w.todo, "config") => w.h \in Households
  /\ w.cfg \in Configs \cup {None}
  /\ w.makes => w.holds
  /\ w.sent \in BOOLEAN
  /\ w.left \subseteq Households
  /\ w.left # {} => ~Occurs(w.todo, "send") /\ ~Occurs(w.todo, "users")

RowsInv ==
  /\ DOMAIN work = Sessions /\ \A s \in Sessions : SessionOK(work[s])
  /\ configs \in [Households -> Seq(Configs \cup {None})]
  /\ kpis \in [DOMAIN Builtin -> Nat]
  /\ digests \in [Households -> [BOOLEAN -> Nat]]
  /\ queue \in [Messages -> Nat]
  /\ sent \in [Households -> Nat]

-----------------------------------------------------------------------------
(* What is seeded *)

\* The session that inserts a configuration has found none, and is alone with it.
ConfigInv ==
  \A h \in Households \ raced :
    /\ Len(configs[h]) <= 1
    /\ \A s \in Sessions : work[s].makes /\ work[s].h = h => configs[h] = <<>>
    /\ \A s, t \in Sessions :
         s # t /\ work[s].makes /\ work[s].h = h => ~(work[t].makes /\ work[t].h = h)

KpiInv ==
  "kpis" \notin raced =>
    \A k \in DOMAIN Builtin :
      /\ kpis[k] <= 1
      /\ \A s \in Sessions : k \in work[s].seeds => kpis[k] = 0
      /\ \A s, t \in Sessions : s # t /\ k \in work[s].seeds => k \notin work[t].seeds

-----------------------------------------------------------------------------
(* What is sent *)

\* w is to send the digest of h, or to have it sent.
Carries(w, h) ==
  \/ w.kind # "none" /\ Occurs(w.todo, "users")
  \/ h \in w.left
  \/ w.kind # "none" /\ w.h = h /\ Occurs(w.todo, "send")

\* As long as no message came back there is one place the digest of h is in: the
\* message for all, its own message, a session, or the chat.
CarryInv ==
  \A h \in Households : redelivered \cap {h, All} = {} =>
    /\ queue[All] + queue[h] + sent[h] <= 1
    /\ \A s \in Sessions : Carries(work[s], h) => queue[All] + queue[h] + sent[h] = 0
    /\ \A s, t \in Sessions : s # t /\ Carries(work[s], h) => ~Carries(work[t], h)

\* The sessions that have sent the digest of h and not stored it.
Storing(h) == {s \in Sessions : work[s].sent /\ work[s].h = h}

StoredInv ==
  \A h \in Households : digests[h][TRUE] + Cardinality(Storing(h)) <= sent[h]
-----------------------------------------------------------------------------
(* Scripts *)

LEMMA Short ==
  ASSUME NEW q \in Seq(Queries), NEW n \in Nat \ {0}, Len(q) = n,
         q[n] \in {"commit", "delay"},
         \A i \in 1..n : q[i] \notin {"send", "users", "delay"}
  PROVE  /\ ScriptOK(q)
         /\ ~Occurs(q, "send") /\ ~Occurs(q, "users") /\ ~Occurs(q, "delay")
<1>1. q # <<>>
  BY EmptySeq
<1>2. ~Occurs(q, "send") /\ ~Occurs(q, "users") /\ ~Occurs(q, "delay")
  BY DEF Occurs
<1>3. QED
  BY <1>1, <1>2 DEF ScriptOK, Once

LEMMA SummingScript ==
  /\ Summing \in Seq(Queries)
  /\ ~Occurs(Summing, "send") /\ ~Occurs(Summing, "users") /\ ~Occurs(Summing, "delay")
<1> DEFINE q == <<"accounts", "period", "previous">>
<1>1. q \in Seq(Queries) /\ Len(q) = 3 /\ q[1] = "accounts" /\ q[2] = "period" /\ q[3] = "previous"
  BY DEF Queries
<1> HIDE DEF q
<1>2. ~Occurs(q, "send") /\ ~Occurs(q, "users") /\ ~Occurs(q, "delay")
  BY <1>1 DEF Occurs
<1>3. QED
  BY <1>1, <1>2 DEF Summing, q

LEMMA Behind ==
  ASSUME NEW p \in Seq(Queries), NEW q \in Seq(Queries), NEW x, ~Occurs(p, x)
  PROVE  /\ p \o q \in Seq(Queries)
         /\ Occurs(p \o q, x) => Occurs(q, x)
         /\ Once(q, x) => Once(p \o q, x)
<1> DEFINE r == p \o q
<1>1. /\ r \in Seq(Queries) /\ Len(r) = Len(p) + Len(q)
      /\ Len(p) \in Nat /\ Len(q) \in Nat
      /\ \A i \in 1..Len(r) : r[i] = IF i <= Len(p) THEN p[i] ELSE q[i - Len(p)]
  BY ConcatProperties, LenProperties
<1> HIDE DEF r
<1>2. \A i \in 1..Len(r) : r[i] = x => i - Len(p) \in 1..Len(q) /\ q[i - Len(p)] = x
  BY <1>1 DEF Occurs
<1>3. Once(q, x) => Once(r, x)
  BY <1>1, <1>2 DEF Once
<1>4. Occurs(r, x) => Occurs(q, x)
  BY <1>2 DEF Occurs
<1>5. QED
  BY <1>1, <1>3, <1>4 DEF r

\* The end of the longest script, the queries before it hold no other step of interest.
LEMMA DigestScript ==
  /\ ScriptOK(Script.digest)
  /\ ~Occurs(Script.digest, "users") /\ ~Occurs(Script.digest, "delay")
<1> DEFINE a == <<"seed">>
           b == <<"snapshots", "holdings", "sheet", "config", "balances">>
           c == <<"projection", "uncategorized", "send", "commit">>
           d == Summing \o c
           e == b \o d
           f == Summing \o e
           g == a \o f
<1>1. /\ a \in Seq(Queries) /\ b \in Seq(Queries) /\ c \in Seq(Queries)
      /\ Summing \in Seq(Queries)
  <2>1. a \in Seq(Queries) /\ b \in Seq(Queries)
    BY DEF Queries
  <2>2. c \in Seq(Queries)
    BY DEF Queries
  <2>3. QED
    BY <2>1, <2>2, SummingScript
<1>2. \A x \in {"send", "users", "delay"} : ~Occurs(a, x) /\ ~Occurs(b, x) /\ ~Occurs(Summing, x)
  <2>1. Len(a) = 1 /\ a[1] = "seed"
    OBVIOUS
  <2>2. /\ Len(b) = 5 /\ b[1] = "snapshots" /\ b[2] = "holdings" /\ b[3] = "sheet"
        /\ b[4] = "config" /\ b[5] = "balances"
    OBVIOUS
  <2> HIDE DEF a, b
  <2>3. \A x \in {"send", "users", "delay"} : ~Occurs(a, x)
    BY <2>1 DEF Occurs
  <2>4. \A x \in {"send", "users", "delay"} : ~Occurs(b, x)
    BY <2>2 DEF Occurs
  <2>5. QED
    BY <2>3, <2>4, SummingScript
<1>3. Once(c, "send") /\ ~Occurs(c, "users") /\ ~Occurs(c, "delay") /\ Len(c) = 4 /\ c[4] = "commit"
  <2>1. /\ Len(c) = 4 /\ c[1] = "projection" /\ c[2] = "uncategorized" /\ c[3] = "send"
        /\ c[4] = "commit"
    OBVIOUS
  <2> HIDE DEF c
  <2>2. QED
    BY <2>1 DEF Once, Occurs
<1> DEFINE Fine(q) == /\ q \in Seq(Queries) /\ Once(q, "send") /\ ~Occurs(q, "users")
                      /\ ~Occurs(q, "delay") /\ Len(q) >= 4 /\ q[Len(q)] = "commit"
<1>4. Fine(c)
  <2>1. /\ c \in Seq(Queries) /\ Once(c, "send") /\ ~Occurs(c, "users")
        /\ ~Occurs(c, "delay") /\ Len(c) = 4 /\ c[4] = "commit"
    BY <1>1, <1>3
  <2> HIDE DEF c
  <2>2. QED
    BY <2>1
<1>5. ASSUME NEW p \in Seq(Queries), NEW q, Fine(q), \A x \in {"send", "users", "delay"} : ~Occurs(p, x)
      PROVE  Fine(p \o q)
  <2>1. /\ p \o q \in Seq(Queries) /\ Once(p \o q, "send")
        /\ ~Occurs(p \o q, "users") /\ ~Occurs(p \o q, "delay")
    BY <1>5, Behind
  <2>2. /\ Len(p \o q) = Len(p) + Len(q) /\ Len(p) \in Nat /\ Len(q) \in Nat
        /\ \A i \in 1..Len(p) + Len(q) :
             (p \o q)[i] = IF i <= Len(p) THEN p[i] ELSE q[i - Len(p)]
    BY <1>5, ConcatProperties, LenProperties
  <2>3. (p \o q)[Len(p) + Len(q)] = q[Len(q)]
    BY <1>5, <2>2
  <2>4. QED
    BY <1>5, <2>1, <2>2, <2>3
<1> HIDE DEF a, b, c, Fine
<1>6. Fine(d)
  BY <1>1, <1>2, <1>4, <1>5
<1>7. Fine(e)
  <2> HIDE DEF d
  <2>1. QED
    BY <1>1, <1>2, <1>5, <1>6
<1>8. Fine(f)
  <2> HIDE DEF e
  <2>1. QED
    BY <1>1, <1>2, <1>5, <1>7
<1>9. Fine(g)
  <2> HIDE DEF f
  <2>1. QED
    BY <1>1, <1>2, <1>5, <1>8
<1>10. Script.digest = g
  <2>1. Script.digest = a \o Summing \o b \o Summing \o c
    BY DEF Script, a, b, c
  <2>2. /\ Summing \o b \in Seq(Queries) /\ a \o Summing \in Seq(Queries)
        /\ a \o Summing \o b \in Seq(Queries)
    BY <1>1, ConcatProperties
  <2>3. a \o Summing \o b \o Summing \o c = (a \o Summing \o b) \o d
    BY <1>1, <2>2, ConcatAssociative
  <2>4. (a \o Summing \o b) \o d = (a \o Summing) \o e
    <3> d \in Seq(Queries)
      BY <1>6 DEF Fine
    <3> HIDE DEF d
    <3> QED
      BY <1>1, <2>2, ConcatAssociative
  <2>5. (a \o Summing) \o e = g
    <3> e \in Seq(Queries)
      BY <1>7 DEF Fine
    <3> HIDE DEF e
    <3> QED
      BY <1>1, ConcatAssociative
  <2>6. QED
    BY <2>1, <2>3, <2>4, <2>5
<1>11. QED
  <2> HIDE DEF g
  <2>1. g # <<>>
    BY <1>9, EmptySeq DEF Fine
  <2>2. Once(g, "users") /\ ~Occurs(g, "users") /\ ~Occurs(g, "delay")
    BY <1>9 DEF Fine, Once, Occurs
  <2>3. QED
    BY <1>9, <1>10, <2>1, <2>2 DEF ScriptOK, Fine

LEMMA Scripts ==
  \A k \in {"digest", "kpis", "sheet", "projection", "update", "start", "all"} :
    /\ ScriptOK(Script[k])
    /\ Occurs(Script[k], "send") => k = "digest"
    /\ Occurs(Script[k], "users") => k = "all"
    /\ Occurs(Script[k], "delay") => k = "all"
    /\ Occurs(Script[k], "config") => k \notin {"start", "all"}
<1> DEFINE Plain(q) == /\ ScriptOK(q)
                       /\ ~Occurs(q, "send") /\ ~Occurs(q, "users") /\ ~Occurs(q, "delay")
<1>1. Script.all = <<"users", "delay">>
  BY DEF Script
<1>2. ScriptOK(Script.all) /\ ~Occurs(Script.all, "send") /\ ~Occurs(Script.all, "config")
  <2> DEFINE q == <<"users", "delay">>
  <2>1. q \in Seq(Queries) /\ Len(q) = 2 /\ q[1] = "users" /\ q[2] = "delay"
    BY DEF Queries
  <2> HIDE DEF q
  <2>2. q # <<>>
    BY <2>1, EmptySeq
  <2>3. ScriptOK(q) /\ ~Occurs(q, "send") /\ ~Occurs(q, "config")
    BY <2>1, <2>2 DEF ScriptOK, Occurs, Once
  <2>4. QED
    BY <1>1, <2>3 DEF q
<1>3. Plain(Script.sheet)
  <2> DEFINE q == <<"holdings", "sheet", "commit">>
  <2>1. /\ q \in Seq(Queries) /\ Len(q) = 3
        /\ q[1] = "holdings" /\ q[2] = "sheet" /\ q[3] = "commit"
    BY DEF Queries
  <2>2. Script.sheet = q
    BY DEF Script
  <2> HIDE DEF q
  <2>3. \A i \in 1..3 : q[i] \notin {"send", "users", "delay"}
    BY <2>1
  <2>4. q[3] \in {"commit", "delay"} /\ 3 \in Nat \ {0}
    BY <2>1
  <2>5. Plain(q)
    BY <2>1, <2>3, <2>4, Short
  <2>6. QED
    BY <2>2, <2>5
<1>4. Plain(Script.update)
  <2> DEFINE q == <<"config", "update", "commit">>
  <2>1. /\ q \in Seq(Queries) /\ Len(q) = 3
        /\ q[1] = "config" /\ q[2] = "update" /\ q[3] = "commit"
    BY DEF Queries
  <2>2. Script.update = q
    BY DEF Script
  <2> HIDE DEF q
  <2>3. \A i \in 1..3 : q[i] \notin {"send", "users", "delay"}
    BY <2>1
  <2>4. q[3] \in {"commit", "delay"} /\ 3 \in Nat \ {0}
    BY <2>1
  <2>5. Plain(q)
    BY <2>1, <2>3, <2>4, Short
  <2>6. QED
    BY <2>2, <2>5
<1>5. Plain(Script.start) /\ ~Occurs(Script.start, "config")
  <2> DEFINE q == <<"seed", "joint", "commit">>
  <2>1. /\ q \in Seq(Queries) /\ Len(q) = 3
        /\ q[1] = "seed" /\ q[2] = "joint" /\ q[3] = "commit"
    BY DEF Queries
  <2>2. Script.start = q
    BY DEF Script
  <2> HIDE DEF q
  <2>3. \A i \in 1..3 : q[i] \notin {"send", "users", "delay"}
    BY <2>1
  <2>4. ~Occurs(q, "config")
    BY <2>1 DEF Occurs
  <2>5. q[3] \in {"commit", "delay"} /\ 3 \in Nat \ {0}
    BY <2>1
  <2>6. Plain(q)
    BY <2>1, <2>3, <2>5, Short
  <2>7. QED
    BY <2>2, <2>4, <2>6
<1>6. ASSUME NEW p \in Seq(Queries), NEW q \in Seq(Queries),
             \A x \in {"send", "users", "delay"} : ~Occurs(p, x), Plain(q)
      PROVE  Plain(p \o q)
  <2>1. /\ p \o q \in Seq(Queries) /\ Once(p \o q, "send") /\ Once(p \o q, "users")
        /\ ~Occurs(p \o q, "send") /\ ~Occurs(p \o q, "users") /\ ~Occurs(p \o q, "delay")
    BY <1>6, Behind DEF ScriptOK
  <2>2. /\ Len(p \o q) = Len(p) + Len(q) /\ Len(p) \in Nat /\ Len(q) \in Nat
        /\ \A i \in 1..Len(p) + Len(q) :
             (p \o q)[i] = IF i <= Len(p) THEN p[i] ELSE q[i - Len(p)]
    BY ConcatProperties, LenProperties
  <2>3. Len(q) > 0
    BY <1>6, EmptySeq DEF ScriptOK
  <2>4. (p \o q)[Len(p) + Len(q)] = q[Len(q)]
    BY <2>2, <2>3
  <2>5. p \o q # <<>>
    BY <2>2, <2>3, EmptySeq
  <2>6. QED
    BY <1>6, <2>1, <2>2, <2>4, <2>5 DEF ScriptOK
<1>7. Summing \in Seq(Queries) /\ \A x \in {"send", "users", "delay"} : ~Occurs(Summing, x)
  BY SummingScript
<1>8. Plain(Script.kpis)
  <2> DEFINE a == <<"seed">>
             c == <<"snapshots", "commit">>
  <2>1. a \in Seq(Queries) /\ c \in Seq(Queries) /\ Plain(c)
    <3>1. c \in Seq(Queries) /\ Len(c) = 2 /\ c[1] = "snapshots" /\ c[2] = "commit"
      BY DEF Queries
    <3>2. a \in Seq(Queries)
      BY DEF Queries
    <3> HIDE DEF c
    <3>3. \A i \in 1..2 : c[i] \notin {"send", "users", "delay"}
      BY <3>1
    <3>4. Plain(c)
      <4>1. c[2] \in {"commit", "delay"} /\ 2 \in Nat \ {0}
        BY <3>1
      <4>2. QED
        BY <3>1, <3>3, <4>1, Short
    <3>5. QED
      BY <3>1, <3>2, <3>4
  <2>2. \A x \in {"send", "users", "delay"} : ~Occurs(a, x)
    <3>1. Len(a) = 1 /\ a[1] = "seed"
      OBVIOUS
    <3> HIDE DEF a
    <3>2. QED
      BY <3>1 DEF Occurs
  <2>3. Script.kpis = a \o Summing \o c
    BY DEF Script
  <2> HIDE DEF a, c, Plain
  <2>4. Plain(Summing \o c) /\ Summing \o c \in Seq(Queries)
    BY <1>6, <1>7, <2>1, ConcatProperties
  <2>5. a \o Summing \o c = a \o (Summing \o c)
    BY <1>7, <2>1, ConcatAssociative
  <2>6. QED
    BY <1>6, <2>1, <2>2, <2>3, <2>4, <2>5
<1>9. Plain(Script.projection)
  <2> DEFINE a == <<"config", "balances">>
             c == <<"projection", "commit">>
  <2>1. a \in Seq(Queries) /\ c \in Seq(Queries) /\ Plain(c)
    <3>1. c \in Seq(Queries) /\ Len(c) = 2 /\ c[1] = "projection" /\ c[2] = "commit"
      BY DEF Queries
    <3>2. a \in Seq(Queries)
      BY DEF Queries
    <3> HIDE DEF c
    <3>3. \A i \in 1..2 : c[i] \notin {"send", "users", "delay"}
      BY <3>1
    <3>4. Plain(c)
      <4>1. c[2] \in {"commit", "delay"} /\ 2 \in Nat \ {0}
        BY <3>1
      <4>2. QED
        BY <3>1, <3>3, <4>1, Short
    <3>5. QED
      BY <3>1, <3>2, <3>4
  <2>2. \A x \in {"send", "users", "delay"} : ~Occurs(a, x)
    <3>1. Len(a) = 2 /\ a[1] = "config" /\ a[2] = "balances"
      OBVIOUS
    <3> HIDE DEF a
    <3>2. QED
      BY <3>1 DEF Occurs
  <2>3. Script.projection = a \o Summing \o c
    BY DEF Script
  <2> HIDE DEF a, c, Plain
  <2>4. Plain(Summing \o c) /\ Summing \o c \in Seq(Queries)
    BY <1>6, <1>7, <2>1, ConcatProperties
  <2>5. a \o Summing \o c = a \o (Summing \o c)
    BY <1>7, <2>1, ConcatAssociative
  <2>6. QED
    BY <1>6, <2>1, <2>2, <2>3, <2>4, <2>5
<1>10. QED
  BY <1>2, <1>3, <1>4, <1>5, <1>8, <1>9, DigestScript

\* What is left of a script after a step that is not its last.
LEMMA Rest ==
  ASSUME NEW q, ScriptOK(q), Head(q) \notin {"commit", "delay"}
  PROVE  /\ ScriptOK(Tail(q))
         /\ \A x : Occurs(Tail(q), x) => Occurs(q, x)
         /\ Occurs(q, Head(q))
         /\ \A x \in {"send", "users"} : Head(q) = x => Occurs(q, x) /\ ~Occurs(Tail(q), x)
<1> DEFINE r == Tail(q)
<1>1. /\ r \in Seq(Queries) /\ Len(r) = Len(q) - 1 /\ Len(q) \in Nat \ {0}
      /\ \A i \in 1..Len(r) : r[i] = q[i + 1]
  BY HeadTailProperties, EmptySeq DEF ScriptOK
<1>2. Head(q) = q[1]
  BY DEF ScriptOK
<1> HIDE DEF r
<1>3. Len(q) # 1
  BY <1>2 DEF ScriptOK
<1>4. r # <<>> /\ r[Len(r)] = q[Len(q)]
  BY <1>1, <1>3, EmptySeq
<1>5. \A x : Occurs(r, x) => Occurs(q, x)
  BY <1>1 DEF Occurs
<1>6. \A x \in {"send", "users"} : Once(r, x)
  BY <1>1 DEF ScriptOK, Once
<1>7. \A x \in {"send", "users"} : Head(q) = x => Occurs(q, x) /\ ~Occurs(r, x)
  BY <1>1, <1>2 DEF ScriptOK, Once, Occurs
<1>8. Occurs(q, Head(q))
  BY <1>1, <1>2 DEF Occurs
<1>9. QED
  BY <1>1, <1>4, <1>5, <1>6, <1>7, <1>8 DEF ScriptOK, r

-----------------------------------------------------------------------------
(* Steps that add nothing *)

\* w inserts and stores nothing that v does not.
LessRows(w, v) ==
  /\ w.makes => v.makes /\ w.h = v.h
  /\ w.seeds \subseteq v.seeds
  /\ w.sent => v.sent /\ w.h = v.h

LEMMA ConfigKept ==
  ASSUME ConfigInv, \A s \in Sessions :
                      work'[s].makes => work[s].makes /\ work'[s].h = work[s].h,
         UNCHANGED configs, raced \subseteq raced'
  PROVE  ConfigInv'
BY DEF ConfigInv

LEMMA KpiKept ==
  ASSUME KpiInv, \A s \in Sessions : work'[s].seeds \subseteq work[s].seeds,
         UNCHANGED kpis, raced \subseteq raced'
  PROVE  KpiInv'
BY DEF KpiInv

LEMMA CarryKept ==
  ASSUME CarryInv, \A s \in Sessions, h \in Households :
                     Carries(work'[s], h) => Carries(work[s], h),
         queue \in [Messages -> Nat], queue' \in [Messages -> Nat],
         \A t \in Messages : queue'[t] <= queue[t],
         sent \in [Households -> Nat],
         UNCHANGED sent, redelivered \subseteq redelivered'
  PROVE  CarryInv'
<1> SUFFICES ASSUME NEW h \in Households, redelivered' \cap {h, All} = {}
             PROVE  /\ queue'[All] + queue'[h] + sent'[h] <= 1
                    /\ \A s \in Sessions :
                         Carries(work'[s], h) => queue'[All] + queue'[h] + sent'[h] = 0
                    /\ \A s, t \in Sessions :
                         s # t /\ Carries(work'[s], h) => ~Carries(work'[t], h)
  BY DEF CarryInv
<1>1. /\ queue[All] + queue[h] + sent[h] <= 1
      /\ \A s \in Sessions : Carries(work[s], h) => queue[All] + queue[h] + sent[h] = 0
      /\ \A s, t \in Sessions : s # t /\ Carries(work[s], h) => ~Carries(work[t], h)
  BY DEF CarryInv
<1>2. /\ queue'[All] \in Nat /\ queue'[h] \in Nat /\ sent'[h] \in Nat
      /\ queue[All] \in Nat /\ queue[h] \in Nat /\ sent'[h] = sent[h]
      /\ queue'[All] <= queue[All] /\ queue'[h] <= queue[h]
  BY DEF Messages
<1> HIDE DEF CarryInv
<1> DEFINE n == queue[All] + queue[h] + sent[h]
           m == queue'[All] + queue'[h] + sent'[h]
<1>3. m <= n /\ m \in Nat /\ n \in Nat
  BY <1>2
<1>4. n <= 1 /\ \A s \in Sessions : Carries(work[s], h) => n = 0
  BY <1>1
<1> HIDE DEF n, m
<1>5. m <= 1 /\ \A s \in Sessions : Carries(work'[s], h) => m = 0
  BY <1>3, <1>4
<1>6. \A s, t \in Sessions : s # t /\ Carries(work'[s], h) => ~Carries(work'[t], h)
  BY <1>1
<1>7. QED
  BY <1>5, <1>6 DEF m

LEMMA StoringFinite ==
  \A h : IsFiniteSet(Storing(h)) /\ Cardinality(Storing(h)) \in Nat
<1> TAKE h
<1>1. IsFiniteSet(Sessions)
  BY DataAssumption, FS_Union DEF Sessions
<1>2. Storing(h) \in SUBSET Sessions
  BY DEF Storing
<1>3. IsFiniteSet(Storing(h))
  BY <1>1, <1>2, FS_Subset
<1>4. QED
  BY <1>3, FS_CardinalityType

LEMMA StoredKept ==
  ASSUME StoredInv, \A s \in Sessions :
                      work'[s].sent => work[s].sent /\ work'[s].h = work[s].h,
         digests \in [Households -> [BOOLEAN -> Nat]],
         digests' \in [Households -> [BOOLEAN -> Nat]],
         \A h \in Households : digests'[h][TRUE] <= digests[h][TRUE],
         sent \in [Households -> Nat], UNCHANGED sent
  PROVE  StoredInv'
<1> SUFFICES ASSUME NEW h \in Households
             PROVE  digests'[h][TRUE] + Cardinality(Storing(h)') <= sent'[h]
  BY DEF StoredInv
<1>1. Storing(h)' \in SUBSET Storing(h)
  BY DEF Storing
<1>2. /\ Cardinality(Storing(h)') <= Cardinality(Storing(h))
      /\ Cardinality(Storing(h)') \in Nat /\ Cardinality(Storing(h)) \in Nat
  BY <1>1, StoringFinite, FS_Subset, FS_CardinalityType
<1>3. digests[h][TRUE] + Cardinality(Storing(h)) <= sent[h]
  BY DEF StoredInv
<1> DEFINE d == digests[h][TRUE]
           e == digests'[h][TRUE]
           n == Cardinality(Storing(h))
           m == Cardinality(Storing(h)')
<1>4. d \in Nat /\ e \in Nat /\ sent[h] \in Nat /\ e <= d /\ sent'[h] = sent[h]
  OBVIOUS
<1>5. m <= n /\ m \in Nat /\ n \in Nat /\ d + n <= sent[h]
  BY <1>2, <1>3
<1> HIDE DEF d, e, n, m
<1>6. e + m <= sent'[h]
  BY <1>4, <1>5
<1>7. QED
  BY <1>6 DEF e, m

Inv == RowsInv /\ ConfigInv /\ KpiInv /\ CarryInv /\ StoredInv

LEMMA CarrySame ==
  ASSUME Inv, RowsInv', \A s \in Sessions, h \in Households :
                          Carries(work'[s], h) => Carries(work[s], h),
         queue' = queue, sent' = sent, redelivered \subseteq redelivered'
  PROVE  CarryInv'
<1>1. /\ queue \in [Messages -> Nat] /\ queue' \in [Messages -> Nat]
      /\ sent \in [Households -> Nat]
  BY DEF Inv, RowsInv
<1>2. \A t \in Messages : queue'[t] <= queue[t]
  BY <1>1
<1>3. QED
  BY <1>1, <1>2, CarryKept DEF Inv

LEMMA StoredSame ==
  ASSUME Inv, RowsInv', \A s \in Sessions :
                          work'[s].sent => work[s].sent /\ work'[s].h = work[s].h,
         digests' = digests, sent' = sent
  PROVE  StoredInv'
<1>1. /\ digests \in [Households -> [BOOLEAN -> Nat]]
      /\ digests' \in [Households -> [BOOLEAN -> Nat]] /\ sent \in [Households -> Nat]
  BY DEF Inv, RowsInv
<1>2. ASSUME NEW h \in Households PROVE digests'[h][TRUE] <= digests[h][TRUE]
  <2> DEFINE d == digests[h][TRUE]
  <2>1. d \in Nat /\ digests'[h][TRUE] = d
    BY <1>1
  <2> HIDE DEF d
  <2>2. digests'[h][TRUE] <= d
    BY <2>1
  <2>3. QED
    BY <2>2 DEF d
<1>3. QED
  BY <1>1, <1>2, StoredKept DEF Inv

\* A step that leaves the rows, the messages and the chats alone.
LEMMA Quiet ==
  ASSUME Inv, DOMAIN work' = Sessions, \A s \in Sessions : SessionOK(work'[s]),
         \A s \in Sessions : LessRows(work'[s], work[s]),
         \A s \in Sessions, h \in Households :
           Carries(work'[s], h) => Carries(work[s], h),
         UNCHANGED <<rows, queue, sent, raced, redelivered>>
  PROVE  Inv'
<1>0. /\ configs' = configs /\ kpis' = kpis /\ digests' = digests
      /\ queue' = queue /\ sent' = sent
  BY DEF rows
<1>1. RowsInv'
  BY <1>0 DEF Inv, RowsInv
<1>2. ConfigInv' /\ KpiInv'
  BY ConfigKept, KpiKept DEF Inv, rows, LessRows
<1>3. CarryInv' /\ StoredInv'
  BY <1>0, <1>1, CarrySame, StoredSame DEF LessRows
<1>4. QED
  BY <1>1, <1>2, <1>3 DEF Inv

LEMMA FieldsOfNoSession == DOMAIN NoSession = Fields
BY DEF NoSession, Fields

LEMMA NoSessionIsLess ==
  /\ SessionOK(NoSession)
  /\ \A v : LessRows(NoSession, v)
  /\ \A h \in Households : ~Carries(NoSession, h)
BY FieldsOfNoSession DEF NoSession, SessionOK, LessRows, Carries

\* s goes on after a query that is not its last one.
LEMMA GoesOn ==
  ASSUME RowsInv, NEW s \in Sessions, NEW x, At(s, x), x \notin {"commit", "delay"},
         NEW w, Goes(s, w), DOMAIN w = Fields,
         w.kind = work[s].kind, w.h = work[s].h, w.cfg \in Configs \cup {None},
         w.makes => w.holds, w.sent \in BOOLEAN, w.left \subseteq Households,
         w.left \subseteq work[s].left \/ x = "users"
  PROVE  /\ DOMAIN work' = Sessions
         /\ \A t \in Sessions \ {s} : work'[t] = work[t]
         /\ \A t \in Sessions : SessionOK(work'[t])
         /\ \A f \in Fields \ {"todo"} : work'[s][f] = w[f]
         /\ \A t \in Sessions, h \in Households :
              Carries(work'[t], h) => Carries(work[t], h)
         /\ x = "send" => ~Carries(work'[s], work[s].h) \/ work[s].h \notin Households
         /\ x = "send" => Carries(work[s], work[s].h)
<1> DEFINE q == work[s].todo
           r == Tail(q)
           v == [w EXCEPT !.todo = r]
<1>1. SessionOK(work[s]) /\ DOMAIN work = Sessions
  BY DEF RowsInv
<1>2. Head(q) = x /\ work[s].kind # "none"
  BY DEF At, InFlight
<1>3. ScriptOK(q)
  BY <1>1, <1>2 DEF SessionOK
<1>4. /\ ScriptOK(r) /\ \A y : Occurs(r, y) => Occurs(q, y)
      /\ x \in {"send", "users"} => Occurs(q, x) /\ ~Occurs(r, x)
  BY <1>2, <1>3, Rest
<1>5. work' = [work EXCEPT ![s] = v]
  BY DEF Goes
<1> HIDE DEF r
<1>6. DOMAIN v = Fields /\ v.todo = r
      /\ \A f \in Fields \ {"todo"} : v[f] = w[f]
  BY DEF Fields
<1>7. /\ v.kind = work[s].kind /\ v.h = work[s].h /\ v.cfg = w.cfg /\ v.makes = w.makes
      /\ v.holds = w.holds /\ v.sent = w.sent /\ v.left = w.left
  BY <1>6 DEF Fields
<1> HIDE DEF v
<1>8. DOMAIN work' = Sessions /\ work'[s] = v /\ \A t \in Sessions \ {s} : work'[t] = work[t]
  BY <1>1, <1>5
<1>9. w.left # {} => ~Occurs(r, "send") /\ ~Occurs(r, "users")
  <2>1. CASE w.left \subseteq work[s].left
    BY <1>1, <1>4, <2>1 DEF SessionOK
  <2>2. CASE x = "users"
    BY <1>3, <1>4, <2>2 DEF ScriptOK
  <2>3. QED
    BY <2>1, <2>2
<1>10. SessionOK(v)
  <2>1. v.kind # "none" /\ Occurs(v.todo, "config") => v.h \in Households
    BY <1>1, <1>2, <1>4, <1>6, <1>7 DEF SessionOK
  <2>2. v.sent \in BOOLEAN /\ v.left \subseteq Households /\ (v.makes => v.holds)
    BY <1>7
  <2>3. QED
    BY <1>4, <1>6, <1>7, <1>9, <2>1, <2>2 DEF SessionOK
<1>11. \A h \in Households : Carries(v, h) => Carries(work[s], h)
  BY <1>2, <1>4, <1>6, <1>7 DEF Carries
<1>12. ASSUME x = "send" PROVE ~Carries(v, work[s].h) /\ Carries(work[s], work[s].h)
  <2>1. Occurs(q, "send") /\ ~Occurs(r, "send") /\ ~Occurs(q, "users") /\ ~Occurs(r, "users")
    BY <1>3, <1>4, <1>12 DEF ScriptOK
  <2>2. w.left = {}
    BY <1>1, <1>12, <2>1 DEF SessionOK
  <2>3. QED
    BY <1>2, <1>6, <1>7, <2>1, <2>2 DEF Carries
<1>13. \A t \in Sessions : SessionOK(work'[t])
  BY <1>8, <1>10 DEF RowsInv
<1>14. QED
  BY <1>6, <1>8, <1>11, <1>12, <1>13

LEMMA GoesQuiet ==
  ASSUME Inv, NEW s \in Sessions, NEW x, At(s, x), x \notin {"commit", "delay"},
         NEW w, Goes(s, w), DOMAIN w = Fields,
         w.kind = work[s].kind, w.h = work[s].h, w.cfg \in Configs \cup {None},
         w.makes = work[s].makes, w.seeds = work[s].seeds, w.sent = work[s].sent,
         work[s].holds => w.holds, w.left \subseteq Households,
         w.left \subseteq work[s].left \/ x = "users",
         UNCHANGED <<rows, queue, sent, raced, redelivered>>
  PROVE  Inv'
<1>1. RowsInv /\ SessionOK(work[s])
  BY DEF Inv, RowsInv
<1>2. (w.makes => w.holds) /\ w.sent \in BOOLEAN
  BY <1>1 DEF SessionOK
<1>3. /\ DOMAIN work' = Sessions
      /\ \A t \in Sessions \ {s} : work'[t] = work[t]
      /\ \A t \in Sessions : SessionOK(work'[t])
      /\ \A f \in Fields \ {"todo"} : work'[s][f] = w[f]
      /\ \A t \in Sessions, h \in Households :
           Carries(work'[t], h) => Carries(work[t], h)
  BY <1>1, <1>2, GoesOn
<1>4. LessRows(work'[s], work[s])
  BY <1>3 DEF LessRows, Fields
<1>5. \A t \in Sessions \ {s} : LessRows(work'[t], work[t])
  BY <1>3 DEF LessRows
<1>6. QED
  BY <1>3, <1>4, <1>5, Quiet

\* s is over.
LEMMA LeavesQuiet ==
  ASSUME Inv, NEW s \in Sessions, work' = [work EXCEPT ![s] = NoSession],
         UNCHANGED <<rows, queue, sent, raced, redelivered>>
  PROVE  Inv'
<1>1. /\ DOMAIN work' = Sessions /\ work'[s] = NoSession
      /\ \A t \in Sessions \ {s} : work'[t] = work[t]
  BY DEF Inv, RowsInv
<1>2. \A t \in Sessions : SessionOK(work'[t]) /\ LessRows(work'[t], work[t])
  BY <1>1, NoSessionIsLess DEF Inv, RowsInv, LessRows
<1>3. \A t \in Sessions, h \in Households : Carries(work'[t], h) => Carries(work[t], h)
  BY <1>1, NoSessionIsLess
<1>4. QED
  BY <1>1, <1>2, <1>3, Quiet

-----------------------------------------------------------------------------
(* Queries *)

\* v with another value for a field that matters to no invariant.
LEMMA Assign ==
  ASSUME NEW v, DOMAIN v = Fields, NEW f \in {"accs", "now", "agg", "kpi", "sheet", "hides",
                                             "balance", "shown", "open", "calm"},
         NEW e, NEW w, w = [v EXCEPT ![f] = e]
  PROVE  /\ DOMAIN w = Fields
         /\ w.kind = v.kind /\ w.h = v.h /\ w.todo = v.todo /\ w.cfg = v.cfg
         /\ w.makes = v.makes /\ w.seeds = v.seeds /\ w.left = v.left
         /\ w.sent = v.sent /\ w.holds = v.holds
BY DEF Fields

LEMMA AssignQuiet ==
  ASSUME Inv, NEW s \in Sessions, NEW x, At(s, x), x \notin {"commit", "delay"},
         NEW f \in {"accs", "now", "agg", "kpi", "sheet", "hides",
                    "balance", "shown", "open", "calm"},
         NEW e, Goes(s, [work[s] EXCEPT ![f] = e]),
         UNCHANGED <<rows, queue, sent, raced, redelivered>>
  PROVE  Inv'
<1> DEFINE w == [work[s] EXCEPT ![f] = e]
<1>1. SessionOK(work[s]) /\ DOMAIN work[s] = Fields
  BY DEF Inv, RowsInv, SessionOK
<1>2. /\ DOMAIN w = Fields
      /\ w.kind = work[s].kind /\ w.h = work[s].h /\ w.cfg = work[s].cfg
      /\ w.makes = work[s].makes /\ w.seeds = work[s].seeds /\ w.left = work[s].left
      /\ w.sent = work[s].sent /\ w.holds = work[s].holds
  BY <1>1, Assign
<1>3. work[s].cfg \in Configs \cup {None} /\ work[s].left \subseteq Households
  BY <1>1 DEF SessionOK
<1> HIDE DEF w
<1>4. Goes(s, w)
  BY DEF w
<1>5. QED
  BY <1>2, <1>3, <1>4, GoesQuiet

LEMMA Queries1 ==
  ASSUME Inv, NEW s \in Sessions,
         \/ SelectAccounts(s) \/ SelectPeriod(s) \/ SelectSheetAccounts(s)
         \/ SelectSheet(s) \/ SelectBalances(s) \/ CountUncategorized(s)
  PROVE  Inv'
<1>1. UNCHANGED <<rows, queue, sent, raced, redelivered>>
  BY DEF SelectAccounts, SelectPeriod, SelectSheetAccounts, SelectSheet, SelectBalances,
         CountUncategorized, celery, history
<1>2. CASE SelectAccounts(s)
  BY <1>1, <1>2, AssignQuiet DEF SelectAccounts
<1>3. CASE SelectPeriod(s)
  BY <1>1, <1>3, AssignQuiet DEF SelectPeriod
<1>4. CASE SelectSheetAccounts(s)
  BY <1>1, <1>4, AssignQuiet DEF SelectSheetAccounts
<1>5. CASE SelectSheet(s)
  BY <1>1, <1>5, AssignQuiet DEF SelectSheet
<1>6. CASE SelectBalances(s)
  BY <1>1, <1>6, AssignQuiet DEF SelectBalances
<1>7. CASE CountUncategorized(s)
  BY <1>1, <1>7, AssignQuiet DEF CountUncategorized
<1>8. QED
  BY <1>2, <1>3, <1>4, <1>5, <1>6, <1>7

LEMMA RaiseQuiet ==
  ASSUME Inv, NEW s \in Sessions, Raise(s)
  PROVE  Inv'
BY LeavesQuiet DEF Raise, Leaves

LEMMA Queries2 ==
  ASSUME Inv, NEW s \in Sessions,
         SelectPrevious(s) \/ SaveSnapshots(s) \/ SaveProjection(s) \/ UpdateConfig(s)
  PROVE  Inv'
<1>1. /\ DOMAIN work[s] = Fields /\ work[s].left \subseteq Households
      /\ work[s].cfg \in Configs \cup {None}
  BY DEF Inv, RowsInv, SessionOK
<1>2. CASE SelectPrevious(s)
  <2> DEFINE g == Aggregates(work[s].now, Counted(work[s].accs, Before))
             w == [work[s] EXCEPT !.agg = g, !.now = {}]
  <2> HIDE DEF g
  <2>1. /\ DOMAIN w = Fields
        /\ w.kind = work[s].kind /\ w.h = work[s].h /\ w.cfg = work[s].cfg
        /\ w.makes = work[s].makes /\ w.seeds = work[s].seeds /\ w.left = work[s].left
        /\ w.sent = work[s].sent /\ w.holds = work[s].holds
    BY <1>1 DEF Fields
  <2> HIDE DEF w
  <2>2. At(s, "previous") /\ Goes(s, w) /\ UNCHANGED <<rows, queue, sent, raced, redelivered>>
    BY <1>2 DEF SelectPrevious, w, g, celery, history
  <2>3. QED
    BY <1>1, <2>1, <2>2, GoesQuiet
<1>3. CASE SaveSnapshots(s)
  <2>1. CASE work[s].h \notin alive
    BY <1>3, <2>1, RaiseQuiet DEF SaveSnapshots
  <2>2. CASE work[s].h \in alive
    <3> DEFINE g == [k \in DOMAIN Builtin |-> Compute(Builtin[k], work[s].agg)]
               w == [work[s] EXCEPT !.holds = TRUE, !.kpi = g]
    <3> HIDE DEF g
    <3>1. /\ DOMAIN w = Fields
          /\ w.kind = work[s].kind /\ w.h = work[s].h /\ w.cfg = work[s].cfg
          /\ w.makes = work[s].makes /\ w.seeds = work[s].seeds /\ w.left = work[s].left
          /\ w.sent = work[s].sent /\ w.holds
      BY <1>1 DEF Fields
    <3> HIDE DEF w
    <3>2. At(s, "snapshots") /\ Goes(s, w) /\ UNCHANGED <<rows, queue, sent, raced, redelivered>>
      BY <1>3, <2>2 DEF SaveSnapshots, w, g, celery, history
    <3>3. QED
      BY <1>1, <3>1, <3>2, GoesQuiet
  <2>3. QED
    BY <2>1, <2>2
<1>4. CASE SaveProjection(s)
  <2>1. CASE Raise(s)
    BY <2>1, RaiseQuiet
  <2>2. CASE ~Raise(s)
    <3> DEFINE g == Project(work[s].balance, work[s].agg, work[s].cfg)
               w == [work[s] EXCEPT !.holds = TRUE, !.shown = g]
    <3> HIDE DEF g
    <3>1. /\ DOMAIN w = Fields
          /\ w.kind = work[s].kind /\ w.h = work[s].h /\ w.cfg = work[s].cfg
          /\ w.makes = work[s].makes /\ w.seeds = work[s].seeds /\ w.left = work[s].left
          /\ w.sent = work[s].sent /\ w.holds
      BY <1>1 DEF Fields
    <3> HIDE DEF w
    <3>2. At(s, "projection") /\ Goes(s, w) /\ UNCHANGED <<rows, queue, sent, raced, redelivered>>
      BY <1>4, <2>2 DEF SaveProjection, w, g, celery, history
    <3>3. QED
      BY <1>1, <3>1, <3>2, GoesQuiet
  <2>3. QED
    BY <2>1, <2>2
<1>5. CASE UpdateConfig(s)
  <2>1. PICK c \in Configs : Goes(s, [work[s] EXCEPT !.cfg = c])
    BY <1>5 DEF UpdateConfig
  <2> DEFINE w == [work[s] EXCEPT !.cfg = c]
  <2>2. /\ DOMAIN w = Fields
        /\ w.kind = work[s].kind /\ w.h = work[s].h /\ w.cfg = c
        /\ w.makes = work[s].makes /\ w.seeds = work[s].seeds /\ w.left = work[s].left
        /\ w.sent = work[s].sent /\ w.holds = work[s].holds
    BY <1>1 DEF Fields
  <2> HIDE DEF w
  <2>3. At(s, "update") /\ Goes(s, w) /\ UNCHANGED <<rows, queue, sent, raced, redelivered>>
    BY <1>5, <2>1 DEF UpdateConfig, w, celery, history
  <2>4. QED
    BY <1>1, <2>2, <2>3, GoesQuiet
<1>6. QED
  BY <1>2, <1>3, <1>4, <1>5

LEMMA HideQuiet ==
  ASSUME Inv, NEW s \in Sessions, HideAccounts(s)
  PROVE  Inv'
<1>1. At(s, "joint") /\ UNCHANGED <<rows, queue, sent, raced, redelivered>>
  BY DEF HideAccounts, celery, history
<1>2. /\ DOMAIN work[s] = Fields /\ work[s].left \subseteq Households
      /\ work[s].cfg \in Configs \cup {None}
  BY DEF Inv, RowsInv, SessionOK
<1>3. CASE Goes(s, work[s])
  BY <1>1, <1>2, <1>3, GoesQuiet
<1>4. CASE \E e : Goes(s, [work[s] EXCEPT !.hides = e])
  BY <1>1, <1>4, AssignQuiet
<1>5. QED
  BY <1>3, <1>4 DEF HideAccounts

\* The households that still need a task.
LEMMA UsersQuiet ==
  ASSUME Inv, NEW s \in Sessions, SelectUsers(s)
  PROVE  Inv'
<1> DEFINE w == [work[s] EXCEPT !.left = alive \cap Reported]
<1>1. DOMAIN work[s] = Fields /\ work[s].cfg \in Configs \cup {None}
  BY DEF Inv, RowsInv, SessionOK
<1>2. /\ DOMAIN w = Fields
      /\ w.kind = work[s].kind /\ w.h = work[s].h /\ w.cfg = work[s].cfg
      /\ w.makes = work[s].makes /\ w.seeds = work[s].seeds
      /\ w.left = alive \cap Reported
      /\ w.sent = work[s].sent /\ w.holds = work[s].holds
  BY <1>1 DEF Fields
<1>3. w.left \subseteq Households
  BY <1>2, DataAssumption
<1> HIDE DEF w
<1>4. At(s, "users") /\ Goes(s, w) /\ UNCHANGED <<rows, queue, sent, raced, redelivered>>
  BY DEF SelectUsers, w, celery, history
<1>5. QED
  BY <1>1, <1>2, <1>3, <1>4, GoesQuiet

-----------------------------------------------------------------------------
(* Rows that are seeded *)

LEMMA SeedStep ==
  ASSUME Inv, NEW s \in Sessions, Seed(s)
  PROVE  Inv'
<1> DEFINE missing == {k \in DOMAIN Builtin : kpis[k] = 0}
           w == [work[s] EXCEPT !.seeds = missing]
<1>1. /\ RowsInv /\ SessionOK(work[s]) /\ DOMAIN work[s] = Fields
      /\ work[s].cfg \in Configs \cup {None} /\ work[s].left \subseteq Households
      /\ (work[s].makes => work[s].holds) /\ work[s].sent \in BOOLEAN
  BY DEF Inv, RowsInv, SessionOK
<1>2. /\ DOMAIN w = Fields /\ w.seeds = missing
      /\ w.kind = work[s].kind /\ w.h = work[s].h /\ w.cfg = work[s].cfg
      /\ w.makes = work[s].makes /\ w.left = work[s].left
      /\ w.sent = work[s].sent /\ w.holds = work[s].holds
  BY <1>1 DEF Fields
<1>3. /\ At(s, "seed") /\ Goes(s, w) /\ UNCHANGED <<rows, queue, sent, redelivered>>
      /\ raced' = IF \E t \in Sessions \ {s} : work[t].seeds \cap missing # {}
                  THEN raced \cup {"kpis"} ELSE raced
  BY DEF Seed, celery
<1> HIDE DEF w
<1>4. /\ DOMAIN work' = Sessions
      /\ \A t \in Sessions \ {s} : work'[t] = work[t]
      /\ \A t \in Sessions : SessionOK(work'[t])
      /\ \A f \in Fields \ {"todo"} : work'[s][f] = w[f]
      /\ \A t \in Sessions, h \in Households :
           Carries(work'[t], h) => Carries(work[t], h)
  BY <1>1, <1>2, <1>3, GoesOn
<1>5. /\ work'[s].seeds = missing /\ work'[s].makes = work[s].makes
      /\ work'[s].h = work[s].h /\ work'[s].sent = work[s].sent
  BY <1>2, <1>4 DEF Fields
<1>6. raced \subseteq raced' /\ configs' = configs /\ kpis' = kpis /\ digests' = digests
      /\ queue' = queue /\ sent' = sent /\ redelivered' = redelivered
  BY <1>3 DEF rows
<1>7. RowsInv'
  BY <1>1, <1>4, <1>6 DEF RowsInv
<1>8. ConfigInv'
  BY <1>4, <1>5, <1>6, ConfigKept DEF Inv
<1>9. CarryInv'
  BY <1>4, <1>6, <1>7, CarrySame
<1>10. StoredInv'
  BY <1>4, <1>5, <1>6, <1>7, StoredSame
<1>11. KpiInv'
  <2> SUFFICES ASSUME "kpis" \notin raced', NEW k \in DOMAIN Builtin
               PROVE  /\ kpis'[k] <= 1
                      /\ \A t \in Sessions : k \in work'[t].seeds => kpis'[k] = 0
                      /\ \A t, u \in Sessions :
                           t # u /\ k \in work'[t].seeds => k \notin work'[u].seeds
    BY DEF KpiInv
  <2>1. "kpis" \notin raced /\ \A t \in Sessions \ {s} : work[t].seeds \cap missing = {}
    BY <1>3
  <2>2. /\ kpis[k] <= 1
        /\ \A t \in Sessions : k \in work[t].seeds => kpis[k] = 0
        /\ \A t, u \in Sessions : t # u /\ k \in work[t].seeds => k \notin work[u].seeds
    BY <2>1 DEF Inv, KpiInv
  <2>3. \A t \in Sessions : k \in work'[t].seeds => kpis'[k] = 0
    BY <1>4, <1>5, <1>6, <2>2
  <2>4. \A t, u \in Sessions : t # u /\ k \in work'[t].seeds => k \notin work'[u].seeds
    BY <1>4, <1>5, <2>1, <2>2
  <2>5. QED
    BY <1>6, <2>2, <2>3, <2>4
<1>12. QED
  BY <1>7, <1>8, <1>9, <1>10, <1>11 DEF Inv

LEMMA LoadConfigStep ==
  ASSUME Inv, NEW s \in Sessions, LoadConfig(s)
  PROVE  Inv'
<1> DEFINE h == work[s].h
           n == Len(configs[h])
<1>1. /\ RowsInv /\ SessionOK(work[s]) /\ DOMAIN work[s] = Fields
      /\ work[s].cfg \in Configs \cup {None} /\ work[s].left \subseteq Households
      /\ (work[s].makes => work[s].holds) /\ work[s].sent \in BOOLEAN
  BY DEF Inv, RowsInv, SessionOK
<1>2. At(s, "config")
  BY DEF LoadConfig
<1>3. h \in Households
  <2>1. ScriptOK(work[s].todo) /\ Head(work[s].todo) = "config" /\ work[s].kind # "none"
    BY <1>1, <1>2 DEF At, InFlight, SessionOK
  <2>2. Occurs(work[s].todo, "config")
    BY <2>1, Rest
  <2>3. QED
    BY <1>1, <2>1, <2>2 DEF SessionOK
<1>4. configs[h] \in Seq(Configs \cup {None})
  BY <1>1, <1>3 DEF RowsInv
<1>5. CASE Raise(s)
  BY <1>5, RaiseQuiet
<1>6. CASE n = 1 /\ Goes(s, [work[s] EXCEPT !.cfg = configs[h][1]])
           /\ UNCHANGED <<rows, queue, sent, raced, redelivered>>
  <2> DEFINE c == configs[h][1]
             w == [work[s] EXCEPT !.cfg = c]
  <2>1. c \in Configs \cup {None}
    BY <1>4, <1>6, ElementOfSeq
  <2> HIDE DEF c
  <2>2. /\ DOMAIN w = Fields /\ w.cfg = c
        /\ w.kind = work[s].kind /\ w.h = work[s].h /\ w.seeds = work[s].seeds
        /\ w.makes = work[s].makes /\ w.left = work[s].left
        /\ w.sent = work[s].sent /\ w.holds = work[s].holds
    BY <1>1 DEF Fields
  <2> HIDE DEF w
  <2>3. Goes(s, w)
    BY <1>6 DEF w, c
  <2>4. QED
    BY <1>1, <1>2, <1>6, <2>1, <2>2, <2>3, GoesQuiet
<1>7. CASE /\ n = 0
           /\ Goes(s, [work[s] EXCEPT !.cfg = Default, !.makes = TRUE, !.holds = TRUE])
           /\ raced' = IF \E t \in Sessions \ {s} : work[t].makes /\ work[t].h = h
                       THEN raced \cup {h} ELSE raced
           /\ UNCHANGED <<rows, queue, sent, redelivered>>
  <2> DEFINE w == [work[s] EXCEPT !.cfg = Default, !.makes = TRUE, !.holds = TRUE]
  <2>1. /\ DOMAIN w = Fields /\ w.cfg = Default /\ w.makes = TRUE /\ w.holds = TRUE
        /\ w.kind = work[s].kind /\ w.h = work[s].h /\ w.seeds = work[s].seeds
        /\ w.left = work[s].left /\ w.sent = work[s].sent
    BY <1>1 DEF Fields
  <2>2. Default \in Configs \cup {None}
    BY DataAssumption
  <2> HIDE DEF w
  <2>3. Goes(s, w)
    BY <1>7 DEF w
  <2>4. /\ DOMAIN work' = Sessions
        /\ \A t \in Sessions \ {s} : work'[t] = work[t]
        /\ \A t \in Sessions : SessionOK(work'[t])
        /\ \A f \in Fields \ {"todo"} : work'[s][f] = w[f]
        /\ \A t \in Sessions, g \in Households :
             Carries(work'[t], g) => Carries(work[t], g)
    BY <1>1, <1>2, <2>1, <2>2, <2>3, GoesOn
  <2>5. /\ work'[s].seeds = work[s].seeds /\ work'[s].h = h /\ work'[s].sent = work[s].sent
    BY <2>1, <2>4 DEF Fields
  <2>6. /\ raced \subseteq raced' /\ configs' = configs /\ kpis' = kpis /\ digests' = digests
        /\ queue' = queue /\ sent' = sent /\ redelivered' = redelivered
    BY <1>7 DEF rows
  <2>7. RowsInv'
    BY <1>1, <2>4, <2>6 DEF RowsInv
  <2>8. KpiInv'
    BY <2>4, <2>5, <2>6, KpiKept DEF Inv
  <2>9. CarryInv'
    BY <2>4, <2>6, <2>7, CarrySame
  <2>10. StoredInv'
    BY <2>4, <2>5, <2>6, <2>7, StoredSame
  <2>11. ConfigInv'
    <3> SUFFICES ASSUME NEW g \in Households \ raced'
                 PROVE  /\ Len(configs[g]) <= 1
                        /\ \A t \in Sessions :
                             work'[t].makes /\ work'[t].h = g => configs[g] = <<>>
                        /\ \A t, u \in Sessions :
                             t # u /\ work'[t].makes /\ work'[t].h = g
                               => ~(work'[u].makes /\ work'[u].h = g)
      BY <2>6 DEF ConfigInv
    <3>1. /\ Len(configs[g]) <= 1
          /\ \A t \in Sessions : work[t].makes /\ work[t].h = g => configs[g] = <<>>
          /\ \A t, u \in Sessions :
               t # u /\ work[t].makes /\ work[t].h = g => ~(work[u].makes /\ work[u].h = g)
      BY <2>6 DEF Inv, ConfigInv
    <3>2. configs[h] = <<>>
      BY <1>4, <1>7, EmptySeq
    <3>3. g = h => \A t \in Sessions \ {s} : ~(work[t].makes /\ work[t].h = h)
      BY <1>7
    <3>4. QED
      BY <2>4, <2>5, <3>1, <3>2, <3>3
  <2>12. QED
    BY <2>7, <2>8, <2>9, <2>10, <2>11 DEF Inv
<1>8. QED
  BY <1>5, <1>6, <1>7 DEF LoadConfig, celery, history

-----------------------------------------------------------------------------
(* Digests *)

LEMMA SendStep ==
  ASSUME Inv, NEW s \in Sessions, Send(s)
  PROVE  Inv'
<1> DEFINE h == work[s].h
           w == [work[s] EXCEPT !.sent = TRUE]
<1>1. /\ RowsInv /\ SessionOK(work[s]) /\ DOMAIN work[s] = Fields
      /\ work[s].cfg \in Configs \cup {None} /\ work[s].left \subseteq Households
      /\ (work[s].makes => work[s].holds) /\ work[s].sent \in BOOLEAN
  BY DEF Inv, RowsInv, SessionOK
<1>2. At(s, "send") /\ UNCHANGED <<rows, queue, raced, redelivered>>
  BY DEF Send, celery, history
<1>3. CASE Goes(s, work[s]) /\ UNCHANGED sent
  BY <1>1, <1>2, <1>3, GoesQuiet
<1>4. CASE h \in Linked /\ Goes(s, w) /\ sent' = [sent EXCEPT ![h] = @ + 1]
  <2>1. /\ DOMAIN w = Fields /\ w.sent = TRUE
        /\ w.kind = work[s].kind /\ w.h = h /\ w.cfg = work[s].cfg
        /\ w.makes = work[s].makes /\ w.seeds = work[s].seeds
        /\ w.left = work[s].left /\ w.holds = work[s].holds
    BY <1>1 DEF Fields
  <2> HIDE DEF w
  <2>2. Goes(s, w)
    BY <1>4
  <2>3. /\ DOMAIN work' = Sessions
        /\ \A t \in Sessions \ {s} : work'[t] = work[t]
        /\ \A t \in Sessions : SessionOK(work'[t])
        /\ \A f \in Fields \ {"todo"} : work'[s][f] = w[f]
        /\ \A t \in Sessions, g \in Households :
             Carries(work'[t], g) => Carries(work[t], g)
        /\ ~Carries(work'[s], work[s].h) \/ work[s].h \notin Households
        /\ Carries(work[s], work[s].h)
    <3>1. /\ w.makes => w.holds
          /\ w.sent \in BOOLEAN /\ w.left \subseteq Households
          /\ w.left \subseteq work[s].left /\ w.cfg \in Configs \cup {None}
      BY <1>1, <2>1
    <3>2. "send" \notin {"commit", "delay"} /\ w.kind = work[s].kind /\ w.h = work[s].h
      BY <2>1
    <3>3. QED
      BY <1>1, <1>2, <2>1, <2>2, <3>1, <3>2, GoesOn
  <2>4. /\ work'[s].seeds = work[s].seeds /\ work'[s].h = h
        /\ work'[s].makes = work[s].makes /\ work'[s].sent = TRUE
    BY <2>1, <2>3 DEF Fields
  <2>5. /\ configs' = configs /\ kpis' = kpis /\ digests' = digests /\ raced' = raced
        /\ queue' = queue /\ redelivered' = redelivered
    BY <1>2 DEF rows
  <2>6. h \in Households
    BY <1>4, DataAssumption
  <2>7. /\ sent \in [Households -> Nat] /\ queue \in [Messages -> Nat]
        /\ digests \in [Households -> [BOOLEAN -> Nat]]
    BY <1>1 DEF RowsInv
  <2>8. sent' \in [Households -> Nat] /\ sent'[h] = sent[h] + 1
        /\ \A g \in Households \ {h} : sent'[g] = sent[g]
    BY <1>4, <2>6, <2>7
  <2>9. RowsInv'
    BY <1>1, <2>3, <2>5, <2>8 DEF RowsInv
  <2>10. ConfigInv' /\ KpiInv'
    BY <2>3, <2>4, <2>5, ConfigKept, KpiKept DEF Inv
  <2>11. CarryInv'
    <3> SUFFICES ASSUME NEW g \in Households, redelivered \cap {g, All} = {}
                 PROVE  /\ queue[All] + queue[g] + sent'[g] <= 1
                        /\ \A t \in Sessions : Carries(work'[t], g)
                             => queue[All] + queue[g] + sent'[g] = 0
                        /\ \A t, u \in Sessions :
                             t # u /\ Carries(work'[t], g) => ~Carries(work'[u], g)
      BY <2>5 DEF CarryInv
    <3>1. /\ queue[All] + queue[g] + sent[g] <= 1
          /\ \A t \in Sessions : Carries(work[t], g) => queue[All] + queue[g] + sent[g] = 0
          /\ \A t, u \in Sessions : t # u /\ Carries(work[t], g) => ~Carries(work[u], g)
      BY DEF Inv, CarryInv
    <3>2. \A t, u \in Sessions : t # u /\ Carries(work'[t], g) => ~Carries(work'[u], g)
      BY <2>3, <3>1
    <3>3. CASE g # h
      BY <2>3, <2>8, <3>1, <3>2, <3>3
    <3>4. CASE g = h
      <4>1. queue[All] + queue[h] + sent[h] = 0
        BY <2>3, <3>1, <3>4
      <4>2. queue[All] \in Nat /\ queue[h] \in Nat /\ sent[h] \in Nat
        BY <2>6, <2>7 DEF Messages
      <4> DEFINE m == queue[All]
                 n == queue[h]
                 k == sent[h]
      <4> HIDE DEF m, n, k
      <4>3. m + n + (k + 1) <= 1
        BY <4>1, <4>2 DEF m, n, k
      <4>4. queue[All] + queue[h] + sent'[h] <= 1
        BY <2>8, <4>3 DEF m, n, k
      <4>5. \A t \in Sessions : ~Carries(work'[t], h)
        BY <2>3, <2>6, <3>1, <3>4
      <4>6. QED
        BY <3>4, <4>4, <4>5
    <3>5. QED
      BY <3>3, <3>4
  <2>12. StoredInv'
    <3> SUFFICES ASSUME NEW g \in Households
                 PROVE  digests[g][TRUE] + Cardinality(Storing(g)') <= sent'[g]
      BY <2>5 DEF StoredInv
    <3>1. digests[g][TRUE] + Cardinality(Storing(g)) <= sent[g]
      BY DEF Inv, StoredInv
    <3>2. digests[g][TRUE] \in Nat /\ sent[g] \in Nat
      BY <2>7
    <3>3. IsFiniteSet(Storing(g)) /\ Cardinality(Storing(g)) \in Nat
      BY StoringFinite
    <3>4. CASE g # h
      <4>1. Storing(g)' = Storing(g)
        BY <2>3, <2>4, <3>4 DEF Storing
      <4>2. QED
        BY <2>8, <3>1, <3>4, <4>1
    <3>5. CASE g = h
      <4>1. Storing(g)' = Storing(g) \cup {s}
        BY <2>3, <2>4, <3>5 DEF Storing
      <4>2. /\ Cardinality(Storing(g) \cup {s}) <= Cardinality(Storing(g)) + 1
            /\ Cardinality(Storing(g) \cup {s}) \in Nat
        BY <3>3, FS_AddElement
      <4> DEFINE m == Cardinality(Storing(g) \cup {s})
                 n == Cardinality(Storing(g))
                 d == digests[g][TRUE]
                 k == sent[g]
      <4>3. m <= n + 1 /\ m \in Nat /\ n \in Nat /\ d \in Nat /\ k \in Nat /\ d + n <= k
        BY <3>1, <3>2, <3>3, <4>2
      <4>4. sent'[g] = k + 1
        BY <2>8, <3>5
      <4>5. Cardinality(Storing(g)') = m
        BY <4>1
      <4> HIDE DEF m, n, d, k
      <4>6. d + m <= k + 1
        BY <4>3
      <4>7. QED
        BY <4>4, <4>5, <4>6 DEF d
    <3>6. QED
      BY <3>4, <3>5
  <2>13. QED
    BY <2>9, <2>10, <2>11, <2>12 DEF Inv
<1>5. QED
  BY <1>3, <1>4 DEF Send

LEMMA DelayStep ==
  ASSUME Inv, NEW s \in Sessions, Delay(s)
  PROVE  Inv'
<1>1. /\ RowsInv /\ SessionOK(work[s]) /\ DOMAIN work[s] = Fields
      /\ work[s].left \subseteq Households
      /\ queue \in [Messages -> Nat] /\ sent \in [Households -> Nat]
  BY DEF Inv, RowsInv, SessionOK
<1>2. UNCHANGED <<rows, sent, raced, redelivered>>
  BY DEF Delay, history
<1>3. CASE Leaves(s) /\ UNCHANGED queue
  BY <1>2, <1>3, LeavesQuiet DEF Leaves
<1>4. ASSUME NEW h \in work[s].left, queue' = [queue EXCEPT ![h] = @ + 1],
             work' = [work EXCEPT ![s] = [work[s] EXCEPT !.left = work[s].left \ {h}]]
      PROVE  Inv'
  <2> DEFINE left == work[s].left \ {h}
             w == [work[s] EXCEPT !.left = left]
  <2> HIDE DEF left
  <2>1. /\ DOMAIN w = Fields /\ w.left = left
        /\ w.kind = work[s].kind /\ w.h = work[s].h /\ w.cfg = work[s].cfg
        /\ w.todo = work[s].todo /\ w.makes = work[s].makes
        /\ w.seeds = work[s].seeds /\ w.sent = work[s].sent /\ w.holds = work[s].holds
    BY <1>1 DEF Fields
  <2>2. work' = [work EXCEPT ![s] = w]
    BY <1>4 DEF left
  <2> HIDE DEF w
  <2>3. DOMAIN work' = Sessions /\ work'[s] = w /\ \A t \in Sessions \ {s} : work'[t] = work[t]
    BY <1>1, <2>2 DEF RowsInv
  <2>4. left \subseteq work[s].left /\ h \notin left
    BY DEF left
  <2>5. SessionOK(w)
    BY <1>1, <2>1, <2>4 DEF SessionOK
  <2>6. /\ configs' = configs /\ kpis' = kpis /\ digests' = digests /\ raced' = raced
        /\ sent' = sent /\ redelivered' = redelivered
    BY <1>2 DEF rows
  <2>7. h \in Households /\ h \in Messages /\ All \in Messages /\ h # All
    BY <1>1, <1>4, DataAssumption DEF Messages
  <2>8. queue' \in [Messages -> Nat] /\ queue'[h] = queue[h] + 1
        /\ \A t \in Messages \ {h} : queue'[t] = queue[t]
    BY <1>1, <1>4, <2>7
  <2>9. RowsInv'
    BY <1>1, <2>3, <2>5, <2>6, <2>8 DEF RowsInv
  <2>10. \A t \in Sessions : LessRows(work'[t], work[t])
    BY <2>1, <2>3 DEF LessRows
  <2>11. ConfigInv' /\ KpiInv' /\ StoredInv'
    BY <2>6, <2>9, <2>10, ConfigKept, KpiKept, StoredSame DEF Inv, LessRows
  <2>12. /\ \A t \in Sessions, g \in Households : Carries(work'[t], g) => Carries(work[t], g)
         /\ Carries(work[s], h) /\ ~Carries(work'[s], h)
    BY <1>1, <1>4, <2>1, <2>3, <2>4 DEF Carries, SessionOK
  <2>13. CarryInv'
    <3> SUFFICES ASSUME NEW g \in Households, redelivered \cap {g, All} = {}
                 PROVE  /\ queue'[All] + queue'[g] + sent[g] <= 1
                        /\ \A t \in Sessions : Carries(work'[t], g)
                             => queue'[All] + queue'[g] + sent[g] = 0
                        /\ \A t, u \in Sessions :
                             t # u /\ Carries(work'[t], g) => ~Carries(work'[u], g)
      BY <2>6 DEF CarryInv
    <3>1. /\ queue[All] + queue[g] + sent[g] <= 1
          /\ \A t \in Sessions : Carries(work[t], g) => queue[All] + queue[g] + sent[g] = 0
          /\ \A t, u \in Sessions : t # u /\ Carries(work[t], g) => ~Carries(work[u], g)
      BY DEF Inv, CarryInv
    <3>2. \A t, u \in Sessions : t # u /\ Carries(work'[t], g) => ~Carries(work'[u], g)
      BY <2>12, <3>1
    <3>3. queue'[All] = queue[All]
      BY <2>7, <2>8
    <3>4. CASE g # h
      <4>1. queue'[g] = queue[g]
        BY <2>8, <3>4 DEF Messages
      <4>2. QED
        BY <2>12, <3>1, <3>2, <3>3, <4>1
    <3>5. CASE g = h
      <4>1. queue[All] + queue[h] + sent[h] = 0
        BY <2>12, <3>1, <3>5
      <4>2. queue[All] \in Nat /\ queue[h] \in Nat /\ sent[h] \in Nat
        BY <1>1, <2>7
      <4> DEFINE m == queue[All]
                 n == queue[h]
                 k == sent[h]
      <4> HIDE DEF m, n, k
      <4>3. m + (n + 1) + k <= 1
        BY <4>1, <4>2 DEF m, n, k
      <4>4. queue'[All] + queue'[h] + sent[h] <= 1
        BY <2>8, <3>3, <4>3 DEF m, n, k
      <4>5. \A t \in Sessions : ~Carries(work'[t], h)
        BY <2>12, <2>7, <3>1, <3>5
      <4>6. QED
        BY <3>2, <3>5, <4>4, <4>5
    <3>6. QED
      BY <3>4, <3>5
  <2>14. QED
    BY <2>9, <2>11, <2>13 DEF Inv
<1>5. QED
  BY <1>3, <1>4 DEF Delay

\* Comparisons that the provers do not do on terms of functions.
LEMMA Reflexive == \A n \in Nat : n <= n /\ n <= n + 1 /\ n + 1 <= n + 1
OBVIOUS

\* Its commit adds the configuration, the definitions and the digest of s.
LEMMA CommitRows ==
  ASSUME Inv, NEW s \in Sessions, Commit(s)
  PROVE  /\ configs' \in [Households -> Seq(Configs \cup {None})]
         /\ \A h \in Households :
              IF work[s].makes /\ work[s].h = h
              THEN Len(configs'[h]) = Len(configs[h]) + 1
              ELSE Len(configs'[h]) = Len(configs[h])
         /\ digests' \in [Households -> [BOOLEAN -> Nat]]
         /\ \A h \in Households :
              digests'[h][TRUE] <= IF work[s].sent /\ work[s].h = h
                                   THEN digests[h][TRUE] + 1 ELSE digests[h][TRUE]
<1> DEFINE w == work[s]
           g == w.h
<1>1. /\ configs \in [Households -> Seq(Configs \cup {None})]
      /\ digests \in [Households -> [BOOLEAN -> Nat]]
      /\ w.cfg \in Configs \cup {None} /\ w.sent \in BOOLEAN
  BY DEF Inv, RowsInv, SessionOK
<1>2. /\ configs' = IF w.makes THEN [configs EXCEPT ![g] = Append(@, w.cfg)]
                    ELSE IF w.kind = "update" /\ g \in alive
                         THEN [configs EXCEPT ![g] = [configs[g] EXCEPT ![1] = w.cfg]]
                    ELSE configs
      /\ digests' = IF w.kind = "digest" THEN [digests EXCEPT ![g] =
                           [digests[g] EXCEPT ![w.sent] = digests[g][w.sent] + 1]]
                    ELSE digests
  BY DEF Commit
<1> HIDE DEF w, g
<1>3. ASSUME NEW q \in Seq(Configs \cup {None})
      PROVE  /\ Append(q, w.cfg) \in Seq(Configs \cup {None})
             /\ Len(Append(q, w.cfg)) = Len(q) + 1
             /\ [q EXCEPT ![1] = w.cfg] \in Seq(Configs \cup {None})
             /\ Len([q EXCEPT ![1] = w.cfg]) = Len(q)
  <2> DEFINE r == [q EXCEPT ![1] = w.cfg]
  <2>0. /\ Append(q, w.cfg) \in Seq(Configs \cup {None})
        /\ Len(Append(q, w.cfg)) = Len(q) + 1
    BY <1>1, AppendProperties
  <2>1. CASE 1 \in 1..Len(q)
    BY <1>1, <2>0, <2>1, ExceptSeq
  <2>2. CASE 1 \notin 1..Len(q)
    <3>1. q = <<>>
      BY <2>2, EmptySeq, LenProperties
    <3>2. r = q
      BY <3>1
    <3> HIDE DEF r
    <3>3. r \in Seq(Configs \cup {None}) /\ Len(r) = Len(q)
      BY <3>2
    <3>4. QED
      BY <2>0, <3>3 DEF r
  <2>3. QED
    BY <2>1, <2>2
<1>4. ASSUME NEW h \in Households
      PROVE  /\ configs'[h] \in Seq(Configs \cup {None})
             /\ IF w.makes /\ g = h THEN Len(configs'[h]) = Len(configs[h]) + 1
                ELSE Len(configs'[h]) = Len(configs[h])
  <2>1. configs[h] \in Seq(Configs \cup {None})
    BY <1>1
  <2>2. \/ configs'[h] = configs[h] /\ ~(w.makes /\ g = h)
        \/ configs'[h] = Append(configs[h], w.cfg) /\ w.makes /\ g = h
        \/ configs'[h] = [configs[h] EXCEPT ![1] = w.cfg] /\ ~w.makes
    BY <1>1, <1>2
  <2>3. QED
    BY <1>3, <2>1, <2>2
<1>5. DOMAIN configs' = Households /\ configs' = [h \in DOMAIN configs' |-> configs'[h]]
  BY <1>1, <1>2
<1>6. configs' \in [Households -> Seq(Configs \cup {None})]
  BY <1>4, <1>5
<1>7. ASSUME NEW d \in [BOOLEAN -> Nat]
      PROVE  LET e == [d EXCEPT ![w.sent] = d[w.sent] + 1]
             IN  e \in [BOOLEAN -> Nat] /\ e[TRUE] = IF w.sent THEN d[TRUE] + 1 ELSE d[TRUE]
  <2> DEFINE n == d[w.sent] + 1
             e == [d EXCEPT ![w.sent] = n]
  <2>1. n \in Nat /\ w.sent \in BOOLEAN
    BY <1>1
  <2>2. w.sent => n = d[TRUE] + 1
    OBVIOUS
  <2> HIDE DEF n
  <2>3. e \in [BOOLEAN -> Nat]
    BY <2>1
  <2>4. CASE w.sent
    <3>1. w.sent = TRUE
      BY <2>1, <2>4
    <3>2. e[TRUE] = n
      BY <3>1
    <3>3. QED
      BY <2>2, <2>3, <2>4, <3>2 DEF n
  <2>5. CASE ~w.sent
    <3>1. w.sent = FALSE
      BY <2>1, <2>5
    <3>2. e[TRUE] = d[TRUE]
      BY <3>1
    <3>3. QED
      BY <2>3, <2>5, <3>2 DEF n
  <2>6. QED
    BY <2>4, <2>5
<1>8. ASSUME NEW h \in Households
      PROVE  /\ digests'[h] \in [BOOLEAN -> Nat]
             /\ digests'[h][TRUE] <= IF w.sent /\ g = h
                                     THEN digests[h][TRUE] + 1 ELSE digests[h][TRUE]
  <2> DEFINE d == digests[h]
             e == [d EXCEPT ![w.sent] = d[w.sent] + 1]
  <2>1. d \in [BOOLEAN -> Nat]
    BY <1>1
  <2>2. \/ digests'[h] = d
        \/ digests'[h] = e /\ g = h
    BY <1>1, <1>2
  <2>3. e \in [BOOLEAN -> Nat] /\ e[TRUE] = IF w.sent THEN d[TRUE] + 1 ELSE d[TRUE]
    BY <1>7, <2>1
  <2> HIDE DEF d, e
  <2>4. d[TRUE] \in Nat
    BY <2>1
  <2>5. CASE digests'[h] = d
    <3>1. d[TRUE] <= d[TRUE] /\ d[TRUE] <= d[TRUE] + 1
      BY <2>4, Reflexive
    <3>2. QED
      BY <2>1, <2>5, <3>1 DEF d
  <2>6. CASE digests'[h] = e /\ g = h
    <3>1. d[TRUE] <= d[TRUE] /\ d[TRUE] + 1 <= d[TRUE] + 1
      BY <2>4, Reflexive
    <3>2. QED
      BY <2>3, <2>6, <3>1 DEF d
  <2>7. QED
    BY <2>2, <2>5, <2>6
<1>9. DOMAIN digests' = Households /\ digests' = [h \in DOMAIN digests' |-> digests'[h]]
  BY <1>1, <1>2
<1>10. digests' \in [Households -> [BOOLEAN -> Nat]]
  BY <1>8, <1>9
<1>11. QED
  BY <1>4, <1>6, <1>8, <1>10 DEF w, g

\* A session whose calm ends.
LEMMA DisturbedLess ==
  ASSUME NEW t, NEW v, SessionOK(v)
  PROVE  /\ SessionOK(Disturbed(t, v)) /\ LessRows(Disturbed(t, v), v)
         /\ \A h \in Households : Carries(Disturbed(t, v), h) => Carries(v, h)
         /\ Disturbed(t, v).makes = v.makes /\ Disturbed(t, v).h = v.h
         /\ Disturbed(t, v).seeds = v.seeds /\ Disturbed(t, v).sent = v.sent
<1> DEFINE w == [v EXCEPT !.calm = FALSE]
<1>1. DOMAIN v = Fields
  BY DEF SessionOK
<1>2. /\ DOMAIN w = Fields
      /\ w.kind = v.kind /\ w.h = v.h /\ w.todo = v.todo /\ w.cfg = v.cfg
      /\ w.makes = v.makes /\ w.seeds = v.seeds /\ w.left = v.left
      /\ w.sent = v.sent /\ w.holds = v.holds
  BY <1>1 DEF Fields
<1>3. Disturbed(t, v) = v \/ Disturbed(t, v) = w
  BY DEF Disturbed
<1> HIDE DEF w
<1>4. CASE Disturbed(t, v) = v
  BY <1>4 DEF LessRows
<1>5. CASE Disturbed(t, v) = w
  <2>1. SessionOK(w)
    BY <1>2 DEF SessionOK
  <2>2. LessRows(w, v) /\ \A h \in Households : Carries(w, h) => Carries(v, h)
    BY <1>2 DEF LessRows, Carries
  <2>3. QED
    BY <1>2, <1>5, <2>1, <2>2
<1>6. QED
  BY <1>3, <1>4, <1>5

LEMMA CommitStep ==
  ASSUME Inv, NEW s \in Sessions, Commit(s)
  PROVE  Inv'
<1> DEFINE w == work[s]
<1>1. /\ \A t \in Sessions : SessionOK(work[t])
      /\ configs \in [Households -> Seq(Configs \cup {None})]
      /\ kpis \in [DOMAIN Builtin -> Nat]
      /\ digests \in [Households -> [BOOLEAN -> Nat]] /\ sent \in [Households -> Nat]
      /\ queue \in [Messages -> Nat]
  BY DEF Inv, RowsInv
<1>2. /\ kpis' = [k \in DOMAIN Builtin |-> kpis[k] + IF k \in w.seeds THEN 1 ELSE 0]
      /\ work' = [t \in Sessions |->
                    IF t = s THEN NoSession
                    ELSE IF w.hides = {} THEN work[t] ELSE Disturbed(t, work[t])]
      /\ queue' = queue /\ sent' = sent /\ raced' = raced /\ redelivered' = redelivered
  BY DEF Commit, history
<1>3. /\ DOMAIN work' = Sessions /\ work'[s] = NoSession
      /\ \A t \in Sessions \ {s} : work'[t] = work[t] \/ work'[t] = Disturbed(t, work[t])
  BY <1>2
<1>4. \A t \in Sessions \ {s} :
        /\ SessionOK(work'[t]) /\ work'[t].makes = work[t].makes /\ work'[t].h = work[t].h
        /\ work'[t].seeds = work[t].seeds /\ work'[t].sent = work[t].sent
        /\ \A h \in Households : Carries(work'[t], h) => Carries(work[t], h)
  <2> TAKE t \in Sessions \ {s}
  <2> DEFINE v == work[t]
             u == work'[t]
  <2>1. SessionOK(v) /\ (u = v \/ u = Disturbed(t, v))
    BY <1>1, <1>3
  <2> HIDE DEF u, v
  <2>2. /\ SessionOK(u) /\ u.makes = v.makes /\ u.h = v.h /\ u.seeds = v.seeds /\ u.sent = v.sent
        /\ \A h \in Households : Carries(u, h) => Carries(v, h)
    BY <2>1, DisturbedLess
  <2>3. QED
    BY <2>2 DEF u, v
<1>5. /\ ~work'[s].makes /\ work'[s].seeds = {} /\ ~work'[s].sent
      /\ SessionOK(work'[s]) /\ \A h \in Households : ~Carries(work'[s], h)
  <2>1. ~NoSession.makes /\ NoSession.seeds = {} /\ ~NoSession.sent
    BY DEF NoSession
  <2>2. SessionOK(NoSession) /\ \A h \in Households : ~Carries(NoSession, h)
    BY NoSessionIsLess
  <2>3. QED
    BY <1>3, <2>1, <2>2
<1>6. /\ configs' \in [Households -> Seq(Configs \cup {None})]
      /\ \A h \in Households :
           IF w.makes /\ w.h = h THEN Len(configs'[h]) = Len(configs[h]) + 1
           ELSE Len(configs'[h]) = Len(configs[h])
      /\ digests' \in [Households -> [BOOLEAN -> Nat]]
      /\ \A h \in Households :
           digests'[h][TRUE] <= IF w.sent /\ w.h = h
                                THEN digests[h][TRUE] + 1 ELSE digests[h][TRUE]
  BY CommitRows
<1>7. kpis' \in [DOMAIN Builtin -> Nat]
  BY <1>1, <1>2
<1>8. RowsInv'
  BY <1>1, <1>2, <1>3, <1>4, <1>5, <1>6, <1>7 DEF RowsInv
<1>9. CarryInv'
  BY <1>2, <1>4, <1>5, <1>8, CarrySame
<1>10. ConfigInv'
  <2> SUFFICES ASSUME NEW h \in Households \ raced
               PROVE  /\ Len(configs'[h]) <= 1
                      /\ \A t \in Sessions : work'[t].makes /\ work'[t].h = h => configs'[h] = <<>>
                      /\ \A t, u \in Sessions :
                           t # u /\ work'[t].makes /\ work'[t].h = h
                             => ~(work'[u].makes /\ work'[u].h = h)
    BY <1>2 DEF ConfigInv
  <2>1. /\ Len(configs[h]) <= 1
        /\ \A t \in Sessions : work[t].makes /\ work[t].h = h => configs[h] = <<>>
        /\ \A t, u \in Sessions :
             t # u /\ work[t].makes /\ work[t].h = h => ~(work[u].makes /\ work[u].h = h)
    BY DEF Inv, ConfigInv
  <2>2. configs[h] \in Seq(Configs \cup {None}) /\ configs'[h] \in Seq(Configs \cup {None})
    BY <1>1, <1>6
  <2>3. \A t, u \in Sessions : t # u /\ work'[t].makes /\ work'[t].h = h
                                 => ~(work'[u].makes /\ work'[u].h = h)
    BY <1>4, <1>5, <2>1
  <2>4. CASE w.makes /\ w.h = h
    <3>1. configs[h] = <<>> /\ Len(configs'[h]) = Len(configs[h]) + 1
      BY <1>6, <2>1, <2>4
    <3>2. Len(configs'[h]) <= 1
      BY <3>1
    <3>3. \A t \in Sessions : ~(work'[t].makes /\ work'[t].h = h)
      BY <1>4, <1>5, <2>1, <2>4
    <3>4. QED
      BY <2>3, <3>2, <3>3
  <2>5. CASE ~(w.makes /\ w.h = h)
    <3>1. Len(configs'[h]) = Len(configs[h])
      BY <1>6, <2>5
    <3>2. configs[h] = <<>> => configs'[h] = <<>>
      BY <2>2, <3>1, EmptySeq
    <3>3. \A t \in Sessions : work'[t].makes /\ work'[t].h = h => configs'[h] = <<>>
      BY <1>4, <1>5, <2>1, <3>2
    <3>4. QED
      BY <2>1, <2>3, <3>1, <3>3
  <2>6. QED
    BY <2>4, <2>5
<1>11. KpiInv'
  <2> SUFFICES ASSUME "kpis" \notin raced, NEW k \in DOMAIN Builtin
               PROVE  /\ kpis'[k] <= 1
                      /\ \A t \in Sessions : k \in work'[t].seeds => kpis'[k] = 0
                      /\ \A t, u \in Sessions :
                           t # u /\ k \in work'[t].seeds => k \notin work'[u].seeds
    BY <1>2 DEF KpiInv
  <2>1. /\ kpis[k] <= 1
        /\ \A t \in Sessions : k \in work[t].seeds => kpis[k] = 0
        /\ \A t, u \in Sessions : t # u /\ k \in work[t].seeds => k \notin work[u].seeds
    BY DEF Inv, KpiInv
  <2>2. \A t, u \in Sessions : t # u /\ k \in work'[t].seeds => k \notin work'[u].seeds
    BY <1>4, <1>5, <2>1
  <2>3. kpis[k] \in Nat
    BY <1>1
  <2>4. CASE k \in w.seeds
    <3>1. kpis[k] = 0 /\ kpis'[k] = kpis[k] + 1
      BY <1>2, <2>1, <2>4
    <3>2. \A t \in Sessions : k \notin work'[t].seeds
      BY <1>4, <1>5, <2>1, <2>4
    <3>3. QED
      BY <2>2, <3>1, <3>2
  <2>5. CASE k \notin w.seeds
    <3>1. kpis'[k] = kpis[k]
      BY <1>2, <2>3, <2>5
    <3>2. QED
      BY <1>4, <1>5, <2>1, <2>2, <3>1
  <2>6. QED
    BY <2>4, <2>5
<1>12. StoredInv'
  <2> SUFFICES ASSUME NEW h \in Households
               PROVE  digests'[h][TRUE] + Cardinality(Storing(h)') <= sent[h]
    BY <1>2 DEF StoredInv
  <2>1. digests[h][TRUE] + Cardinality(Storing(h)) <= sent[h]
    BY DEF Inv, StoredInv
  <2>2. digests[h][TRUE] \in Nat /\ digests'[h][TRUE] \in Nat /\ sent[h] \in Nat
    BY <1>1, <1>6
  <2>3. IsFiniteSet(Storing(h)) /\ Cardinality(Storing(h)) \in Nat
    BY StoringFinite
  <2>4. Storing(h)' = Storing(h) \ {s}
    BY <1>4, <1>5 DEF Storing
  <2>5. Cardinality(Storing(h)') = IF s \in Storing(h) THEN Cardinality(Storing(h)) - 1
                                   ELSE Cardinality(Storing(h))
    BY <2>3, <2>4, FS_RemoveElement
  <2> DEFINE d == digests[h][TRUE]
             e == digests'[h][TRUE]
             n == Cardinality(Storing(h))
             m == Cardinality(Storing(h)')
             k == sent[h]
  <2>6. d \in Nat /\ e \in Nat /\ n \in Nat /\ k \in Nat /\ d + n <= k
    BY <2>1, <2>2, <2>3
  <2>7. CASE s \in Storing(h)
    <3>1. m = n - 1
      BY <2>5, <2>7
    <3>2. e <= d + 1
      BY <1>6, <2>7 DEF Storing
    <3> HIDE DEF d, e, n, m, k
    <3>3. e + m <= k
      BY <2>6, <3>1, <3>2
    <3>4. QED
      BY <3>3 DEF e, m, k
  <2>8. CASE s \notin Storing(h)
    <3>1. m = n
      BY <2>5, <2>8
    <3>2. ~(w.sent /\ w.h = h)
      BY <2>8 DEF Storing
    <3>3. e <= d
      BY <1>6, <3>2
    <3> HIDE DEF d, e, n, m, k
    <3>4. e + m <= k
      BY <2>6, <3>1, <3>3
    <3>5. QED
      BY <3>4 DEF e, m, k
  <2>9. QED
    BY <2>7, <2>8
<1>13. QED
  BY <1>8, <1>9, <1>10, <1>11, <1>12 DEF Inv

-----------------------------------------------------------------------------
(* The Celery worker *)

\* A session that begins.
LEMMA BegunFacts ==
  ASSUME NEW k \in {"digest", "kpis", "sheet", "projection", "update", "start", "all"},
         NEW g, g \in Households \/ k \in {"start", "all"}
  PROVE  /\ SessionOK(Begun(k, g)) /\ \A v : LessRows(Begun(k, g), v)
         /\ \A h \in Households :
              Carries(Begun(k, g), h) => k = "all" \/ (k = "digest" /\ g = h)
<1> DEFINE w == Begun(k, g)
           q == Script[k]
<1>1. /\ DOMAIN w = Fields /\ w.kind = k /\ w.h = g /\ w.todo = q /\ w.cfg = None
      /\ w.makes = FALSE /\ w.holds = FALSE /\ w.seeds = {} /\ w.left = {}
      /\ w.sent = FALSE
  BY DEF Begun, NoSession, Fields
<1>2. /\ ScriptOK(q)
      /\ Occurs(q, "send") => k = "digest"
      /\ Occurs(q, "users") => k = "all"
      /\ Occurs(q, "config") => k \notin {"start", "all"}
  BY Scripts
<1> HIDE DEF w, q
<1>3. SessionOK(w)
  BY <1>1, <1>2 DEF SessionOK
<1>4. \A v : LessRows(w, v)
  BY <1>1 DEF LessRows
<1>5. \A h \in Households : Carries(w, h) => k = "all" \/ (k = "digest" /\ g = h)
  BY <1>1, <1>2 DEF Carries
<1>6. QED
  BY <1>3, <1>4, <1>5 DEF w

LEMMA TakeStep ==
  ASSUME Inv, NEW p \in Workers, NEW m \in Messages, Take(p, m)
  PROVE  Inv'
<1>1. /\ queue \in [Messages -> Nat] /\ sent \in [Households -> Nat]
      /\ RowsInv /\ p \in Sessions
  BY DEF Inv, RowsInv, Sessions
<1>2. /\ queue' = [queue EXCEPT ![m] = @ - 1] /\ queue[m] > 0
      /\ configs' = configs /\ kpis' = kpis /\ digests' = digests
      /\ sent' = sent /\ raced' = raced /\ redelivered' = redelivered
  BY DEF Take, rows
<1>3. /\ queue' \in [Messages -> Nat] /\ queue'[m] = queue[m] - 1
      /\ \A t \in Messages \ {m} : queue'[t] = queue[t]
      /\ queue[m] \in Nat \ {0}
  BY <1>1, <1>2
<1>4. CASE UNCHANGED work
  <2>1. RowsInv'
    BY <1>1, <1>2, <1>3, <1>4 DEF RowsInv
  <2>2. ConfigInv' /\ KpiInv'
    BY <1>2, <1>4, ConfigKept, KpiKept DEF Inv
  <2>3. StoredInv'
    BY <1>2, <1>4, <2>1, StoredSame
  <2>4. \A t \in Messages : queue'[t] <= queue[t]
    <3> TAKE t \in Messages
    <3> DEFINE a == queue[t]
               b == queue'[t]
    <3>1. a \in Nat /\ b \in Nat /\ (b = a \/ b = a - 1)
      BY <1>1, <1>3
    <3> HIDE DEF a, b
    <3>2. b <= a
      BY <3>1
    <3>3. QED
      BY <3>2 DEF a, b
  <2>5. CarryInv'
    BY <1>1, <1>2, <1>3, <1>4, <2>4, CarryKept DEF Inv
  <2>6. QED
    BY <2>1, <2>2, <2>3, <2>5 DEF Inv
<1>5. CASE work' = [work EXCEPT ![p] = Begun(IF m = All THEN "all" ELSE "digest", m)]
  <2> DEFINE k == IF m = All THEN "all" ELSE "digest"
             w == Begun(k, m)
  <2>1. /\ SessionOK(w) /\ LessRows(w, work[p])
        /\ \A h \in Households : Carries(w, h) => m = All \/ m = h
    <3>1. k \in {"digest", "kpis", "sheet", "projection", "update", "start", "all"}
      OBVIOUS
    <3>2. m \in Households \/ k \in {"start", "all"}
      BY DEF Messages
    <3> HIDE DEF k
    <3>3. /\ SessionOK(w) /\ LessRows(w, work[p])
          /\ \A h \in Households : Carries(w, h) => k = "all" \/ (k = "digest" /\ m = h)
      BY <3>1, <3>2, BegunFacts
    <3>4. QED
      BY <3>3 DEF k
  <2>2. /\ DOMAIN work' = Sessions /\ work'[p] = w
        /\ \A t \in Sessions \ {p} : work'[t] = work[t]
    BY <1>1, <1>5 DEF RowsInv
  <2> HIDE DEF w
  <2>3. RowsInv'
    BY <1>1, <1>2, <1>3, <2>1, <2>2 DEF RowsInv
  <2>4. \A t \in Sessions : LessRows(work'[t], work[t])
    BY <2>1, <2>2 DEF LessRows
  <2>5. ConfigInv' /\ KpiInv' /\ StoredInv'
    BY <1>2, <2>3, <2>4, ConfigKept, KpiKept, StoredSame DEF Inv, LessRows
  <2>6. CarryInv'
    <3> SUFFICES ASSUME NEW h \in Households, redelivered \cap {h, All} = {}
                 PROVE  /\ queue'[All] + queue'[h] + sent[h] <= 1
                        /\ \A t \in Sessions : Carries(work'[t], h)
                             => queue'[All] + queue'[h] + sent[h] = 0
                        /\ \A t, u \in Sessions :
                             t # u /\ Carries(work'[t], h) => ~Carries(work'[u], h)
      BY <1>2 DEF CarryInv
    <3>1. /\ queue[All] + queue[h] + sent[h] <= 1
          /\ \A t \in Sessions : Carries(work[t], h) => queue[All] + queue[h] + sent[h] = 0
          /\ \A t, u \in Sessions : t # u /\ Carries(work[t], h) => ~Carries(work[u], h)
      BY DEF Inv, CarryInv
    <3>2. h \in Messages /\ All \in Messages /\ h # All
      BY DataAssumption DEF Messages
    <3> DEFINE a == queue[All]
               b == queue[h]
               c == sent[h]
               d == queue'[All]
               e == queue'[h]
    <3>3. a \in Nat /\ b \in Nat /\ c \in Nat /\ a + b + c <= 1
      BY <1>1, <3>1, <3>2
    <3>4. CASE m \in {h, All}
      <4>1. \/ d = a - 1 /\ e = b /\ a \in Nat \ {0}
            \/ d = a /\ e = b - 1 /\ b \in Nat \ {0}
        BY <1>3, <3>2, <3>4
      <4> HIDE DEF a, b, c, d, e
      <4>2. a + b + c # 0 /\ d + e + c = 0
        BY <3>3, <4>1
      <4>3. \A t \in Sessions : ~Carries(work[t], h)
        BY <3>1, <4>2 DEF a, b, c
      <4>4. \A t, u \in Sessions : t # u /\ Carries(work'[t], h) => ~Carries(work'[u], h)
        BY <2>2, <4>3
      <4>5. d + e + c <= 1
        BY <4>2
      <4>6. QED
        BY <4>2, <4>4, <4>5 DEF c, d, e
    <3>5. CASE m \notin {h, All}
      <4>1. d = a /\ e = b
        BY <1>3, <3>2, <3>5
      <4>2. \A t \in Sessions : Carries(work'[t], h) => Carries(work[t], h)
        BY <2>1, <2>2, <3>5
      <4>3. QED
        BY <3>1, <4>1, <4>2
    <3>6. QED
      BY <3>4, <3>5
  <2>7. QED
    BY <2>3, <2>5, <2>6 DEF Inv
<1>6. QED
  BY <1>4, <1>5 DEF Take

LEMMA DeployStep ==
  ASSUME Inv, Deploy
  PROVE  Inv'
<1> DEFINE Lost(t) == {w \in Workers : InFlight(w) /\ work[w].h = t}
<1>1. /\ queue \in [Messages -> Nat] /\ sent \in [Households -> Nat]
      /\ RowsInv /\ \A s \in Sessions : SessionOK(work[s])
  BY DEF Inv, RowsInv
<1>2. /\ redelivered' = redelivered \cup {work[w].h : w \in {v \in Workers : InFlight(v)}}
      /\ queue' = [t \in Messages |-> queue[t] + Cardinality(Lost(t))]
      /\ work' = [s \in Sessions |-> IF s \in Workers THEN NoSession ELSE work[s]]
      /\ configs' = configs /\ kpis' = kpis /\ digests' = digests
      /\ sent' = sent /\ raced' = raced
  BY DEF Deploy, rows
<1>3. \A t : Cardinality(Lost(t)) \in Nat
  <2> TAKE t
  <2>1. Lost(t) \in SUBSET Workers
    OBVIOUS
  <2>2. IsFiniteSet(Lost(t))
    BY <2>1, DataAssumption, FS_Subset
  <2>3. QED
    BY <2>2, FS_CardinalityType
<1>4. \A t : t \notin redelivered' => Cardinality(Lost(t)) = 0
  <2> TAKE t
  <2>1. t \notin redelivered' => Lost(t) = {}
    BY <1>2
  <2>2. QED
    BY <2>1, FS_EmptySet
<1> HIDE DEF Lost
<1>5. queue' \in [Messages -> Nat] /\ \A t \in Messages \ redelivered' : queue'[t] = queue[t]
  BY <1>1, <1>2, <1>3, <1>4
<1>6. DOMAIN work' = Sessions /\ \A s \in Sessions : work'[s] = NoSession \/ work'[s] = work[s]
  BY <1>2
<1>7. \A s \in Sessions : /\ SessionOK(work'[s]) /\ LessRows(work'[s], work[s])
                          /\ \A h \in Households : Carries(work'[s], h) => Carries(work[s], h)
  BY <1>1, <1>6, NoSessionIsLess DEF LessRows
<1>8. RowsInv'
  BY <1>1, <1>2, <1>5, <1>6, <1>7 DEF RowsInv
<1>9. ConfigInv' /\ KpiInv' /\ StoredInv'
  BY <1>2, <1>7, <1>8, ConfigKept, KpiKept, StoredSame DEF Inv, LessRows
<1>10. CarryInv'
  <2> SUFFICES ASSUME NEW h \in Households, redelivered' \cap {h, All} = {}
               PROVE  /\ queue'[All] + queue'[h] + sent[h] <= 1
                      /\ \A s \in Sessions : Carries(work'[s], h)
                           => queue'[All] + queue'[h] + sent[h] = 0
                      /\ \A s, t \in Sessions :
                           s # t /\ Carries(work'[s], h) => ~Carries(work'[t], h)
    BY <1>2 DEF CarryInv
  <2>1. redelivered \cap {h, All} = {} /\ queue'[h] = queue[h] /\ queue'[All] = queue[All]
    BY <1>2, <1>5 DEF Messages
  <2>2. /\ queue[All] + queue[h] + sent[h] <= 1
        /\ \A s \in Sessions : Carries(work[s], h) => queue[All] + queue[h] + sent[h] = 0
        /\ \A s, t \in Sessions : s # t /\ Carries(work[s], h) => ~Carries(work[t], h)
    BY <2>1 DEF Inv, CarryInv
  <2>3. QED
    BY <1>7, <2>1, <2>2
<1>11. QED
  BY <1>8, <1>9, <1>10 DEF Inv

LEMMA KillStep ==
  ASSUME Inv, NEW p \in Workers, Kill(p)
  PROVE  Inv'
BY LeavesQuiet DEF Kill, Sessions

-----------------------------------------------------------------------------
(* The other sessions *)

LEMMA BeginStep ==
  ASSUME Inv, NEW r \in Requests, Begin(r)
  PROVE  Inv'
<1>1. PICK a \in Asked : work' = [work EXCEPT ![r] = Begun(a[1], a[2])]
  BY DEF Begin
<1> DEFINE k == a[1]
           g == a[2]
           w == Begun(k, g)
<1>2. k \in {"kpis", "sheet", "projection", "update", "start"} /\ (g \in Households \/ k = "start")
  BY DataAssumption
<1> HIDE DEF k, g
<1>3. SessionOK(w) /\ LessRows(w, work[r]) /\ \A h \in Households : ~Carries(w, h)
  BY <1>2, BegunFacts
<1> HIDE DEF w
<1>4. DOMAIN work' = Sessions /\ work'[r] = w /\ \A s \in Sessions \ {r} : work'[s] = work[s]
  BY <1>1 DEF Inv, RowsInv, Sessions, w, k, g
<1>5. /\ \A s \in Sessions : SessionOK(work'[s]) /\ LessRows(work'[s], work[s])
      /\ \A s \in Sessions, h \in Households : Carries(work'[s], h) => Carries(work[s], h)
  BY <1>3, <1>4 DEF Inv, RowsInv, LessRows
<1>6. UNCHANGED <<rows, queue, sent, raced, redelivered>>
  BY DEF Begin, celery, history
<1>7. QED
  BY <1>4, <1>5, <1>6, Quiet

\* All sessions are disturbed.
LEMMA DisturbedAll ==
  ASSUME Inv, work' = [t \in Sessions |-> Disturbed(t, work[t])]
  PROVE  /\ DOMAIN work' = Sessions
         /\ \A s \in Sessions : SessionOK(work'[s]) /\ LessRows(work'[s], work[s])
         /\ \A s \in Sessions, h \in Households : Carries(work'[s], h) => Carries(work[s], h)
<1>1. DOMAIN work' = Sessions /\ \A s \in Sessions : work'[s] = Disturbed(s, work[s])
  OBVIOUS
<1>2. \A s \in Sessions : SessionOK(work[s])
  BY DEF Inv, RowsInv
<1>3. QED
  BY <1>1, <1>2, DisturbedLess

LEMMA EditStep ==
  ASSUME Inv, Edit
  PROVE  Inv'
<1>1. work' = [t \in Sessions |-> Disturbed(t, work[t])]
  BY DEF Edit
<1>2. UNCHANGED <<rows, queue, sent, raced, redelivered>>
  BY DEF Edit, celery
<1>3. QED
  BY <1>1, <1>2, DisturbedAll, Quiet

LEMMA DeleteStep ==
  ASSUME Inv, NEW h \in Households, Delete(h)
  PROVE  Inv'
<1>1. /\ work' = [t \in Sessions |-> Disturbed(t, work[t])]
      /\ configs' = [configs EXCEPT ![h] = <<>>]
      /\ digests' = [digests EXCEPT ![h] = [b \in BOOLEAN |-> 0]]
      /\ kpis' = kpis /\ queue' = queue /\ sent' = sent
      /\ raced' = raced /\ redelivered' = redelivered
  BY DEF Delete, celery
<1>2. /\ DOMAIN work' = Sessions
      /\ \A s \in Sessions : SessionOK(work'[s]) /\ LessRows(work'[s], work[s])
      /\ \A s \in Sessions, g \in Households : Carries(work'[s], g) => Carries(work[s], g)
  BY <1>1, DisturbedAll
<1>3. /\ RowsInv /\ configs \in [Households -> Seq(Configs \cup {None})]
      /\ digests \in [Households -> [BOOLEAN -> Nat]] /\ sent \in [Households -> Nat]
  BY DEF Inv, RowsInv
<1>4. /\ configs' \in [Households -> Seq(Configs \cup {None})]
      /\ \A g \in Households : configs'[g] = <<>> \/ configs'[g] = configs[g]
  <2>1. <<>> \in Seq(Configs \cup {None})
    BY EmptySeq
  <2>2. QED
    BY <1>1, <1>3, <2>1
<1>5. /\ digests' \in [Households -> [BOOLEAN -> Nat]]
      /\ \A g \in Households : digests'[g][TRUE] <= digests[g][TRUE]
  <2> DEFINE z == [b \in BOOLEAN |-> 0]
  <2>1. z \in [BOOLEAN -> Nat] /\ z[TRUE] = 0
    OBVIOUS
  <2> HIDE DEF z
  <2>2. \A g \in Households : digests'[g] = z \/ digests'[g] = digests[g]
    BY <1>1, <1>3 DEF z
  <2>3. digests' \in [Households -> [BOOLEAN -> Nat]]
    BY <1>1, <1>3, <2>1 DEF z
  <2>4. ASSUME NEW g \in Households PROVE digests'[g][TRUE] <= digests[g][TRUE]
    <3> DEFINE d == digests[g][TRUE]
               e == digests'[g][TRUE]
    <3>1. d \in Nat /\ (e = 0 \/ e = d)
      BY <1>3, <2>1, <2>2
    <3> HIDE DEF d, e
    <3>2. e <= d
      BY <3>1
    <3>3. QED
      BY <3>2 DEF d, e
  <2>5. QED
    BY <2>3, <2>4
<1>6. RowsInv'
  BY <1>1, <1>2, <1>3, <1>4, <1>5 DEF RowsInv
<1>7. KpiInv' /\ CarryInv'
  BY <1>1, <1>2, <1>6, KpiKept, CarrySame DEF Inv, LessRows
<1>8. StoredInv'
  BY <1>1, <1>2, <1>3, <1>5, StoredKept DEF Inv, LessRows
<1>9. ConfigInv'
  <2> SUFFICES ASSUME NEW g \in Households \ raced
               PROVE  /\ Len(configs'[g]) <= 1
                      /\ \A t \in Sessions : work'[t].makes /\ work'[t].h = g => configs'[g] = <<>>
                      /\ \A t, u \in Sessions :
                           t # u /\ work'[t].makes /\ work'[t].h = g
                             => ~(work'[u].makes /\ work'[u].h = g)
    BY <1>1 DEF ConfigInv
  <2>1. /\ Len(configs[g]) <= 1
        /\ \A t \in Sessions : work[t].makes /\ work[t].h = g => configs[g] = <<>>
        /\ \A t, u \in Sessions :
             t # u /\ work[t].makes /\ work[t].h = g => ~(work[u].makes /\ work[u].h = g)
    BY DEF Inv, ConfigInv
  <2>2. \A t \in Sessions : work'[t].makes => work[t].makes /\ work'[t].h = work[t].h
    BY <1>2 DEF LessRows
  <2>3. CASE configs'[g] = <<>>
    BY <2>1, <2>2, <2>3
  <2>4. CASE configs'[g] = configs[g]
    BY <2>1, <2>2, <2>4
  <2>5. QED
    BY <1>4, <2>3, <2>4
<1>10. QED
  BY <1>6, <1>7, <1>8, <1>9 DEF Inv

-----------------------------------------------------------------------------
(* The invariant *)

LEMMA InitInv == Init => Inv
<1> SUFFICES ASSUME Init PROVE Inv
  OBVIOUS
<1>1. /\ work = [s \in Sessions |-> NoSession] /\ configs = [h \in Households |-> <<>>]
      /\ kpis = [k \in DOMAIN Builtin |-> 0]
      /\ digests = [h \in Households |-> [b \in BOOLEAN |-> 0]]
      /\ queue = [t \in Messages |-> IF t = All THEN 1 ELSE 0]
      /\ sent = [h \in Households |-> 0]
  BY DEF Init
<1>2. RowsInv
  <2>1. DOMAIN work = Sessions /\ \A s \in Sessions : SessionOK(work[s])
    BY <1>1, NoSessionIsLess
  <2>2. configs \in [Households -> Seq(Configs \cup {None})]
    <3>1. <<>> \in Seq(Configs \cup {None})
      BY EmptySeq
    <3>2. QED
      BY <1>1, <3>1
  <2>3. digests \in [Households -> [BOOLEAN -> Nat]]
    BY <1>1
  <2>4. QED
    BY <1>1, <2>1, <2>2, <2>3 DEF RowsInv
<1>3. ~NoSession.makes /\ NoSession.seeds = {} /\ ~NoSession.sent
  BY DEF NoSession
<1>4. ConfigInv /\ KpiInv
  <2>1. \A h \in Households : Len(configs[h]) <= 1
    BY <1>1, EmptySeq
  <2>2. QED
    BY <1>1, <1>3, <2>1 DEF ConfigInv, KpiInv
<1>5. CarryInv
  <2>1. \A h \in Households : queue[All] = 1 /\ queue[h] = 0 /\ sent[h] = 0
    BY <1>1, DataAssumption DEF Messages
  <2>2. \A s \in Sessions, h \in Households : ~Carries(work[s], h)
    BY <1>1, NoSessionIsLess
  <2>3. QED
    BY <2>1, <2>2 DEF CarryInv
<1>6. StoredInv
  <2>1. \A h \in Households : Storing(h) = {}
    BY <1>1, <1>3 DEF Storing
  <2>2. \A h \in Households : digests[h][TRUE] = 0 /\ sent[h] = 0
    BY <1>1
  <2>3. \A h \in Households : Cardinality(Storing(h)) = 0
    BY <2>1, FS_EmptySet
  <2>4. ASSUME NEW h \in Households
        PROVE  digests[h][TRUE] + Cardinality(Storing(h)) <= sent[h]
    <3> DEFINE d == digests[h][TRUE]
               n == Cardinality(Storing(h))
               k == sent[h]
    <3>1. d = 0 /\ n = 0 /\ k = 0
      BY <2>2, <2>3
    <3> HIDE DEF d, n, k
    <3>2. d + n <= k
      BY <3>1
    <3>3. QED
      BY <3>2 DEF d, n, k
  <2>5. QED
    BY <2>4 DEF StoredInv
<1>7. QED
  BY <1>2, <1>4, <1>5, <1>6 DEF Inv

LEMMA StepInv ==
  ASSUME Inv, NEW s \in Sessions, Step(s)
  PROVE  Inv'
BY Queries1, Queries2, HideQuiet, UsersQuiet, SeedStep, LoadConfigStep, SendStep,
   DelayStep, CommitStep DEF Step

LEMMA NextInv == Inv /\ [Next]_vars => Inv'
<1> SUFFICES ASSUME Inv, [Next]_vars PROVE Inv'
  OBVIOUS
<1>1. CASE \E w \in Workers : Works(w)
  <2>1. PICK w \in Workers : Works(w)
    BY <1>1
  <2>2. w \in Sessions
    BY DEF Sessions
  <2>3. CASE Step(w)
    BY <2>2, <2>3, StepInv
  <2>4. CASE \E t \in Messages : Take(w, t)
    BY <2>4, TakeStep
  <2>5. QED
    BY <2>1, <2>3, <2>4 DEF Works
<1>2. CASE \E w \in Workers : Kill(w)
  BY <1>2, KillStep
<1>3. CASE \E r \in Requests : Begin(r)
  BY <1>3, BeginStep
<1>4. CASE \E r \in Requests : Step(r)
  BY <1>4, StepInv DEF Sessions
<1>5. CASE Deploy
  BY <1>5, DeployStep
<1>6. CASE Edit
  BY <1>6, EditStep
<1>7. CASE \E h \in Households : Delete(h)
  BY <1>7, DeleteStep
<1>8. CASE UNCHANGED vars
  <2>1. /\ work' = work /\ UNCHANGED <<rows, queue, sent, raced, redelivered>>
    BY <1>8 DEF vars, celery, history
  <2>2. QED
    BY <2>1, Quiet DEF Inv, RowsInv, LessRows
<1>9. QED
  BY <1>1, <1>2, <1>3, <1>4, <1>5, <1>6, <1>7, <1>8 DEF Next

-----------------------------------------------------------------------------
(* What is still to come *)

\* The task that hands out the messages belongs to the message for all and has one or
\* both of its steps ahead; no other session ever takes such a step.
TaskOK(v) ==
  IF v.kind = "all"
  THEN v.h = All /\ v.todo \in {<<"users", "delay">>, <<"delay">>}
  ELSE v.kind # "none" => ~Occurs(v.todo, "users") /\ ~Occurs(v.todo, "delay")

TaskInv == \A s \in Sessions : TaskOK(work[s])

\* Session v owes h its digest.
Owes(v, h) ==
  \/ v.kind = "digest" /\ v.h = h
  \/ v.kind # "none" /\ Head(v.todo) = "users"
  \/ v.kind # "none" /\ Head(v.todo) = "delay" /\ h \in v.left

Stored(h) == digests[h][TRUE] + digests[h][FALSE] > 0

Kept(h) == Stored(h) \/ Due(h) \/ h \in lost \/ h \notin alive

DueInv == TaskInv /\ \A h \in Reported : Kept(h)

LEMMA DueMeans ==
  \A h : Due(h) <=> \/ queue[All] + queue[h] > 0
                    \/ \E w \in Workers : Owes(work[w], h)
BY DEF Due, Owes, At, InFlight

LEMMA HeadOccurs ==
  ASSUME NEW q, ScriptOK(q)
  PROVE  Occurs(q, Head(q))
<1>1. q \in Seq(Queries) /\ Len(q) \in Nat \ {0} /\ Head(q) = q[1]
  BY EmptySeq DEF ScriptOK
<1>2. QED
  BY <1>1 DEF Occurs

\* Nothing is taken from h but by a session that has answered for it.
LEMMA KeptOn ==
  ASSUME Inv, Inv', NEW h \in Reported, Kept(h),
         alive' \subseteq alive, lost \subseteq lost',
         h \in alive' => \A b \in BOOLEAN : digests'[h][b] >= digests[h][b],
         \A t \in Messages : queue'[t] >= queue[t],
         \A w \in Workers : Owes(work[w], h) => Owes(work'[w], h) \/ Kept(h)'
  PROVE  Kept(h)'
<1>1. /\ h \in Households /\ h \in Messages /\ All \in Messages
  BY DataAssumption DEF Messages
<1>2. /\ digests[h][TRUE] \in Nat /\ digests[h][FALSE] \in Nat
      /\ digests'[h][TRUE] \in Nat /\ digests'[h][FALSE] \in Nat
  BY <1>1 DEF Inv, RowsInv
<1>3. /\ queue[All] \in Nat /\ queue[h] \in Nat
      /\ queue'[All] \in Nat /\ queue'[h] \in Nat
  BY <1>1 DEF Inv, RowsInv
<1>4. CASE h \notin alive \/ h \notin alive' \/ h \in lost
  BY <1>4 DEF Kept
<1>5. CASE h \in alive' /\ Stored(h)
  <2>1. digests'[h][TRUE] >= digests[h][TRUE] /\ digests'[h][FALSE] >= digests[h][FALSE]
    BY <1>5
  <2> DEFINE a == digests[h][TRUE]
             b == digests[h][FALSE]
             c == digests'[h][TRUE]
             d == digests'[h][FALSE]
  <2>2. a \in Nat /\ b \in Nat /\ c \in Nat /\ d \in Nat /\ c >= a /\ d >= b /\ a + b > 0
    BY <1>2, <1>5, <2>1 DEF Stored
  <2> HIDE DEF a, b, c, d
  <2>3. c + d > 0
    BY <2>2
  <2>4. QED
    BY <2>3 DEF Kept, Stored, c, d
<1>6. CASE Due(h)
  <2>1. CASE queue[All] + queue[h] > 0
    <3>1. queue'[All] >= queue[All] /\ queue'[h] >= queue[h]
      BY <1>1
    <3> DEFINE a == queue[All]
               b == queue[h]
               c == queue'[All]
               d == queue'[h]
    <3>2. a \in Nat /\ b \in Nat /\ c \in Nat /\ d \in Nat /\ c >= a /\ d >= b /\ a + b > 0
      BY <1>3, <2>1, <3>1
    <3> HIDE DEF a, b, c, d
    <3>3. c + d > 0
      BY <3>2
    <3>4. QED
      BY <3>3 DEF Kept, Due, c, d
  <2>2. CASE \E w \in Workers : Owes(work[w], h)
    <3>1. PICK w \in Workers : Owes(work[w], h)
      BY <2>2
    <3>2. CASE Owes(work'[w], h)
      BY <3>2 DEF Kept, Due, Owes, At, InFlight
    <3>3. QED
      BY <3>1, <3>2
  <2>3. QED
    BY <1>6, <2>1, <2>2, DueMeans
<1>7. QED
  BY <1>4, <1>5, <1>6 DEF Kept

\* The rows and messages are as they were.
LEMMA KeptSame ==
  ASSUME Inv, Inv', DueInv, TaskInv',
         alive' \subseteq alive, lost \subseteq lost',
         UNCHANGED <<digests, queue>>,
         \A w \in Workers, h \in Reported :
           Owes(work[w], h) => Owes(work'[w], h) \/ h \in lost'
  PROVE  DueInv'
<1> SUFFICES ASSUME NEW h \in Reported PROVE Kept(h)'
  BY DEF DueInv
<1>1. /\ h \in Households /\ Kept(h)
      /\ digests \in [Households -> [BOOLEAN -> Nat]] /\ queue \in [Messages -> Nat]
  BY DataAssumption DEF DueInv, Inv, RowsInv
<1>2. \A b \in BOOLEAN : digests'[h][b] >= digests[h][b]
  <2> TAKE b \in BOOLEAN
  <2> DEFINE d == digests[h][b]
  <2>1. d \in Nat /\ digests'[h][b] = d
    BY <1>1
  <2> HIDE DEF d
  <2>2. digests'[h][b] >= d
    BY <2>1
  <2>3. QED
    BY <2>2 DEF d
<1>3. \A t \in Messages : queue'[t] >= queue[t]
  BY <1>1
<1>4. \A w \in Workers : Owes(work[w], h) => Owes(work'[w], h) \/ Kept(h)'
  BY DEF Kept
<1>5. QED
  BY <1>1, <1>2, <1>3, <1>4, KeptOn

\* What matters of a session to what is still to come.
Like(v, w) == v.kind = w.kind /\ v.h = w.h /\ v.todo = w.todo /\ v.left = w.left

LEMMA LikeOwes ==
  ASSUME NEW v, NEW w, Like(v, w)
  PROVE  /\ TaskOK(w) => TaskOK(v)
         /\ \A h : Owes(w, h) => Owes(v, h)
BY DEF Like, TaskOK, Owes

LEMMA NoSessionOwes == TaskOK(NoSession) /\ \A h : ~Owes(NoSession, h)
BY DEF TaskOK, Owes, NoSession

-----------------------------------------------------------------------------
(* A session goes on *)

\* s has had the answer to a query that is neither its last one nor about messages.
Moves(s) ==
  /\ \E x : At(s, x) /\ x \notin {"commit", "delay", "users"}
  /\ \A t \in Sessions \ {s} : work'[t] = work[t]
  /\ work'[s].kind = work[s].kind /\ work'[s].h = work[s].h /\ work'[s].left = work[s].left
  /\ work'[s].todo = Tail(work[s].todo)

LEMMA MovesDue ==
  ASSUME Inv, Inv', DueInv, NEW s \in Sessions, Moves(s),
         UNCHANGED <<alive, digests, queue, lost>>
  PROVE  DueInv'
<1>1. PICK x : At(s, x) /\ x \notin {"commit", "delay", "users"}
  BY DEF Moves
<1>2. /\ Head(work[s].todo) = x /\ work[s].kind # "none" /\ ScriptOK(work[s].todo)
      /\ TaskOK(work[s])
  BY <1>1 DEF At, InFlight, Inv, RowsInv, SessionOK, DueInv, TaskInv
<1>3. work[s].kind # "all"
  BY <1>1, <1>2 DEF TaskOK
<1>4. \A y : Occurs(Tail(work[s].todo), y) => Occurs(work[s].todo, y)
  BY <1>1, <1>2, Rest
<1>5. TaskOK(work'[s])
  BY <1>2, <1>3, <1>4 DEF TaskOK, Moves
<1>6. TaskInv'
  BY <1>5 DEF TaskInv, Moves, DueInv
<1>7. \A h : Owes(work[s], h) => Owes(work'[s], h)
  BY <1>1, <1>2 DEF Owes, Moves
<1>8. \A w \in Workers, h \in Reported : Owes(work[w], h) => Owes(work'[w], h)
  <2> TAKE w \in Workers, h \in Reported
  <2>1. CASE w = s
    BY <1>7, <2>1
  <2>2. CASE w # s
    BY <2>2 DEF Moves, Sessions
  <2>3. QED
    BY <2>1, <2>2
<1>9. QED
  BY <1>6, <1>8, KeptSame

\* The session of s is over with an exception or the death of its process.
LEMMA EndsDue ==
  ASSUME Inv, Inv', DueInv, NEW s \in Sessions, work' = [work EXCEPT ![s] = NoSession],
         s \in Workers => lost' = lost \cup Missed(work[s].h), lost \subseteq lost',
         UNCHANGED <<alive, digests, queue>>
  PROVE  DueInv'
<1>1. work'[s] = NoSession /\ \A t \in Sessions \ {s} : work'[t] = work[t]
  BY DEF Inv, RowsInv
<1>2. TaskInv'
  BY <1>1, NoSessionOwes DEF DueInv, TaskInv
<1>3. ASSUME NEW h \in Reported, s \in Workers, Owes(work[s], h)
      PROVE  h \in lost'
  <2>1. TaskOK(work[s]) /\ (work[s].kind # "none" => ScriptOK(work[s].todo))
    BY DEF DueInv, TaskInv, Inv, RowsInv, SessionOK
  <2>2. CASE work[s].kind = "digest" /\ work[s].h = h
    BY <1>3, <2>2 DEF Missed
  <2>3. CASE work[s].kind # "none" /\ Head(work[s].todo) \in {"users", "delay"}
    <3>1. work[s].todo # <<>> /\ Occurs(work[s].todo, Head(work[s].todo))
      BY <2>1, <2>3, HeadOccurs DEF ScriptOK
    <3>2. work[s].kind = "all" /\ work[s].h = All
      BY <2>1, <2>3, <3>1 DEF TaskOK
    <3>3. QED
      BY <1>3, <3>2 DEF Missed
  <2>4. QED
    BY <1>3, <2>2, <2>3 DEF Owes
<1>4. \A w \in Workers, h \in Reported :
        Owes(work[w], h) => Owes(work'[w], h) \/ h \in lost'
  BY <1>1, <1>3 DEF Sessions
<1>5. QED
  BY <1>2, <1>4, KeptSame

\* A query that changes fields of s which say nothing of what is still to come.
LEMMA GoesMoves ==
  ASSUME Inv, NEW s \in Sessions, NEW x, At(s, x), x \notin {"commit", "delay", "users"},
         NEW w, Goes(s, w), DOMAIN w = Fields, w.kind = work[s].kind, w.h = work[s].h,
         w.left = work[s].left
  PROVE  Moves(s)
<1> DEFINE r == Tail(work[s].todo)
           v == [w EXCEPT !.todo = r]
<1>1. work' = [work EXCEPT ![s] = v]
  BY DEF Goes
<1> HIDE DEF r
<1>2. v.kind = w.kind /\ v.h = w.h /\ v.left = w.left /\ v.todo = r
  BY DEF Fields
<1> HIDE DEF v
<1>3. work'[s] = v /\ \A t \in Sessions \ {s} : work'[t] = work[t]
  BY <1>1 DEF Inv, RowsInv
<1>4. QED
  BY <1>2, <1>3 DEF Moves, r

LEMMA AssignMoves ==
  ASSUME Inv, NEW s \in Sessions, NEW x, At(s, x), x \notin {"commit", "delay", "users"},
         NEW f \in {"accs", "now", "agg", "kpi", "sheet", "cfg", "makes", "seeds", "hides",
                    "balance", "shown", "open", "sent", "holds", "calm"},
         NEW e, Goes(s, [work[s] EXCEPT ![f] = e])
  PROVE  Moves(s)
<1> DEFINE w == [work[s] EXCEPT ![f] = e]
<1>1. DOMAIN work[s] = Fields
  BY DEF Inv, RowsInv, SessionOK
<1>2. /\ DOMAIN w = Fields
      /\ w.kind = work[s].kind /\ w.h = work[s].h /\ w.left = work[s].left
  BY <1>1 DEF Fields
<1> HIDE DEF w
<1>3. Goes(s, w)
  BY DEF w
<1>4. QED
  BY <1>2, <1>3, GoesMoves

LEMMA Moves1 ==
  ASSUME Inv, NEW s \in Sessions,
         \/ SelectAccounts(s) \/ SelectPeriod(s) \/ SelectSheetAccounts(s)
         \/ SelectSheet(s) \/ SelectBalances(s) \/ CountUncategorized(s)
         \/ Seed(s) \/ UpdateConfig(s) \/ HideAccounts(s)
  PROVE  Moves(s) /\ UNCHANGED <<alive, digests, queue, lost>>
<1>1. UNCHANGED <<alive, digests, queue, lost>>
  BY DEF SelectAccounts, SelectPeriod, SelectSheetAccounts, SelectSheet, SelectBalances,
         CountUncategorized, Seed, UpdateConfig, HideAccounts, data, rows, celery, history
<1>2. CASE SelectAccounts(s)
  BY <1>1, <1>2, AssignMoves DEF SelectAccounts
<1>3. CASE SelectPeriod(s)
  BY <1>1, <1>3, AssignMoves DEF SelectPeriod
<1>4. CASE SelectSheetAccounts(s)
  BY <1>1, <1>4, AssignMoves DEF SelectSheetAccounts
<1>5. CASE SelectSheet(s)
  BY <1>1, <1>5, AssignMoves DEF SelectSheet
<1>6. CASE SelectBalances(s)
  BY <1>1, <1>6, AssignMoves DEF SelectBalances
<1>7. CASE CountUncategorized(s)
  BY <1>1, <1>7, AssignMoves DEF CountUncategorized
<1>8. CASE Seed(s)
  BY <1>1, <1>8, AssignMoves DEF Seed
<1>9. CASE UpdateConfig(s)
  <2>1. PICK c \in Configs : Goes(s, [work[s] EXCEPT !.cfg = c])
    BY <1>9 DEF UpdateConfig
  <2>2. At(s, "update")
    BY <1>9 DEF UpdateConfig
  <2>3. QED
    BY <1>1, <2>1, <2>2, AssignMoves
<1>10. CASE HideAccounts(s)
  <2>1. At(s, "joint") /\ DOMAIN work[s] = Fields
    BY <1>10 DEF HideAccounts, Inv, RowsInv, SessionOK
  <2>2. CASE Goes(s, work[s])
    BY <1>1, <2>1, <2>2, GoesMoves
  <2>3. CASE \E e : Goes(s, [work[s] EXCEPT !.hides = e])
    BY <1>1, <2>1, <2>3, AssignMoves
  <2>4. QED
    BY <1>10, <2>2, <2>3 DEF HideAccounts
<1>11. QED
  BY <1>1, <1>2, <1>3, <1>4, <1>5, <1>6, <1>7, <1>8, <1>9, <1>10

LEMMA Moves2 ==
  ASSUME Inv, NEW s \in Sessions, SelectPrevious(s) \/ Send(s)
  PROVE  Moves(s) /\ UNCHANGED <<alive, digests, queue, lost>>
<1>1. DOMAIN work[s] = Fields
  BY DEF Inv, RowsInv, SessionOK
<1>2. CASE SelectPrevious(s)
  <2> DEFINE g == Aggregates(work[s].now, Counted(work[s].accs, Before))
             w == [work[s] EXCEPT !.agg = g, !.now = {}]
  <2> HIDE DEF g
  <2>1. DOMAIN w = Fields /\ w.kind = work[s].kind /\ w.h = work[s].h /\ w.left = work[s].left
    BY <1>1 DEF Fields
  <2> HIDE DEF w
  <2>2. At(s, "previous") /\ Goes(s, w) /\ UNCHANGED <<alive, digests, queue, lost>>
    BY <1>2 DEF SelectPrevious, w, g, data, rows, celery, history
  <2>3. QED
    BY <2>1, <2>2, GoesMoves
<1>3. CASE Send(s)
  <2>1. At(s, "send") /\ UNCHANGED <<alive, digests, queue, lost>>
    BY <1>3 DEF Send, data, rows, celery, history
  <2>2. CASE Goes(s, work[s])
    BY <1>1, <2>1, <2>2, GoesMoves
  <2>3. CASE Goes(s, [work[s] EXCEPT !.sent = TRUE])
    BY <2>1, <2>3, AssignMoves
  <2>4. QED
    BY <1>3, <2>2, <2>3 DEF Send
<1>4. QED
  BY <1>2, <1>3

LEMMA Moves3 ==
  ASSUME Inv, NEW s \in Sessions, SaveSnapshots(s) \/ SaveProjection(s) \/ LoadConfig(s)
  PROVE  Raise(s) \/ (Moves(s) /\ UNCHANGED <<alive, digests, queue, lost>>)
<1>1. DOMAIN work[s] = Fields
  BY DEF Inv, RowsInv, SessionOK
<1>2. CASE SaveSnapshots(s) /\ ~Raise(s)
  <2> DEFINE g == [k \in DOMAIN Builtin |-> Compute(Builtin[k], work[s].agg)]
             w == [work[s] EXCEPT !.holds = TRUE, !.kpi = g]
  <2> HIDE DEF g
  <2>1. DOMAIN w = Fields /\ w.kind = work[s].kind /\ w.h = work[s].h /\ w.left = work[s].left
    BY <1>1 DEF Fields
  <2> HIDE DEF w
  <2>2. At(s, "snapshots") /\ Goes(s, w) /\ UNCHANGED <<alive, digests, queue, lost>>
    BY <1>2 DEF SaveSnapshots, w, g, data, rows, celery, history
  <2>3. QED
    BY <2>1, <2>2, GoesMoves
<1>3. CASE SaveProjection(s) /\ ~Raise(s)
  <2> DEFINE g == Project(work[s].balance, work[s].agg, work[s].cfg)
             w == [work[s] EXCEPT !.holds = TRUE, !.shown = g]
  <2> HIDE DEF g
  <2>1. DOMAIN w = Fields /\ w.kind = work[s].kind /\ w.h = work[s].h /\ w.left = work[s].left
    BY <1>1 DEF Fields
  <2> HIDE DEF w
  <2>2. At(s, "projection") /\ Goes(s, w) /\ UNCHANGED <<alive, digests, queue, lost>>
    BY <1>3 DEF SaveProjection, w, g, data, rows, celery, history
  <2>3. QED
    BY <2>1, <2>2, GoesMoves
<1>4. CASE LoadConfig(s) /\ ~Raise(s)
  <2> DEFINE w == [work[s] EXCEPT !.cfg = Default, !.makes = TRUE, !.holds = TRUE]
  <2>1. DOMAIN w = Fields /\ w.kind = work[s].kind /\ w.h = work[s].h /\ w.left = work[s].left
    BY <1>1 DEF Fields
  <2> HIDE DEF w
  <2>2. At(s, "config") /\ UNCHANGED <<alive, digests, queue, lost>>
    BY <1>4 DEF LoadConfig, data, rows, celery, history
  <2>3. Goes(s, w) \/ \E e : Goes(s, [work[s] EXCEPT !.cfg = e])
    BY <1>4 DEF LoadConfig, w
  <2>4. CASE Goes(s, w)
    BY <2>1, <2>2, <2>4, GoesMoves
  <2>5. CASE \E e : Goes(s, [work[s] EXCEPT !.cfg = e])
    BY <2>2, <2>5, AssignMoves
  <2>6. QED
    BY <2>3, <2>4, <2>5
<1>5. QED
  BY <1>2, <1>3, <1>4

LEMMA RaiseDue ==
  ASSUME Inv, Inv', DueInv, NEW s \in Sessions, Raise(s)
  PROVE  DueInv'
<1>1. /\ work' = [work EXCEPT ![s] = NoSession] /\ UNCHANGED <<alive, digests, queue>>
      /\ lost' = IF s \in Workers THEN lost \cup Missed(work[s].h) ELSE lost
  BY DEF Raise, Leaves, data, rows
<1>2. (s \in Workers => lost' = lost \cup Missed(work[s].h)) /\ lost \subseteq lost'
  BY <1>1
<1>3. QED
  BY <1>1, <1>2, EndsDue

LEMMA KillDue ==
  ASSUME Inv, Inv', DueInv, NEW p \in Workers, Kill(p)
  PROVE  DueInv'
<1>1. /\ work' = [work EXCEPT ![p] = NoSession] /\ UNCHANGED <<alive, digests, queue>>
      /\ lost' = lost \cup Missed(work[p].h)
  BY DEF Kill, data, rows
<1>2. p \in Sessions
  BY DEF Sessions
<1>3. QED
  BY <1>1, <1>2, EndsDue

-----------------------------------------------------------------------------
(* The task that hands out the messages *)

LEMMA SelectUsersDue ==
  ASSUME Inv, Inv', DueInv, NEW s \in Sessions, SelectUsers(s)
  PROVE  DueInv'
<1> DEFINE q == work[s].todo
           w == [work[s] EXCEPT !.left = alive \cap Reported]
           v == [w EXCEPT !.todo = Tail(q)]
<1>1. /\ DOMAIN work[s] = Fields /\ ScriptOK(q) /\ TaskOK(work[s])
      /\ Head(q) = "users" /\ work[s].kind # "none"
  BY DEF SelectUsers, At, InFlight, Inv, RowsInv, SessionOK, DueInv, TaskInv
<1>2. work[s].kind = "all" /\ work[s].h = All /\ q \in {<<"users", "delay">>, <<"delay">>}
  BY <1>1, HeadOccurs DEF TaskOK
<1>3. q = <<"users", "delay">>
  BY <1>1, <1>2
<1>4. work' = [work EXCEPT ![s] = v]
  BY DEF SelectUsers, Goes
<1>5. v.kind = "all" /\ v.h = All /\ v.left = alive \cap Reported /\ v.todo = Tail(q)
  BY <1>1, <1>2 DEF Fields
<1>6. v.todo = <<"delay">>
  BY <1>3, <1>5
<1> HIDE DEF v, q, w
<1>7. work'[s] = v /\ \A t \in Sessions \ {s} : work'[t] = work[t]
  BY <1>4 DEF Inv, RowsInv
<1>8. TaskInv'
  BY <1>5, <1>6, <1>7 DEF TaskInv, TaskOK, DueInv
<1>9. UNCHANGED <<alive, digests, queue, lost>>
  BY DEF SelectUsers, data, rows, celery, history
<1>10. \A h \in alive \cap Reported : Owes(v, h)
  <2>1. Head(v.todo) = "delay"
    BY <1>6
  <2>2. QED
    BY <1>5, <2>1 DEF Owes
<1>11. ASSUME NEW h \in Reported PROVE Kept(h)'
  <2>1. CASE h \notin alive
    BY <1>9, <2>1 DEF Kept
  <2>2. CASE h \in alive /\ s \in Workers
    BY <1>7, <1>10, <2>2 DEF Kept, Due, Owes, At, InFlight
  <2>3. CASE s \notin Workers
    <3>1. \A p \in Workers : work'[p] = work[p]
      BY <1>7, <2>3 DEF Sessions
    <3>2. Kept(h)
      BY DEF DueInv
    <3>3. Due(h) => Due(h)'
      BY <1>9, <3>1 DEF Due, At, InFlight
    <3>4. QED
      BY <1>9, <3>2, <3>3 DEF Kept, Stored
  <2>4. QED
    BY <2>1, <2>2, <2>3
<1>12. QED
  BY <1>8, <1>11 DEF DueInv

LEMMA DelayDue ==
  ASSUME Inv, Inv', DueInv, NEW s \in Sessions, Delay(s)
  PROVE  DueInv'
<1> DEFINE q == work[s].todo
<1>1. /\ DOMAIN work[s] = Fields /\ ScriptOK(q) /\ TaskOK(work[s])
      /\ Head(q) = "delay" /\ work[s].kind # "none"
      /\ queue \in [Messages -> Nat] /\ digests \in [Households -> [BOOLEAN -> Nat]]
      /\ work[s].left \subseteq Households
  BY DEF Delay, At, InFlight, Inv, RowsInv, SessionOK, DueInv, TaskInv
<1>2. work[s].kind = "all"
  BY <1>1, HeadOccurs DEF TaskOK
<1>3. UNCHANGED <<alive, digests, lost>>
  BY DEF Delay, data, rows, history
<1>4. CASE work[s].left = {} /\ work' = [work EXCEPT ![s] = NoSession] /\ UNCHANGED queue
  <2>1. work'[s] = NoSession /\ \A t \in Sessions \ {s} : work'[t] = work[t]
    BY <1>4 DEF Inv, RowsInv
  <2>2. TaskInv'
    BY <2>1, NoSessionOwes DEF DueInv, TaskInv
  <2>3. \A h : ~Owes(work[s], h)
    BY <1>1, <1>2, <1>4 DEF Owes
  <2>4. \A w \in Workers, h \in Reported : Owes(work[w], h) => Owes(work'[w], h)
    BY <2>1, <2>3 DEF Sessions
  <2>5. QED
    BY <1>3, <1>4, <2>2, <2>4, KeptSame
<1>5. ASSUME NEW g \in work[s].left, queue' = [queue EXCEPT ![g] = @ + 1],
             work' = [work EXCEPT ![s] = [work[s] EXCEPT !.left = work[s].left \ {g}]]
      PROVE  DueInv'
  <2> DEFINE left == work[s].left \ {g}
             w == [work[s] EXCEPT !.left = left]
  <2> HIDE DEF left
  <2>1. w.left = left /\ w.kind = work[s].kind /\ w.h = work[s].h /\ w.todo = work[s].todo
    BY <1>1 DEF Fields
  <2>2. work' = [work EXCEPT ![s] = w]
    BY <1>5 DEF left
  <2> HIDE DEF w
  <2>3. work'[s] = w /\ \A t \in Sessions \ {s} : work'[t] = work[t]
    BY <2>2 DEF Inv, RowsInv
  <2>4. TaskInv'
    BY <1>1, <2>1, <2>3 DEF DueInv, TaskInv, TaskOK
  <2>5. g \in Households /\ g \in Messages
    BY <1>1, <1>5 DEF Messages
  <2>6. queue'[g] \in Nat \ {0} /\ \A t \in Messages : queue'[t] >= queue[t]
    <3>1. queue[g] \in Nat /\ queue'[g] = queue[g] + 1
      BY <1>1, <1>5, <2>5
    <3>2. ASSUME NEW t \in Messages PROVE queue'[t] >= queue[t]
      <4> DEFINE a == queue[t]
                 b == queue'[t]
      <4>1. a \in Nat /\ (b = a \/ b = a + 1)
        BY <1>1, <1>5
      <4> HIDE DEF a, b
      <4>2. b >= a
        BY <4>1
      <4>3. QED
        BY <4>2 DEF a, b
    <3>3. QED
      BY <3>1, <3>2
  <2>7. ASSUME NEW h \in Reported PROVE Kept(h)'
    <3>1. CASE h = g
      <4>1. queue'[All] \in Nat
        BY DEF Inv, RowsInv, Messages
      <4>2. queue'[All] + queue'[h] > 0
        BY <2>6, <3>1, <4>1
      <4>3. QED
        BY <4>2 DEF Kept, Due
    <3>2. CASE h # g
      <4>1. Owes(work[s], h) => Owes(w, h)
        BY <1>2, <2>1, <3>2 DEF Owes, left
      <4>2. \A p \in Workers : Owes(work[p], h) => Owes(work'[p], h)
        BY <2>3, <4>1 DEF Sessions
      <4>3. Kept(h) /\ h \in Households
        BY DataAssumption DEF DueInv
      <4>4. \A b \in BOOLEAN : digests'[h][b] >= digests[h][b]
        <5> TAKE b \in BOOLEAN
        <5> DEFINE d == digests[h][b]
        <5>1. d \in Nat /\ digests'[h][b] = d
          BY <1>1, <1>3, <4>3
        <5> HIDE DEF d
        <5>2. digests'[h][b] >= d
          BY <5>1
        <5>3. QED
          BY <5>2 DEF d
      <4>5. QED
        BY <1>3, <2>6, <4>2, <4>3, <4>4, KeptOn
    <3>3. QED
      BY <3>1, <3>2
  <2>8. QED
    BY <2>4, <2>7 DEF DueInv
<1>6. QED
  BY <1>4, <1>5 DEF Delay, Leaves

LEMMA BegunOwes ==
  ASSUME NEW k \in {"digest", "kpis", "sheet", "projection", "update", "start", "all"},
         NEW g, k = "all" => g = All
  PROVE  /\ TaskOK(Begun(k, g))
         /\ k = "all" => \A h : Owes(Begun(k, g), h)
         /\ k = "digest" => Owes(Begun(k, g), g)
<1> DEFINE w == Begun(k, g)
           q == Script[k]
<1>1. w.kind = k /\ w.h = g /\ w.todo = q
  BY DEF Begun, NoSession
<1>2. k = "all" => q = <<"users", "delay">>
  BY DEF Script
<1>3. k # "all" => ~Occurs(q, "users") /\ ~Occurs(q, "delay")
  BY Scripts
<1> HIDE DEF w, q
<1>4. TaskOK(w)
  BY <1>1, <1>2, <1>3 DEF TaskOK
<1>5. k = "all" => \A h : Owes(w, h)
  <2>1. k = "all" => Head(q) = "users"
    BY <1>2
  <2>2. QED
    BY <1>1, <2>1 DEF Owes
<1>6. k = "digest" => Owes(w, g)
  BY <1>1 DEF Owes
<1>7. QED
  BY <1>4, <1>5, <1>6 DEF w

LEMMA TakeDue ==
  ASSUME Inv, Inv', DueInv, NEW p \in Workers, NEW m \in Messages, Take(p, m)
  PROVE  DueInv'
<1>1. /\ queue \in [Messages -> Nat] /\ queue' = [queue EXCEPT ![m] = @ - 1]
      /\ work[p].kind = "none" /\ p \in Sessions
      /\ UNCHANGED <<alive, digests>>
  BY DEF Take, InFlight, Inv, RowsInv, Sessions, data, rows
<1>2. \A t \in Messages \ {m} : queue'[t] = queue[t]
  BY <1>1
<1>3. \A h : ~Owes(work[p], h)
  BY <1>1 DEF Owes
<1> DEFINE k == IF m = All THEN "all" ELSE "digest"
           w == Begun(k, m)
<1>4. /\ TaskOK(w) /\ \A h \in Reported : m \in {h, All} => Owes(w, h)
  <2>1. /\ k \in {"digest", "kpis", "sheet", "projection", "update", "start", "all"}
        /\ k = "all" => m = All
    OBVIOUS
  <2>2. /\ TaskOK(w) /\ (k = "all" => \A h : Owes(w, h))
        /\ (k = "digest" => Owes(w, m))
    BY <2>1, BegunOwes
  <2> HIDE DEF w
  <2>3. QED
    BY <2>2
<1> HIDE DEF w, k
<1>5. \/ UNCHANGED work /\ lost' = lost \cup Missed(m)
      \/ work' = [work EXCEPT ![p] = w] /\ UNCHANGED lost
  BY DEF Take, w, k
<1>6. \/ UNCHANGED work /\ lost' = lost \cup Missed(m)
      \/ UNCHANGED lost /\ work'[p] = w /\ \A t \in Sessions \ {p} : work'[t] = work[t]
  BY <1>1, <1>5 DEF Inv, RowsInv
<1>7. TaskInv'
  BY <1>4, <1>6 DEF DueInv, TaskInv
<1>8. ASSUME NEW h \in Reported PROVE Kept(h)'
  <2>1. Kept(h) /\ h \in Messages /\ All \in Messages
    BY DataAssumption DEF DueInv, Messages
  <2>2. CASE m \in {h, All}
    <3>1. CASE lost' = lost \cup Missed(m)
      BY <2>2, <3>1 DEF Missed, Kept
    <3>2. CASE work'[p] = w
      BY <1>4, <2>2, <3>2 DEF Kept, Due, Owes, At, InFlight
    <3>3. QED
      BY <1>6, <3>1, <3>2
  <2>3. CASE m \notin {h, All}
    <3>1. queue'[h] = queue[h] /\ queue'[All] = queue[All]
      BY <1>2, <2>1, <2>3
    <3>2. \A v \in Workers : Owes(work[v], h) => Owes(work'[v], h)
      BY <1>3, <1>6 DEF Sessions
    <3>3. Due(h) => Due(h)'
      BY <3>1, <3>2 DEF Due, Owes, At, InFlight
    <3>4. lost \subseteq lost'
      BY <1>5
    <3>5. QED
      BY <1>1, <2>1, <3>3, <3>4 DEF Kept, Stored
  <2>4. QED
    BY <2>2, <2>3
<1>9. QED
  BY <1>7, <1>8 DEF DueInv

\* What came back from the processes of a worker that was stopped.
LEMMA DeployDue ==
  ASSUME Inv, Inv', DueInv, Deploy
  PROVE  DueInv'
<1> DEFINE Lost(t) == {w \in Workers : InFlight(w) /\ work[w].h = t}
<1>1. /\ queue \in [Messages -> Nat] /\ queue' \in [Messages -> Nat]
      /\ queue' = [t \in Messages |-> queue[t] + Cardinality(Lost(t))]
      /\ work' = [s \in Sessions |-> IF s \in Workers THEN NoSession ELSE work[s]]
      /\ UNCHANGED <<alive, digests, lost>>
  BY DEF Deploy, Inv, RowsInv, data, rows
<1>2. \A t : /\ Cardinality(Lost(t)) \in Nat
             /\ Lost(t) # {} => Cardinality(Lost(t)) # 0
  <2> TAKE t
  <2>1. Lost(t) \in SUBSET Workers
    OBVIOUS
  <2>2. IsFiniteSet(Lost(t))
    BY <2>1, DataAssumption, FS_Subset
  <2>3. QED
    BY <2>2, FS_CardinalityType, FS_EmptySet
<1>3. \A t \in Messages, w \in Workers :
        work[w].kind # "none" /\ work[w].h = t => Lost(t) # {}
  BY DEF InFlight
<1> HIDE DEF Lost
<1>4. \A t \in Messages : queue'[t] >= queue[t]
  <2> TAKE t \in Messages
  <2> DEFINE a == queue[t]
             b == queue'[t]
             n == Cardinality(Lost(t))
  <2>1. a \in Nat /\ n \in Nat /\ b = a + n
    BY <1>1, <1>2
  <2> HIDE DEF a, b, n
  <2>2. b >= a
    BY <2>1
  <2>3. QED
    BY <2>2 DEF a, b
<1>5. \A t \in Messages : Lost(t) # {} => queue'[t] > 0
  <2> TAKE t \in Messages
  <2> DEFINE a == queue[t]
             b == queue'[t]
             n == Cardinality(Lost(t))
  <2>1. a \in Nat /\ n \in Nat /\ b = a + n /\ (Lost(t) # {} => n # 0)
    BY <1>1, <1>2
  <2> HIDE DEF a, b, n
  <2>2. Lost(t) # {} => b > 0
    BY <2>1
  <2>3. QED
    BY <2>2 DEF b
<1>6. TaskInv'
  BY <1>1, NoSessionOwes DEF DueInv, TaskInv
<1>7. ASSUME NEW h \in Reported PROVE Kept(h)'
  <2>1. Kept(h) /\ h \in Messages /\ All \in Messages /\ h \in Households
    BY DataAssumption DEF DueInv, Messages
  <2>2. ASSUME NEW w \in Workers, Owes(work[w], h)
        PROVE  \E t \in {h, All} : work[w].kind # "none" /\ work[w].h = t
    <3>1. TaskOK(work[w]) /\ (work[w].kind # "none" => ScriptOK(work[w].todo))
      BY DEF DueInv, TaskInv, Inv, RowsInv, SessionOK, Sessions
    <3>2. CASE work[w].kind = "digest" /\ work[w].h = h
      BY <3>2
    <3>3. CASE work[w].kind # "none" /\ Head(work[w].todo) \in {"users", "delay"}
      BY <3>1, <3>3, HeadOccurs DEF TaskOK
    <3>4. QED
      BY <2>2, <3>2, <3>3 DEF Owes
  <2>3. CASE \E w \in Workers : Owes(work[w], h)
    <3>1. PICK w \in Workers : Owes(work[w], h)
      BY <2>3
    <3>2. PICK t \in {h, All} : work[w].kind # "none" /\ work[w].h = t
      BY <2>2, <3>1
    <3>3. queue'[t] > 0
      BY <1>3, <1>5, <2>1, <3>2
    <3> DEFINE a == queue'[All]
               b == queue'[h]
    <3>4. a \in Nat /\ b \in Nat /\ (a > 0 \/ b > 0)
      BY <1>1, <2>1, <3>3
    <3> HIDE DEF a, b
    <3>5. a + b > 0
      BY <3>4
    <3>6. QED
      BY <3>5 DEF Kept, Due, a, b
  <2>4. CASE ~ \E w \in Workers : Owes(work[w], h)
    <3>1. Due(h) => Due(h)'
      <4>1. Due(h) => queue[All] + queue[h] > 0
        BY <2>4, DueMeans
      <4> DEFINE a == queue[All]
                 b == queue[h]
                 c == queue'[All]
                 d == queue'[h]
      <4>2. a \in Nat /\ b \in Nat /\ c \in Nat /\ d \in Nat /\ c >= a /\ d >= b
        BY <1>1, <1>4, <2>1
      <4>3. Due(h) => a + b > 0
        BY <4>1
      <4> HIDE DEF a, b, c, d
      <4>4. Due(h) => c + d > 0
        BY <4>2, <4>3
      <4>5. QED
        BY <4>4 DEF Due, c, d
    <3>2. QED
      BY <1>1, <2>1, <3>1 DEF Kept, Stored
  <2>5. QED
    BY <2>3, <2>4
<1>8. QED
  BY <1>6, <1>7 DEF DueInv

-----------------------------------------------------------------------------
(* Requests, edits and commits *)

LEMMA BeginDue ==
  ASSUME Inv, Inv', DueInv, NEW r \in Requests, Begin(r)
  PROVE  DueInv'
<1>1. PICK a \in Asked : work' = [work EXCEPT ![r] = Begun(a[1], a[2])]
  BY DEF Begin
<1> DEFINE k == a[1]
           g == a[2]
           w == Begun(k, g)
<1>2. k \in {"kpis", "sheet", "projection", "update", "start"}
  BY DataAssumption
<1>3. TaskOK(w)
  <2> HIDE DEF k, g
  <2>1. QED
    BY <1>2, BegunOwes
<1> HIDE DEF w
<1>4. work'[r] = w /\ \A s \in Sessions \ {r} : work'[s] = work[s]
  BY <1>1 DEF Inv, RowsInv, Sessions, w
<1>5. work[r].kind = "none" /\ UNCHANGED <<alive, digests, queue, lost>>
  BY DEF Begin, InFlight, data, rows, celery, history
<1>6. TaskInv'
  BY <1>3, <1>4 DEF DueInv, TaskInv
<1>7. \A v \in Workers, h \in Reported : Owes(work[v], h) => Owes(work'[v], h)
  BY <1>4, <1>5 DEF Owes, Sessions
<1>8. QED
  BY <1>5, <1>6, <1>7, KeptSame

LEMMA DisturbedLike ==
  ASSUME NEW t, NEW v, SessionOK(v)
  PROVE  Like(Disturbed(t, v), v)
<1> DEFINE w == [v EXCEPT !.calm = FALSE]
<1>1. DOMAIN v = Fields
  BY DEF SessionOK
<1>2. w.kind = v.kind /\ w.h = v.h /\ w.todo = v.todo /\ w.left = v.left
  BY <1>1 DEF Fields
<1>3. QED
  BY <1>2 DEF Disturbed, Like

LEMMA EditDue ==
  ASSUME Inv, Inv', DueInv, Edit
  PROVE  DueInv'
<1>1. /\ \A s \in Sessions : work'[s] = Disturbed(s, work[s]) /\ SessionOK(work[s])
      /\ UNCHANGED <<alive, digests, queue, lost>>
  BY DEF Edit, Inv, RowsInv, rows, celery
<1>2. \A s \in Sessions : Like(work'[s], work[s])
  BY <1>1, DisturbedLike
<1>3. TaskInv'
  BY <1>2, LikeOwes DEF DueInv, TaskInv
<1>4. \A w \in Workers, h \in Reported : Owes(work[w], h) => Owes(work'[w], h)
  BY <1>2, LikeOwes DEF Sessions
<1>5. QED
  BY <1>1, <1>3, <1>4, KeptSame

LEMMA DeleteDue ==
  ASSUME Inv, Inv', DueInv, NEW g \in Households, Delete(g)
  PROVE  DueInv'
<1>1. /\ \A s \in Sessions : work'[s] = Disturbed(s, work[s]) /\ SessionOK(work[s])
      /\ alive' = alive \ {g}
      /\ digests' = [digests EXCEPT ![g] = [b \in BOOLEAN |-> 0]]
      /\ UNCHANGED <<queue, lost>>
      /\ digests \in [Households -> [BOOLEAN -> Nat]] /\ queue \in [Messages -> Nat]
  BY DEF Delete, Inv, RowsInv, celery
<1>2. \A s \in Sessions : Like(work'[s], work[s])
  BY <1>1, DisturbedLike
<1>3. TaskInv'
  BY <1>2, LikeOwes DEF DueInv, TaskInv
<1>4. ASSUME NEW h \in Reported PROVE Kept(h)'
  <2>1. Kept(h) /\ h \in Households
    BY DataAssumption DEF DueInv
  <2>2. \A w \in Workers : Owes(work[w], h) => Owes(work'[w], h)
    BY <1>2, LikeOwes DEF Sessions
  <2>3. Due(h) => Due(h)'
    BY <1>1, <2>2 DEF Due, Owes, At, InFlight
  <2>4. CASE h = g
    BY <1>1, <2>4 DEF Kept
  <2>5. CASE h # g
    BY <1>1, <2>1, <2>3, <2>5 DEF Kept, Stored
  <2>6. QED
    BY <2>4, <2>5
<1>5. QED
  BY <1>3, <1>4 DEF DueInv

LEMMA CommitDue ==
  ASSUME Inv, Inv', DueInv, NEW s \in Sessions, Commit(s)
  PROVE  DueInv'
<1> DEFINE w == work[s]
           g == w.h
<1>1. /\ \A t \in Sessions : SessionOK(work[t])
      /\ work' = [t \in Sessions |->
                    IF t = s THEN NoSession
                    ELSE IF w.hides = {} THEN work[t] ELSE Disturbed(t, work[t])]
      /\ digests' = IF w.kind = "digest" THEN [digests EXCEPT ![g] =
                           [digests[g] EXCEPT ![w.sent] = digests[g][w.sent] + 1]]
                    ELSE digests
      /\ UNCHANGED <<alive, queue, lost>>
      /\ w.kind # "none" /\ Head(w.todo) = "commit" /\ w.sent \in BOOLEAN
      /\ digests \in [Households -> [BOOLEAN -> Nat]]
      /\ digests' \in [Households -> [BOOLEAN -> Nat]] /\ queue \in [Messages -> Nat]
  BY DEF Commit, At, InFlight, Inv, RowsInv, SessionOK, history
<1> HIDE DEF w, g
<1>2. work'[s] = NoSession /\ \A t \in Sessions \ {s} : Like(work'[t], work[t])
  <2>1. work'[s] = NoSession
    BY <1>1
  <2>2. ASSUME NEW t \in Sessions \ {s} PROVE Like(work'[t], work[t])
    <3>1. work'[t] = work[t] \/ work'[t] = Disturbed(t, work[t])
      BY <1>1
    <3>2. QED
      BY <1>1, <3>1, DisturbedLike DEF Like
  <2>3. QED
    BY <2>1, <2>2
<1>3. TaskInv'
  BY <1>2, NoSessionOwes, LikeOwes DEF DueInv, TaskInv
<1>4. ASSUME NEW h \in Households, NEW b \in BOOLEAN
      PROVE  /\ digests'[h][b] >= digests[h][b]
             /\ w.kind = "digest" /\ g = h /\ w.sent = b => digests'[h][b] > 0
  <2> DEFINE a == digests[h][b]
             c == digests'[h][b]
  <2>1. a \in Nat /\ c \in Nat
    BY <1>1
  <2>2. CASE w.kind = "digest" /\ g = h /\ w.sent = b
    <3>1. digests'[g] = [digests[g] EXCEPT ![w.sent] = digests[g][w.sent] + 1]
      BY <1>1, <2>2
    <3>2. c = a + 1
      BY <1>1, <2>2, <3>1
    <3> HIDE DEF a, c
    <3>3. c >= a /\ c > 0
      BY <2>1, <3>2
    <3>4. QED
      BY <3>3 DEF a, c
  <2>3. CASE ~(w.kind = "digest" /\ g = h /\ w.sent = b)
    <3>1. c = a
      BY <1>1, <2>3
    <3> HIDE DEF a, c
    <3>2. c >= a
      BY <2>1, <3>1
    <3>3. QED
      BY <2>3, <3>2 DEF a, c
  <2>4. QED
    BY <2>2, <2>3
<1>5. ASSUME NEW h \in Reported PROVE Kept(h)'
  <2>1. Kept(h) /\ h \in Households
    BY DataAssumption DEF DueInv
  <2>2. CASE w.kind = "digest" /\ g = h
    <3> DEFINE a == digests'[h][TRUE]
               b == digests'[h][FALSE]
    <3>1. a \in Nat /\ b \in Nat /\ (a > 0 \/ b > 0)
      BY <1>1, <1>4, <2>1, <2>2
    <3> HIDE DEF a, b
    <3>2. a + b > 0
      BY <3>1
    <3>3. QED
      BY <3>2 DEF Kept, Stored, a, b
  <2>3. CASE ~(w.kind = "digest" /\ g = h)
    <3>1. ~Owes(work[s], h)
      BY <1>1, <2>3 DEF Owes, w, g
    <3>2. \A p \in Workers : Owes(work[p], h) => Owes(work'[p], h)
      BY <1>2, <3>1, LikeOwes DEF Sessions
    <3>3. \A t \in Messages : queue'[t] >= queue[t]
      BY <1>1
    <3>4. \A b \in BOOLEAN : digests'[h][b] >= digests[h][b]
      BY <1>4, <2>1
    <3>5. QED
      BY <1>1, <2>1, <3>2, <3>3, <3>4, KeptOn
  <2>4. QED
    BY <2>2, <2>3
<1>6. QED
  BY <1>3, <1>5 DEF DueInv

-----------------------------------------------------------------------------
(* No digest is forgotten *)

LEMMA InitDue == Init => DueInv
<1> SUFFICES ASSUME Init PROVE DueInv
  OBVIOUS
<1>1. /\ work = [s \in Sessions |-> NoSession]
      /\ queue = [t \in Messages |-> IF t = All THEN 1 ELSE 0]
  BY DEF Init
<1>2. TaskInv
  BY <1>1, NoSessionOwes DEF TaskInv
<1>3. \A h \in Reported : queue[All] = 1 /\ queue[h] = 0
  BY <1>1, DataAssumption DEF Messages
<1>4. \A h \in Reported : Kept(h)
  BY <1>3 DEF Kept, Due
<1>5. QED
  BY <1>2, <1>4 DEF DueInv

LEMMA StepDue ==
  ASSUME Inv, Inv', DueInv, NEW s \in Sessions, Step(s)
  PROVE  DueInv'
<1>1. CASE Raise(s)
  BY <1>1, RaiseDue
<1>2. CASE Moves(s) /\ UNCHANGED <<alive, digests, queue, lost>>
  BY <1>2, MovesDue
<1>3. CASE Commit(s)
  BY <1>3, CommitDue
<1>4. CASE SelectUsers(s)
  BY <1>4, SelectUsersDue
<1>5. CASE Delay(s)
  BY <1>5, DelayDue
<1>6. CASE \/ SelectAccounts(s) \/ SelectPeriod(s) \/ SelectSheetAccounts(s)
           \/ SelectSheet(s) \/ SelectBalances(s) \/ CountUncategorized(s)
           \/ Seed(s) \/ UpdateConfig(s) \/ HideAccounts(s)
  BY <1>2, <1>6, Moves1
<1>7. CASE SelectPrevious(s) \/ Send(s)
  BY <1>2, <1>7, Moves2
<1>8. CASE SaveSnapshots(s) \/ SaveProjection(s) \/ LoadConfig(s)
  BY <1>1, <1>2, <1>8, Moves3
<1>9. QED
  BY <1>3, <1>4, <1>5, <1>6, <1>7, <1>8 DEF Step

LEMMA NextDue == Inv /\ DueInv /\ [Next]_vars => DueInv'
<1> SUFFICES ASSUME Inv, DueInv, [Next]_vars PROVE DueInv'
  OBVIOUS
<1>0. Inv'
  BY NextInv
<1>1. CASE \E w \in Workers : Works(w)
  <2>1. PICK w \in Workers : Works(w)
    BY <1>1
  <2>2. w \in Sessions
    BY DEF Sessions
  <2>3. CASE Step(w)
    BY <1>0, <2>2, <2>3, StepDue
  <2>4. CASE \E t \in Messages : Take(w, t)
    BY <1>0, <2>4, TakeDue
  <2>5. QED
    BY <2>1, <2>3, <2>4 DEF Works
<1>2. CASE \E w \in Workers : Kill(w)
  BY <1>0, <1>2, KillDue
<1>3. CASE \E r \in Requests : Begin(r)
  BY <1>0, <1>3, BeginDue
<1>4. CASE \E r \in Requests : Step(r)
  BY <1>0, <1>4, StepDue DEF Sessions
<1>5. CASE Deploy
  BY <1>0, <1>5, DeployDue
<1>6. CASE Edit
  BY <1>0, <1>6, EditDue
<1>7. CASE \E h \in Households : Delete(h)
  BY <1>0, <1>7, DeleteDue
<1>8. CASE UNCHANGED vars
  <2>1. UNCHANGED <<work, alive, digests, queue, lost>>
    BY <1>8 DEF vars, data, rows, celery, history
  <2>2. TaskInv'
    BY <2>1 DEF DueInv, TaskInv
  <2>3. QED
    BY <1>0, <2>1, <2>2, KeptSame
<1>9. QED
  BY <1>1, <1>2, <1>3, <1>4, <1>5, <1>6, <1>7, <1>8 DEF Next

-----------------------------------------------------------------------------
(* Where a session is in its script *)

Kinds == {"digest", "kpis", "sheet", "projection", "update", "start", "all", "none"}

PlaceOK(v) ==
  /\ v.kind \in Kinds
  /\ \E n \in 0..Len(Script[v.kind]) :
       v.todo = SubSeq(Script[v.kind], n + 1, Len(Script[v.kind]))

PlaceInv == \A s \in Sessions : PlaceOK(work[s])

LEMMA ScriptsAreQueries == \A k \in Kinds : Script[k] \in Seq(Queries)
<1>1. \A k \in Kinds \ {"none"} : Script[k] \in Seq(Queries)
  BY Scripts DEF Kinds, ScriptOK
<1>2. Script.none \in Seq(Queries)
  <2>1. Script.none = <<>>
    BY DEF Script
  <2>2. QED
    BY <2>1, EmptySeq
<1>3. QED
  BY <1>1, <1>2

LEMMA PlaceBegins ==
  ASSUME NEW v, v.kind \in Kinds, v.todo = Script[v.kind]
  PROVE  PlaceOK(v)
<1> DEFINE q == Script[v.kind]
<1>1. q \in Seq(Queries) /\ Len(q) \in Nat
  BY ScriptsAreQueries
<1> HIDE DEF q
<1>2. q = SubSeq(q, 0 + 1, Len(q)) /\ 0 \in 0..Len(q)
  BY <1>1, SubSeqFull
<1>3. QED
  BY <1>2 DEF PlaceOK, q

LEMMA PlaceGoesOn ==
  ASSUME NEW v, NEW w, PlaceOK(v), v.todo # <<>>, w.kind = v.kind, w.todo = Tail(v.todo)
  PROVE  PlaceOK(w)
<1> DEFINE q == Script[v.kind]
<1>1. q \in Seq(Queries) /\ Len(q) \in Nat
  BY ScriptsAreQueries DEF PlaceOK
<1>2. PICK n \in 0..Len(q) : v.todo = SubSeq(q, n + 1, Len(q))
  BY DEF PlaceOK
<1> HIDE DEF q
<1>3. n # Len(q)
  <2> SUFFICES ASSUME n = Len(q) PROVE FALSE
    OBVIOUS
  <2>1. Len(q) < n + 1 /\ n + 1 \in Int /\ Len(q) \in Int
    BY <1>1
  <2>2. QED
    BY <1>2, <2>1, SubSeqEmpty
<1>4. n + 1 \in 1..Len(q) /\ Len(q) \in (n + 1)..Len(q) /\ n + 1 \in 0..Len(q)
  BY <1>1, <1>3
<1>5. Tail(SubSeq(q, n + 1, Len(q))) = SubSeq(q, (n + 1) + 1, Len(q))
  BY <1>1, <1>4, HeadTailOfSubSeq
<1>6. w.todo = SubSeq(q, (n + 1) + 1, Len(q))
  BY <1>2, <1>5
<1>7. \E m \in 0..Len(q) : w.todo = SubSeq(q, m + 1, Len(q))
  BY <1>4, <1>6
<1>8. QED
  BY <1>7 DEF PlaceOK, q

LEMMA NoSessionPlace == PlaceOK(NoSession)
<1>1. NoSession.kind = "none" /\ NoSession.todo = <<>> /\ Script.none = <<>>
  BY DEF NoSession, Script
<1>2. QED
  BY <1>1, PlaceBegins DEF Kinds

\* The queries of the digest.
LEMMA DigestQueries ==
  LET q == Script.digest
  IN  /\ q \in Seq(Queries) /\ Len(q) = 16
      /\ q[1] = "seed" /\ q[2] = "accounts" /\ q[3] = "period" /\ q[4] = "previous"
      /\ q[5] = "snapshots" /\ q[6] = "holdings" /\ q[7] = "sheet" /\ q[8] = "config"
      /\ q[9] = "balances" /\ q[10] = "accounts" /\ q[11] = "period" /\ q[12] = "previous"
      /\ q[13] = "projection" /\ q[14] = "uncategorized" /\ q[15] = "send"
      /\ q[16] = "commit"
<1> DEFINE a == <<"seed">>
           b == <<"snapshots", "holdings", "sheet", "config", "balances">>
           c == <<"projection", "uncategorized", "send", "commit">>
           m == Summing
<1>1. a \in Seq(Queries) /\ Len(a) = 1 /\ a[1] = "seed"
  BY DEF Queries
<1>2. /\ b \in Seq(Queries) /\ Len(b) = 5 /\ b[1] = "snapshots" /\ b[2] = "holdings"
      /\ b[3] = "sheet" /\ b[4] = "config" /\ b[5] = "balances"
  BY DEF Queries
<1>3. /\ c \in Seq(Queries) /\ Len(c) = 4 /\ c[1] = "projection"
      /\ c[2] = "uncategorized" /\ c[3] = "send" /\ c[4] = "commit"
  BY DEF Queries
<1>4. /\ m \in Seq(Queries) /\ Len(m) = 3
      /\ m[1] = "accounts" /\ m[2] = "period" /\ m[3] = "previous"
  BY DEF Summing, Queries
<1>5. Script.digest = a \o m \o b \o m \o c
  BY DEF Script
<1> HIDE DEF a, b, c, m
<1> DEFINE p == a \o m
           r == p \o b
           s == r \o m
           t == s \o c
<1>6. /\ p \in Seq(Queries) /\ Len(p) = 4
      /\ p[1] = "seed" /\ p[2] = "accounts" /\ p[3] = "period" /\ p[4] = "previous"
  <2>1. /\ p \in Seq(Queries) /\ Len(p) = Len(a) + Len(m)
        /\ \A i \in 1..Len(a) + Len(m) : p[i] = IF i <= Len(a) THEN a[i] ELSE m[i - Len(a)]
    BY <1>1, <1>4, ConcatProperties
  <2> HIDE DEF p
  <2>2. QED
    BY <1>1, <1>4, <2>1
<1> HIDE DEF p
<1>7. /\ r \in Seq(Queries) /\ Len(r) = 9
      /\ r[1] = "seed" /\ r[2] = "accounts" /\ r[3] = "period" /\ r[4] = "previous"
      /\ r[5] = "snapshots" /\ r[6] = "holdings" /\ r[7] = "sheet" /\ r[8] = "config"
      /\ r[9] = "balances"
  <2>1. /\ r \in Seq(Queries) /\ Len(r) = Len(p) + Len(b)
        /\ \A i \in 1..Len(p) + Len(b) : r[i] = IF i <= Len(p) THEN p[i] ELSE b[i - Len(p)]
    BY <1>2, <1>6, ConcatProperties
  <2> HIDE DEF r
  <2>2. QED
    BY <1>2, <1>6, <2>1
<1> HIDE DEF r
<1>8. /\ s \in Seq(Queries) /\ Len(s) = 12 /\ \A i \in 1..9 : s[i] = r[i]
      /\ s[10] = "accounts" /\ s[11] = "period" /\ s[12] = "previous"
  <2>1. /\ s \in Seq(Queries) /\ Len(s) = Len(r) + Len(m)
        /\ \A i \in 1..Len(r) + Len(m) : s[i] = IF i <= Len(r) THEN r[i] ELSE m[i - Len(r)]
    BY <1>4, <1>7, ConcatProperties
  <2> HIDE DEF s
  <2>2. QED
    BY <1>4, <1>7, <2>1
<1> HIDE DEF s
<1>9. /\ t \in Seq(Queries) /\ Len(t) = 16 /\ \A i \in 1..12 : t[i] = s[i]
      /\ t[13] = "projection" /\ t[14] = "uncategorized" /\ t[15] = "send"
      /\ t[16] = "commit"
  <2>0. s \in Seq(Queries) /\ c \in Seq(Queries)
    BY <1>3, <1>8
  <2>1. /\ t \in Seq(Queries) /\ Len(t) = Len(s) + Len(c)
        /\ \A i \in 1..Len(s) + Len(c) : t[i] = IF i <= Len(s) THEN s[i] ELSE c[i - Len(s)]
    BY <2>0, ConcatProperties
  <2> HIDE DEF t
  <2>2. QED
    BY <1>3, <1>8, <2>1
<1>10. t = Script.digest
  BY <1>5 DEF p, r, s
<1> HIDE DEF t
<1>11. QED
  BY <1>7, <1>8, <1>9, <1>10

\* What is ahead of a digest tells where it is.
LEMMA DigestPlace ==
  ASSUME NEW v, PlaceOK(v), v.kind = "digest", v.todo # <<>>
  PROVE  /\ Len(v.todo) \in 1..16
         /\ Head(v.todo) = Script.digest[17 - Len(v.todo)]
         /\ Len(Tail(v.todo)) = Len(v.todo) - 1
<1> DEFINE q == Script.digest
           t == v.todo
<1>1. q \in Seq(Queries) /\ Len(q) = 16
  BY DigestQueries
<1>2. PICK n \in 0..16 : t = SubSeq(q, n + 1, 16)
  BY <1>1 DEF PlaceOK
<1> HIDE DEF q, t
<1>3. t # <<>>
  BY DEF t
<1>4. n # 16
  <2>1. n = 16 => SubSeq(q, n + 1, 16) = <<>>
    BY SubSeqEmpty
  <2>2. QED
    BY <1>2, <1>3, <2>1
<1>5. /\ n + 1 \in 1..Len(q) /\ 16 \in (n + 1)..Len(q)
  BY <1>1, <1>4
<1>6. Head(t) = q[n + 1]
  BY <1>1, <1>2, <1>5, HeadTailOfSubSeq
<1>7. Len(t) = 16 - n /\ t \in Seq(Queries)
  <2>1. \A i \in (n + 1)..16 : q[i] \in Queries
    <3>1. \A i \in 1..16 : q[i] \in Queries
      BY <1>1, ElementOfSeq
    <3>2. \A i \in (n + 1)..16 : i \in 1..16
      <4>1. n \in 0..16
        OBVIOUS
      <4>2. QED
        BY <4>1
    <3>3. QED
      BY <3>1, <3>2
  <2>2. n + 1 \in Int /\ 16 \in Int /\ n + 1 <= 16
    BY <1>5
  <2>3. Len(SubSeq(q, n + 1, 16)) = 16 - (n + 1) + 1 /\ SubSeq(q, n + 1, 16) \in Seq(Queries)
    BY <2>1, <2>2, SubSeqProperties
  <2>4. QED
    BY <1>2, <2>3
<1>8. Len(Tail(t)) = Len(t) - 1
  BY <1>3, <1>7, HeadTailProperties
<1>9. QED
  BY <1>4, <1>6, <1>7, <1>8 DEF q, t

-----------------------------------------------------------------------------
(* The figures of a digest *)

AccsOf(h)   == {a \in shared : Owner[a] = h}
MonthOf(h)  == Counted(AccsOf(h), InPeriod)
BeforeOf(h) == Counted(AccsOf(h), Before)
AggOf(h)    == Aggregates(MonthOf(h), BeforeOf(h))
KpisOf(agg) == [k \in DOMAIN Builtin |-> Compute(Builtin[k], agg)]

SheetOf(h) ==
  LET B        == MonthOf(h)
      Under(c) == {b \in B : category[b] = c}
  IN  [totals   |-> Totals(B),
       rate     |-> Percent(Totals(B).net, Totals(B).income),
       incomes  |-> [c \in {category[b] : b \in B} |-> Income(Under(c))],
       expenses |-> [c \in {category[b] : b \in B} |-> Expense(Under(c))]]

ShownOK(p, agg) == p.cfg.actual => p.monthly = agg.now.net

\* What digest v has read so far, by the queries it has ahead, is what the data give:
\* accounts A with bookings B, figures G and balance sheet T.
FiguresOK(v, A, B, G, T) ==
  /\ Len(v.todo) <= 14 => v.accs = A
  /\ Len(v.todo) \in {13, 5} => v.now = B
  /\ Len(v.todo) <= 12 => v.agg = G
  /\ Len(v.todo) <= 11 => v.kpi = KpisOf(G)
  /\ Len(v.todo) <= 9 => v.sheet = T
  /\ Len(v.todo) <= 3 => ShownOK(v.shown, G)

Calm(s, h) == work[s].kind = "digest" /\ work[s].h = h /\ work[s].calm

FigInv ==
  \A s \in Sessions : \A h :
    Calm(s, h) => FiguresOK(work[s], AccsOf(h), MonthOf(h), AggOf(h), SheetOf(h))

CalmInv == PlaceInv /\ FigInv

\* w is v after the query x, with what the data give.
Reads(w, v, x, A, B, G, T) ==
  /\ IF x \in {"accounts", "holdings"} THEN w.accs = A ELSE w.accs = v.accs
  /\ x = "period" => w.now = B
  /\ x \notin {"period", "previous"} => w.now = v.now
  /\ IF x = "previous" THEN w.agg = G ELSE w.agg = v.agg
  /\ IF x = "snapshots" THEN w.kpi = KpisOf(G) ELSE w.kpi = v.kpi
  /\ IF x = "sheet" THEN w.sheet = T ELSE w.sheet = v.sheet
  /\ IF x = "projection" THEN ShownOK(w.shown, G) ELSE w.shown = v.shown

LEMMA FiguresGoOn ==
  ASSUME NEW v, NEW w, PlaceOK(v), v.kind = "digest", v.todo # <<>>, w.todo = Tail(v.todo),
         NEW A, NEW B, NEW G, NEW T, FiguresOK(v, A, B, G, T),
         Reads(w, v, Head(v.todo), A, B, G, T)
  PROVE  FiguresOK(w, A, B, G, T)
<1> DEFINE n == Len(v.todo)
           x == Head(v.todo)
           q == Script.digest
<1>1. n \in 1..16 /\ x = q[17 - n] /\ Len(w.todo) = n - 1
  BY DigestPlace
<1>2. /\ q[1] = "seed" /\ q[2] = "accounts" /\ q[3] = "period" /\ q[4] = "previous"
      /\ q[5] = "snapshots" /\ q[6] = "holdings" /\ q[7] = "sheet" /\ q[8] = "config"
      /\ q[9] = "balances" /\ q[10] = "accounts" /\ q[11] = "period" /\ q[12] = "previous"
      /\ q[13] = "projection" /\ q[14] = "uncategorized" /\ q[15] = "send"
      /\ q[16] = "commit"
  BY DigestQueries
<1> DEFINE m == Len(w.todo)
<1>3. Reads(w, v, x, A, B, G, T)
  OBVIOUS
<1>4. /\ n <= 14 => v.accs = A
      /\ n <= 12 => v.agg = G
      /\ n <= 11 => v.kpi = KpisOf(G)
      /\ n <= 9 => v.sheet = T
      /\ n <= 3 => ShownOK(v.shown, G)
  BY DEF FiguresOK
<1>5. m = n - 1
  BY <1>1
<1> HIDE DEF n, x, q, m
<1>6. /\ n = 15 <=> (n >= 14 /\ x = "accounts")
      /\ n \in {14, 6} <=> x = "period"
      /\ n \in {13, 5} <=> x = "previous"
      /\ n = 12 <=> x = "snapshots"
      /\ n = 10 <=> x = "sheet"
      /\ n = 4 <=> x = "projection"
  BY <1>1, <1>2
<1>7. m <= 14 => w.accs = A
  BY <1>1, <1>3, <1>4, <1>5, <1>6 DEF Reads
<1>8. m \in {13, 5} => w.now = B
  BY <1>1, <1>3, <1>5, <1>6 DEF Reads
<1>9. m <= 12 => w.agg = G
  BY <1>1, <1>3, <1>4, <1>5, <1>6 DEF Reads
<1>10. m <= 11 => w.kpi = KpisOf(G)
  BY <1>1, <1>3, <1>4, <1>5, <1>6 DEF Reads
<1>11. m <= 9 => w.sheet = T
  BY <1>1, <1>3, <1>4, <1>5, <1>6 DEF Reads
<1>12. m <= 3 => ShownOK(w.shown, G)
  <2>1. CASE x = "projection"
    BY <1>3, <2>1 DEF Reads
  <2>2. CASE x # "projection"
    <3>1. m <= 3 => n <= 3
      BY <1>1, <1>5, <1>6, <2>2
    <3>2. w.shown = v.shown
      BY <1>3, <2>2 DEF Reads
    <3>3. QED
      BY <1>4, <3>1, <3>2
  <2>3. QED
    BY <2>1, <2>2
<1>13. QED
  BY <1>7, <1>8, <1>9, <1>10, <1>11, <1>12 DEF FiguresOK, m

LEMMA FiguresRead ==
  ASSUME NEW v, PlaceOK(v), v.kind = "digest", v.todo # <<>>,
         NEW A, NEW B, NEW G, NEW T, FiguresOK(v, A, B, G, T)
  PROVE  /\ Head(v.todo) \in {"period", "previous", "sheet"} => v.accs = A
         /\ Head(v.todo) = "previous" => v.now = B
         /\ Head(v.todo) \in {"snapshots", "projection"} => v.agg = G
<1> DEFINE n == Len(v.todo)
           x == Head(v.todo)
           q == Script.digest
<1>1. n \in 1..16 /\ x = q[17 - n]
  BY DigestPlace
<1>2. /\ q[1] = "seed" /\ q[2] = "accounts" /\ q[3] = "period" /\ q[4] = "previous"
      /\ q[5] = "snapshots" /\ q[6] = "holdings" /\ q[7] = "sheet" /\ q[8] = "config"
      /\ q[9] = "balances" /\ q[10] = "accounts" /\ q[11] = "period" /\ q[12] = "previous"
      /\ q[13] = "projection" /\ q[14] = "uncategorized" /\ q[15] = "send"
      /\ q[16] = "commit"
  BY DigestQueries
<1>3. /\ n <= 14 => v.accs = A
      /\ n \in {13, 5} => v.now = B
      /\ n <= 12 => v.agg = G
  BY DEF FiguresOK
<1> HIDE DEF n, x, q
<1>4. /\ x \in {"period", "previous", "sheet"} => n <= 14
      /\ x = "previous" => n \in {13, 5}
      /\ x \in {"snapshots", "projection"} => n <= 12
  BY <1>1, <1>2
<1>5. QED
  BY <1>3, <1>4 DEF x

\* As long as the data stay, so do the figures.
LEMMA FiguresStay ==
  ASSUME UNCHANGED <<booked, category, excluded, shared>>, NEW h
  PROVE  /\ AccsOf(h)' = AccsOf(h) /\ MonthOf(h)' = MonthOf(h)
         /\ AggOf(h)' = AggOf(h) /\ SheetOf(h)' = SheetOf(h)
<1>1. AccsOf(h)' = AccsOf(h)
  BY DEF AccsOf
<1>2. MonthOf(h)' = MonthOf(h) /\ BeforeOf(h)' = BeforeOf(h)
  BY DEF AccsOf, MonthOf, BeforeOf, Counted, Counts
<1>3. AggOf(h)' = AggOf(h)
  BY DEF AggOf, Aggregates, ByKey, MonthOf, BeforeOf, Counted, Counts, AccsOf
<1>4. SheetOf(h)' = SheetOf(h)
  BY DEF SheetOf, MonthOf, Counted, Counts, AccsOf
<1>5. QED
  BY <1>1, <1>2, <1>3, <1>4

LEMMA CalmGoes ==
  ASSUME Inv, CalmInv, NEW s \in Sessions, Moves(s),
         UNCHANGED <<booked, category, excluded, shared>>, work'[s].calm = work[s].calm,
         \A h : Calm(s, h) => Reads(work'[s], work[s], Head(work[s].todo),
                                    AccsOf(h), MonthOf(h), AggOf(h), SheetOf(h))
  PROVE  CalmInv'
<1>1. /\ PlaceOK(work[s]) /\ work[s].kind # "none" /\ work[s].todo # <<>>
  BY DEF CalmInv, PlaceInv, Moves, At, InFlight, Inv, RowsInv, SessionOK, ScriptOK
<1>2. /\ work'[s].kind = work[s].kind /\ work'[s].h = work[s].h
      /\ work'[s].todo = Tail(work[s].todo)
      /\ \A t \in Sessions \ {s} : work'[t] = work[t]
  BY DEF Moves
<1>3. PlaceInv'
  <2>1. PlaceOK(work'[s])
    BY <1>1, <1>2, PlaceGoesOn
  <2>2. QED
    BY <1>2, <2>1 DEF CalmInv, PlaceInv
<1>4. ASSUME NEW t \in Sessions, NEW h, Calm(t, h)'
      PROVE  FiguresOK(work'[t], AccsOf(h), MonthOf(h), AggOf(h), SheetOf(h))
  <2>1. Calm(t, h)
    BY <1>2, <1>4 DEF Calm
  <2>2. FiguresOK(work[t], AccsOf(h), MonthOf(h), AggOf(h), SheetOf(h))
    BY <2>1 DEF CalmInv, FigInv
  <2>3. CASE t = s
    BY <1>1, <1>2, <2>1, <2>2, <2>3, FiguresGoOn DEF Calm
  <2>4. CASE t # s
    BY <1>2, <2>2, <2>4
  <2>5. QED
    BY <2>3, <2>4
<1>5. FigInv'
  BY <1>4, FiguresStay DEF FigInv
<1>6. QED
  BY <1>3, <1>5 DEF CalmInv

LEMMA AssignFields ==
  ASSUME Inv, NEW s \in Sessions, NEW f \in Fields \ {"todo"},
         NEW e, Goes(s, [work[s] EXCEPT ![f] = e])
  PROVE  /\ work'[s][f] = e
         /\ \A g \in Fields \ {f, "todo"} : work'[s][g] = work[s][g]
<1> DEFINE v == [[work[s] EXCEPT ![f] = e] EXCEPT !.todo = Tail(work[s].todo)]
<1>1. DOMAIN work[s] = Fields /\ DOMAIN work = Sessions
  BY DEF Inv, RowsInv, SessionOK
<1>2. v[f] = e /\ \A g \in Fields \ {f, "todo"} : v[g] = work[s][g]
  BY <1>1 DEF Fields
<1>3. work' = [work EXCEPT ![s] = v]
  BY DEF Goes
<1> HIDE DEF v
<1>4. work'[s] = v
  BY <1>1, <1>3
<1>5. QED
  BY <1>2, <1>4

LEMMA AccountsCalm ==
  ASSUME Inv, CalmInv, NEW s \in Sessions, SelectAccounts(s) \/ SelectSheetAccounts(s)
  PROVE  CalmInv'
<1> DEFINE e == {a \in shared : Owner[a] = work[s].h}
<1>1. /\ Moves(s) /\ UNCHANGED <<booked, category, excluded, shared>>
      /\ Goes(s, [work[s] EXCEPT !.accs = e])
      /\ Head(work[s].todo) \in {"accounts", "holdings"}
  BY Moves1 DEF SelectAccounts, SelectSheetAccounts, data, At
<1>2. \A h : Calm(s, h) => AccsOf(h) = e
  BY DEF Calm, AccsOf
<1> HIDE DEF e
<1>3. work'[s].accs = e /\ \A g \in Fields \ {"accs", "todo"} : work'[s][g] = work[s][g]
  BY <1>1, AssignFields DEF Fields
<1>4. /\ work'[s].now = work[s].now /\ work'[s].agg = work[s].agg
      /\ work'[s].kpi = work[s].kpi /\ work'[s].sheet = work[s].sheet
      /\ work'[s].shown = work[s].shown /\ work'[s].calm = work[s].calm
  BY <1>3 DEF Fields
<1>5. QED
  BY <1>1, <1>2, <1>3, <1>4, CalmGoes DEF Reads

LEMMA PeriodCalm ==
  ASSUME Inv, CalmInv, NEW s \in Sessions, SelectPeriod(s)
  PROVE  CalmInv'
<1> DEFINE e == Counted(work[s].accs, InPeriod)
<1>1. /\ Moves(s) /\ UNCHANGED <<booked, category, excluded, shared>>
      /\ Goes(s, [work[s] EXCEPT !.now = e]) /\ Head(work[s].todo) = "period"
      /\ work[s].kind # "none" /\ PlaceOK(work[s]) /\ work[s].todo # <<>>
  BY Moves1 DEF SelectPeriod, data, At, InFlight, CalmInv, PlaceInv, Inv, RowsInv,
                SessionOK, ScriptOK
<1>2. \A h : Calm(s, h) => MonthOf(h) = e
  <2> SUFFICES ASSUME NEW h, Calm(s, h) PROVE MonthOf(h) = e
    OBVIOUS
  <2>1. FiguresOK(work[s], AccsOf(h), MonthOf(h), AggOf(h), SheetOf(h))
    BY DEF CalmInv, FigInv
  <2>2. work[s].accs = AccsOf(h)
    BY <1>1, <2>1, FiguresRead DEF Calm
  <2>3. QED
    BY <2>2 DEF MonthOf
<1> HIDE DEF e
<1>3. work'[s].now = e /\ \A g \in Fields \ {"now", "todo"} : work'[s][g] = work[s][g]
  BY <1>1, AssignFields DEF Fields
<1>4. /\ work'[s].accs = work[s].accs /\ work'[s].agg = work[s].agg
      /\ work'[s].kpi = work[s].kpi /\ work'[s].sheet = work[s].sheet
      /\ work'[s].shown = work[s].shown /\ work'[s].calm = work[s].calm
  BY <1>3 DEF Fields
<1>5. QED
  BY <1>1, <1>2, <1>3, <1>4, CalmGoes DEF Reads

LEMMA SheetCalm ==
  ASSUME Inv, CalmInv, NEW s \in Sessions, SelectSheet(s)
  PROVE  CalmInv'
<1> DEFINE B        == Counted(work[s].accs, InPeriod)
           Under(c) == {b \in B : category[b] = c}
           e        == [totals   |-> Totals(B),
                        rate     |-> Percent(Totals(B).net, Totals(B).income),
                        incomes  |-> [c \in {category[b] : b \in B} |-> Income(Under(c))],
                        expenses |-> [c \in {category[b] : b \in B} |-> Expense(Under(c))]]
<1>1. /\ Moves(s) /\ UNCHANGED <<booked, category, excluded, shared>>
      /\ Goes(s, [work[s] EXCEPT !.sheet = e]) /\ Head(work[s].todo) = "sheet"
      /\ work[s].kind # "none" /\ PlaceOK(work[s]) /\ work[s].todo # <<>>
  BY Moves1 DEF SelectSheet, data, At, InFlight, CalmInv, PlaceInv, Inv, RowsInv,
                SessionOK, ScriptOK
<1>2. \A h : Calm(s, h) => SheetOf(h) = e
  <2> SUFFICES ASSUME NEW h, Calm(s, h) PROVE SheetOf(h) = e
    OBVIOUS
  <2>1. FiguresOK(work[s], AccsOf(h), MonthOf(h), AggOf(h), SheetOf(h))
    BY DEF CalmInv, FigInv
  <2>2. work[s].accs = AccsOf(h)
    BY <1>1, <2>1, FiguresRead DEF Calm
  <2>3. QED
    BY <2>2 DEF MonthOf, SheetOf
<1> HIDE DEF e, B, Under
<1>3. work'[s].sheet = e /\ \A g \in Fields \ {"sheet", "todo"} : work'[s][g] = work[s][g]
  BY <1>1, AssignFields DEF Fields
<1>4. /\ work'[s].accs = work[s].accs /\ work'[s].agg = work[s].agg
      /\ work'[s].kpi = work[s].kpi /\ work'[s].now = work[s].now
      /\ work'[s].shown = work[s].shown /\ work'[s].calm = work[s].calm
  BY <1>3 DEF Fields
<1>5. QED
  BY <1>1, <1>2, <1>3, <1>4, CalmGoes DEF Reads

LEMMA PreviousCalm ==
  ASSUME Inv, CalmInv, NEW s \in Sessions, SelectPrevious(s)
  PROVE  CalmInv'
<1> DEFINE e == Aggregates(work[s].now, Counted(work[s].accs, Before))
           v == [work[s] EXCEPT !.agg = e, !.now = {}, !.todo = Tail(work[s].todo)]
<1>1. /\ UNCHANGED <<booked, category, excluded, shared>>
      /\ Head(work[s].todo) = "previous" /\ work' = [work EXCEPT ![s] = v]
      /\ work[s].kind # "none" /\ PlaceOK(work[s]) /\ work[s].todo # <<>>
      /\ DOMAIN work[s] = Fields /\ DOMAIN work = Sessions
  <2>1. Goes(s, [work[s] EXCEPT !.agg = e, !.now = {}]) /\ UNCHANGED data /\ At(s, "previous")
    BY DEF SelectPrevious
  <2>2. work' = [work EXCEPT ![s] = v]
    BY <2>1 DEF Goes
  <2>3. QED
    BY <2>1, <2>2 DEF data, At, InFlight, CalmInv, PlaceInv, Inv, RowsInv, SessionOK, ScriptOK
<1>2. \A h : Calm(s, h) => AggOf(h) = e
  <2> SUFFICES ASSUME NEW h, Calm(s, h) PROVE AggOf(h) = e
    OBVIOUS
  <2>1. FiguresOK(work[s], AccsOf(h), MonthOf(h), AggOf(h), SheetOf(h))
    BY DEF CalmInv, FigInv
  <2>2. work[s].accs = AccsOf(h) /\ work[s].now = MonthOf(h)
    BY <1>1, <2>1, FiguresRead DEF Calm
  <2>3. QED
    BY <2>2 DEF AggOf, BeforeOf
<1>m. Moves(s)
  BY Moves2
<1> HIDE DEF e
<1>3. /\ v.agg = e /\ v.accs = work[s].accs /\ v.kpi = work[s].kpi /\ v.sheet = work[s].sheet
      /\ v.shown = work[s].shown /\ v.calm = work[s].calm
  BY <1>1 DEF Fields
<1> HIDE DEF v
<1>4. work'[s] = v
  BY <1>1
<1>5. QED
  BY <1>1, <1>2, <1>3, <1>4, <1>m, CalmGoes DEF Reads

\* A query that reads none of the figures.
LEMMA OtherCalm ==
  ASSUME Inv, CalmInv, NEW s \in Sessions, Moves(s),
         UNCHANGED <<booked, category, excluded, shared>>,
         Head(work[s].todo) \notin {"accounts", "holdings", "period", "previous",
                                    "snapshots", "sheet", "projection"},
         \A g \in {"accs", "now", "agg", "kpi", "sheet", "shown", "calm"} :
           work'[s][g] = work[s][g]
  PROVE  CalmInv'
<1>1. /\ work'[s].accs = work[s].accs /\ work'[s].agg = work[s].agg
      /\ work'[s].kpi = work[s].kpi /\ work'[s].sheet = work[s].sheet
      /\ work'[s].now = work[s].now /\ work'[s].shown = work[s].shown
      /\ work'[s].calm = work[s].calm
  OBVIOUS
<1>2. QED
  BY <1>1, CalmGoes DEF Reads

LEMMA AssignCalm ==
  ASSUME Inv, CalmInv, NEW s \in Sessions, Moves(s),
         UNCHANGED <<booked, category, excluded, shared>>,
         Head(work[s].todo) \notin {"accounts", "holdings", "period", "previous",
                                    "snapshots", "sheet", "projection"},
         NEW f \in {"seeds", "cfg", "balance", "open", "sent", "hides", "left"},
         NEW e, Goes(s, [work[s] EXCEPT ![f] = e])
  PROVE  CalmInv'
<1>1. \A g \in Fields \ {f, "todo"} : work'[s][g] = work[s][g]
  BY AssignFields DEF Fields
<1>2. \A g \in {"accs", "now", "agg", "kpi", "sheet", "shown", "calm"} :
        work'[s][g] = work[s][g]
  BY <1>1 DEF Fields
<1>3. QED
  BY <1>2, OtherCalm

LEMMA SameCalm ==
  ASSUME Inv, CalmInv, NEW s \in Sessions, Moves(s),
         UNCHANGED <<booked, category, excluded, shared>>,
         Head(work[s].todo) \notin {"accounts", "holdings", "period", "previous",
                                    "snapshots", "sheet", "projection"},
         Goes(s, work[s])
  PROVE  CalmInv'
<1> DEFINE v == [work[s] EXCEPT !.todo = Tail(work[s].todo)]
<1>1. DOMAIN work[s] = Fields /\ DOMAIN work = Sessions
  BY DEF Inv, RowsInv, SessionOK
<1>2. \A g \in {"accs", "now", "agg", "kpi", "sheet", "shown", "calm"} : v[g] = work[s][g]
  BY <1>1 DEF Fields
<1>3. work' = [work EXCEPT ![s] = v]
  BY DEF Goes
<1> HIDE DEF v
<1>4. work'[s] = v
  BY <1>1, <1>3
<1>5. QED
  BY <1>2, <1>4, OtherCalm

LEMMA OthersCalm ==
  ASSUME Inv, CalmInv, NEW s \in Sessions,
         \/ SelectBalances(s) \/ CountUncategorized(s) \/ Seed(s) \/ UpdateConfig(s)
         \/ HideAccounts(s) \/ Send(s)
  PROVE  CalmInv'
<1>1. UNCHANGED <<booked, category, excluded, shared>>
  BY DEF SelectBalances, CountUncategorized, Seed, UpdateConfig, HideAccounts, Send, data
<1>2. Moves(s)
  BY Moves1, Moves2
<1>3. Head(work[s].todo) \in {"balances", "uncategorized", "seed", "update", "joint", "send"}
  BY DEF SelectBalances, CountUncategorized, Seed, UpdateConfig, HideAccounts, Send, At
<1>4. Head(work[s].todo) \notin {"accounts", "holdings", "period", "previous",
                                 "snapshots", "sheet", "projection"}
  BY <1>3
<1>5. CASE \E f \in {"seeds", "cfg", "balance", "open", "sent", "hides", "left"} :
             \E e : Goes(s, [work[s] EXCEPT ![f] = e])
  BY <1>1, <1>2, <1>4, <1>5, AssignCalm
<1>6. CASE Goes(s, work[s])
  BY <1>1, <1>2, <1>4, <1>6, SameCalm
<1>7. CASE SelectBalances(s)
  BY <1>5, <1>7 DEF SelectBalances
<1>8. CASE CountUncategorized(s)
  BY <1>5, <1>8 DEF CountUncategorized
<1>9. CASE Seed(s)
  BY <1>5, <1>9 DEF Seed
<1>10. CASE UpdateConfig(s)
  BY <1>5, <1>10 DEF UpdateConfig
<1>11. CASE HideAccounts(s)
  BY <1>5, <1>6, <1>11 DEF HideAccounts
<1>12. CASE Send(s)
  BY <1>5, <1>6, <1>12 DEF Send
<1>13. QED
  BY <1>7, <1>8, <1>9, <1>10, <1>11, <1>12

\* The sessions that are not new go on with the data they have, or are disturbed.
LEMMA CalmStays ==
  ASSUME CalmInv, \A t \in Sessions : PlaceOK(work'[t]),
         \A t \in Sessions : work'[t].kind = "digest" /\ work'[t].calm =>
           \/ Len(work'[t].todo) = 16
           \/ /\ UNCHANGED <<booked, category, excluded, shared>>
              /\ \A g \in {"kind", "h", "calm", "todo", "accs", "now", "agg", "kpi",
                           "sheet", "shown"} : work'[t][g] = work[t][g]
  PROVE  CalmInv'
<1>1. ASSUME NEW t \in Sessions, NEW h, Calm(t, h)'
      PROVE  FiguresOK(work[t], AccsOf(h), MonthOf(h), AggOf(h), SheetOf(h))'
  <2>1. CASE Len(work'[t].todo) = 16
    BY <2>1 DEF FiguresOK
  <2>2. CASE /\ UNCHANGED <<booked, category, excluded, shared>>
             /\ \A g \in {"kind", "h", "calm", "todo", "accs", "now", "agg", "kpi",
                          "sheet", "shown"} : work'[t][g] = work[t][g]
    <3>1. /\ work'[t].kind = work[t].kind /\ work'[t].h = work[t].h
          /\ work'[t].calm = work[t].calm /\ work'[t].todo = work[t].todo
          /\ work'[t].accs = work[t].accs /\ work'[t].agg = work[t].agg
          /\ work'[t].kpi = work[t].kpi /\ work'[t].sheet = work[t].sheet
          /\ work'[t].now = work[t].now /\ work'[t].shown = work[t].shown
      BY <2>2
    <3>2. Calm(t, h)
      BY <1>1, <3>1 DEF Calm
    <3>3. FiguresOK(work[t], AccsOf(h), MonthOf(h), AggOf(h), SheetOf(h))
      BY <3>2 DEF CalmInv, FigInv
    <3>4. FiguresOK(work'[t], AccsOf(h), MonthOf(h), AggOf(h), SheetOf(h))
      BY <3>1, <3>3 DEF FiguresOK
    <3>5. QED
      BY <2>2, <3>4, FiguresStay
  <2>3. QED
    BY <1>1, <2>1, <2>2 DEF Calm
<1>2. QED
  BY <1>1 DEF CalmInv, PlaceInv, FigInv

LEMMA SnapshotsCalm ==
  ASSUME Inv, CalmInv, NEW s \in Sessions, SaveSnapshots(s), ~Raise(s)
  PROVE  CalmInv'
<1> DEFINE e == KpisOf(work[s].agg)
           v == [work[s] EXCEPT !.holds = TRUE, !.kpi = e, !.todo = Tail(work[s].todo)]
<1>1. /\ UNCHANGED <<booked, category, excluded, shared>>
      /\ Head(work[s].todo) = "snapshots" /\ work' = [work EXCEPT ![s] = v]
      /\ work[s].kind # "none" /\ PlaceOK(work[s]) /\ work[s].todo # <<>>
      /\ DOMAIN work[s] = Fields /\ DOMAIN work = Sessions
  <2>1. Goes(s, [work[s] EXCEPT !.holds = TRUE, !.kpi = e]) /\ UNCHANGED data
        /\ At(s, "snapshots")
    BY DEF SaveSnapshots, KpisOf
  <2>2. work' = [work EXCEPT ![s] = v]
    BY <2>1 DEF Goes
  <2>3. QED
    BY <2>1, <2>2 DEF data, At, InFlight, CalmInv, PlaceInv, Inv, RowsInv, SessionOK, ScriptOK
<1>2. \A h : Calm(s, h) => KpisOf(AggOf(h)) = e
  <2> SUFFICES ASSUME NEW h, Calm(s, h) PROVE KpisOf(AggOf(h)) = e
    OBVIOUS
  <2>1. FiguresOK(work[s], AccsOf(h), MonthOf(h), AggOf(h), SheetOf(h))
    BY DEF CalmInv, FigInv
  <2>2. work[s].agg = AggOf(h)
    BY <1>1, <2>1, FiguresRead DEF Calm
  <2>3. QED
    BY <2>2
<1>3. Moves(s)
  BY Moves3
<1> HIDE DEF e
<1>4. /\ v.kpi = e /\ v.accs = work[s].accs /\ v.now = work[s].now /\ v.agg = work[s].agg
      /\ v.sheet = work[s].sheet /\ v.shown = work[s].shown /\ v.calm = work[s].calm
  BY <1>1 DEF Fields
<1> HIDE DEF v
<1>5. work'[s] = v
  BY <1>1
<1>6. QED
  BY <1>1, <1>2, <1>3, <1>4, <1>5, CalmGoes DEF Reads

LEMMA ProjectionCalm ==
  ASSUME Inv, CalmInv, NEW s \in Sessions, SaveProjection(s), ~Raise(s)
  PROVE  CalmInv'
<1> DEFINE e == Project(work[s].balance, work[s].agg, work[s].cfg)
           v == [work[s] EXCEPT !.holds = TRUE, !.shown = e, !.todo = Tail(work[s].todo)]
<1>1. /\ UNCHANGED <<booked, category, excluded, shared>>
      /\ Head(work[s].todo) = "projection" /\ work' = [work EXCEPT ![s] = v]
      /\ work[s].kind # "none" /\ PlaceOK(work[s]) /\ work[s].todo # <<>>
      /\ DOMAIN work[s] = Fields /\ DOMAIN work = Sessions
  <2>1. Goes(s, [work[s] EXCEPT !.holds = TRUE, !.shown = e]) /\ UNCHANGED data
        /\ At(s, "projection")
    BY DEF SaveProjection
  <2>2. work' = [work EXCEPT ![s] = v]
    BY <2>1 DEF Goes
  <2>3. QED
    BY <2>1, <2>2 DEF data, At, InFlight, CalmInv, PlaceInv, Inv, RowsInv, SessionOK, ScriptOK
<1>2. \A h : Calm(s, h) => ShownOK(e, AggOf(h))
  <2> SUFFICES ASSUME NEW h, Calm(s, h) PROVE ShownOK(e, AggOf(h))
    OBVIOUS
  <2>1. FiguresOK(work[s], AccsOf(h), MonthOf(h), AggOf(h), SheetOf(h))
    BY DEF CalmInv, FigInv
  <2>2. work[s].agg = AggOf(h)
    BY <1>1, <2>1, FiguresRead DEF Calm
  <2> DEFINE G == AggOf(h)
             b == work[s].balance
             c == work[s].cfg
  <2>3. e = Project(b, G, c)
    BY <2>2
  <2> HIDE DEF G, b, c
  <2>4. Project(b, G, c).cfg = c /\ (c.actual => Project(b, G, c).monthly = G.now.net)
    BY DEF Project
  <2>5. QED
    BY <2>3, <2>4 DEF ShownOK, G
<1>3. Moves(s)
  BY Moves3
<1> HIDE DEF e
<1>4. /\ v.shown = e /\ v.accs = work[s].accs /\ v.now = work[s].now /\ v.agg = work[s].agg
      /\ v.sheet = work[s].sheet /\ v.kpi = work[s].kpi /\ v.calm = work[s].calm
  BY <1>1 DEF Fields
<1> HIDE DEF v
<1>5. work'[s] = v
  BY <1>1
<1>6. QED
  BY <1>1, <1>2, <1>3, <1>4, <1>5, CalmGoes DEF Reads

LEMMA ConfigCalm ==
  ASSUME Inv, CalmInv, NEW s \in Sessions, LoadConfig(s), ~Raise(s)
  PROVE  CalmInv'
<1> DEFINE v == [work[s] EXCEPT !.cfg = Default, !.makes = TRUE, !.holds = TRUE,
                                !.todo = Tail(work[s].todo)]
<1>1. /\ UNCHANGED <<booked, category, excluded, shared>> /\ Head(work[s].todo) = "config"
      /\ DOMAIN work[s] = Fields /\ DOMAIN work = Sessions
  BY DEF LoadConfig, data, At, Inv, RowsInv, SessionOK
<1>2. Moves(s)
  BY Moves3
<1>3. \/ \E c : Goes(s, [work[s] EXCEPT !.cfg = c])
      \/ Goes(s, [work[s] EXCEPT !.cfg = Default, !.makes = TRUE, !.holds = TRUE])
  BY DEF LoadConfig
<1>4. CASE \E c : Goes(s, [work[s] EXCEPT !.cfg = c])
  BY <1>1, <1>2, <1>4, AssignCalm
<1>5. CASE Goes(s, [work[s] EXCEPT !.cfg = Default, !.makes = TRUE, !.holds = TRUE])
  <2>1. work' = [work EXCEPT ![s] = v]
    BY <1>5 DEF Goes
  <2>2. \A g \in {"accs", "now", "agg", "kpi", "sheet", "shown", "calm"} : v[g] = work[s][g]
    BY <1>1 DEF Fields
  <2> HIDE DEF v
  <2>3. work'[s] = v
    BY <1>1, <2>1
  <2>4. QED
    BY <1>1, <1>2, <2>2, <2>3, OtherCalm
<1>6. QED
  BY <1>3, <1>4, <1>5

\* A session is over, and what the others have read stays.
LEMMA EndsCalm ==
  ASSUME Inv, CalmInv, UNCHANGED <<booked, category, excluded, shared>>,
         \A t \in Sessions : work'[t] = NoSession \/ work'[t] = work[t]
  PROVE  CalmInv'
<1>1. \A t \in Sessions : PlaceOK(work'[t])
  BY NoSessionPlace DEF CalmInv, PlaceInv
<1>2. NoSession.kind = "none"
  BY DEF NoSession
<1>3. \A t \in Sessions : work'[t].kind = "digest" => work'[t] = work[t]
  BY <1>2
<1>4. QED
  BY <1>1, <1>3, CalmStays

LEMMA BegunCalm ==
  ASSUME Inv, CalmInv, UNCHANGED <<booked, category, excluded, shared>>,
         NEW p \in Sessions, NEW h,
         NEW k \in {"digest", "kpis", "sheet", "projection", "update", "start", "all"},
         work' = [work EXCEPT ![p] = Begun(k, h)]
  PROVE  CalmInv'
<1> DEFINE v == Begun(k, h)
<1>1. v.kind = k /\ v.todo = Script[k]
  BY DEF Begun, NoSession
<1>2. k = "digest" => Len(v.todo) = 16
  BY <1>1, DigestQueries
<1> HIDE DEF v
<1>3. PlaceOK(v)
  BY <1>1, PlaceBegins DEF Kinds
<1>4. work'[p] = v /\ \A t \in Sessions \ {p} : work'[t] = work[t]
  BY DEF Inv, RowsInv, v
<1>5. \A t \in Sessions : PlaceOK(work'[t])
  BY <1>3, <1>4 DEF CalmInv, PlaceInv
<1>6. \A t \in Sessions : work'[t].kind = "digest" =>
        Len(work'[t].todo) = 16 \/ work'[t] = work[t]
  BY <1>1, <1>2, <1>4
<1>7. QED
  BY <1>5, <1>6, CalmStays

\* After a change of the data no session is calm but those that begin later.
LEMMA DisturbedCalm ==
  ASSUME Inv, CalmInv,
         \A t \in Sessions : work'[t] = NoSession \/ work'[t] = Disturbed(t, work[t])
  PROVE  CalmInv'
<1>1. ASSUME NEW t \in Sessions
      PROVE  PlaceOK(work'[t]) /\ ~(work'[t].kind = "digest" /\ work'[t].calm)
  <2>1. CASE work'[t] = NoSession
    <3>1. NoSession.kind = "none"
      BY DEF NoSession
    <3>2. QED
      BY <2>1, <3>1, NoSessionPlace
  <2>2. CASE work'[t] = Disturbed(t, work[t])
    <3> DEFINE v == [work[t] EXCEPT !.calm = FALSE]
    <3>1. DOMAIN work[t] = Fields /\ PlaceOK(work[t])
      BY DEF Inv, RowsInv, SessionOK, CalmInv, PlaceInv
    <3>2. v.kind = work[t].kind /\ v.todo = work[t].todo /\ v.calm = FALSE
      BY <3>1 DEF Fields
    <3>3. work'[t] = IF work[t].kind = "none" THEN work[t] ELSE v
      BY <2>2 DEF Disturbed
    <3> HIDE DEF v
    <3>4. PlaceOK(v)
      BY <3>1, <3>2 DEF PlaceOK
    <3>5. QED
      BY <3>1, <3>2, <3>3, <3>4
  <2>3. QED
    BY <2>1, <2>2
<1>2. QED
  BY <1>1, CalmStays

LEMMA CommitCalm ==
  ASSUME Inv, CalmInv, NEW s \in Sessions, Commit(s)
  PROVE  CalmInv'
<1> DEFINE w == work[s]
<1>1. /\ work' = [t \in Sessions |->
                    IF t = s THEN NoSession
                    ELSE IF w.hides = {} THEN work[t] ELSE Disturbed(t, work[t])]
      /\ shared' = shared \ w.hides /\ UNCHANGED <<booked, category, excluded>>
  BY DEF Commit
<1> HIDE DEF w
<1>2. CASE w.hides = {}
  <2>1. UNCHANGED shared /\ \A t \in Sessions : work'[t] = NoSession \/ work'[t] = work[t]
    BY <1>1, <1>2
  <2>2. QED
    BY <1>1, <2>1, EndsCalm
<1>3. CASE w.hides # {}
  <2>1. \A t \in Sessions : work'[t] = NoSession \/ work'[t] = Disturbed(t, work[t])
    BY <1>1, <1>3
  <2>2. QED
    BY <2>1, DisturbedCalm
<1>4. QED
  BY <1>2, <1>3

\* The task that hands out the messages is no digest.
LEMMA HandsCalm ==
  ASSUME Inv, DueInv, CalmInv, NEW s \in Sessions, SelectUsers(s) \/ Delay(s)
  PROVE  CalmInv'
<1>1. /\ DOMAIN work[s] = Fields /\ DOMAIN work = Sessions /\ ScriptOK(work[s].todo)
      /\ TaskOK(work[s]) /\ PlaceOK(work[s]) /\ work[s].todo # <<>>
      /\ Head(work[s].todo) \in {"users", "delay"} /\ work[s].kind # "none"
      /\ UNCHANGED <<booked, category, excluded, shared>>
  BY DEF SelectUsers, Delay, At, InFlight, Inv, RowsInv, SessionOK, DueInv, TaskInv,
         CalmInv, PlaceInv, ScriptOK, data
<1>2. work[s].kind = "all"
  BY <1>1, HeadOccurs DEF TaskOK
<1>3. CASE SelectUsers(s)
  <2> DEFINE e == alive \cap Reported
             v == [work[s] EXCEPT !.left = e, !.todo = Tail(work[s].todo)]
  <2>1. work' = [work EXCEPT ![s] = v]
    BY <1>3 DEF SelectUsers, Goes
  <2>2. v.kind = work[s].kind /\ v.todo = Tail(work[s].todo)
    BY <1>1 DEF Fields
  <2> HIDE DEF v
  <2>3. work'[s] = v /\ \A t \in Sessions \ {s} : work'[t] = work[t]
    BY <1>1, <2>1
  <2>4. PlaceOK(v)
    BY <1>1, <2>2, PlaceGoesOn
  <2>5. \A t \in Sessions : PlaceOK(work'[t])
    BY <2>3, <2>4 DEF CalmInv, PlaceInv
  <2>6. \A t \in Sessions : work'[t].kind = "digest" => work'[t] = work[t]
    BY <1>2, <2>2, <2>3
  <2>7. QED
    BY <1>1, <2>5, <2>6, CalmStays
<1>4. CASE Delay(s) /\ work[s].left # {}
  <2>1. PICK h \in work[s].left :
          work' = [work EXCEPT ![s] = [work[s] EXCEPT !.left = work[s].left \ {h}]]
    BY <1>4 DEF Delay
  <2> DEFINE e == work[s].left \ {h}
             v == [work[s] EXCEPT !.left = e]
  <2>2. v.kind = work[s].kind /\ v.todo = work[s].todo
    BY <1>1 DEF Fields
  <2> HIDE DEF v
  <2>3. work'[s] = v /\ \A t \in Sessions \ {s} : work'[t] = work[t]
    BY <1>1, <2>1 DEF v
  <2>4. PlaceOK(v)
    BY <1>1, <2>2 DEF PlaceOK
  <2>5. \A t \in Sessions : PlaceOK(work'[t])
    BY <2>3, <2>4 DEF CalmInv, PlaceInv
  <2>6. \A t \in Sessions : work'[t].kind = "digest" => work'[t] = work[t]
    BY <1>2, <2>2, <2>3
  <2>7. QED
    BY <1>1, <2>5, <2>6, CalmStays
<1>5. CASE Delay(s) /\ work[s].left = {}
  <2>1. work' = [work EXCEPT ![s] = NoSession]
    BY <1>5 DEF Delay, Leaves
  <2>2. \A t \in Sessions : work'[t] = NoSession \/ work'[t] = work[t]
    BY <1>1, <2>1
  <2>3. QED
    BY <1>1, <2>2, EndsCalm
<1>6. QED
  BY <1>3, <1>4, <1>5

LEMMA StepCalm ==
  ASSUME Inv, DueInv, CalmInv, NEW s \in Sessions, Step(s)
  PROVE  CalmInv'
<1>1. CASE Raise(s)
  <2>1. /\ work' = [work EXCEPT ![s] = NoSession] /\ DOMAIN work = Sessions
        /\ UNCHANGED <<booked, category, excluded, shared>>
    BY <1>1 DEF Raise, Leaves, data, Inv, RowsInv
  <2>2. \A t \in Sessions : work'[t] = NoSession \/ work'[t] = work[t]
    BY <2>1
  <2>3. QED
    BY <2>1, <2>2, EndsCalm
<1>2. CASE ~Raise(s)
  <2>1. CASE SelectAccounts(s) \/ SelectSheetAccounts(s)
    BY <2>1, AccountsCalm
  <2>2. CASE SelectPeriod(s)
    BY <2>2, PeriodCalm
  <2>3. CASE SelectSheet(s)
    BY <2>3, SheetCalm
  <2>4. CASE SelectPrevious(s)
    BY <2>4, PreviousCalm
  <2>5. CASE SaveSnapshots(s)
    BY <1>2, <2>5, SnapshotsCalm
  <2>6. CASE SaveProjection(s)
    BY <1>2, <2>6, ProjectionCalm
  <2>7. CASE LoadConfig(s)
    BY <1>2, <2>7, ConfigCalm
  <2>8. CASE \/ SelectBalances(s) \/ CountUncategorized(s) \/ Seed(s) \/ UpdateConfig(s)
             \/ HideAccounts(s) \/ Send(s)
    BY <2>8, OthersCalm
  <2>9. CASE SelectUsers(s) \/ Delay(s)
    BY <2>9, HandsCalm
  <2>10. CASE Commit(s)
    BY <2>10, CommitCalm
  <2>11. QED
    BY <2>1, <2>2, <2>3, <2>4, <2>5, <2>6, <2>7, <2>8, <2>9, <2>10 DEF Step
<1>3. QED
  BY <1>1, <1>2

LEMMA TakeCalm ==
  ASSUME Inv, CalmInv, NEW p \in Workers, NEW m \in Messages, Take(p, m)
  PROVE  CalmInv'
<1>1. UNCHANGED <<booked, category, excluded, shared>> /\ p \in Sessions
  BY DEF Take, data, Sessions
<1>2. \/ UNCHANGED work
      \/ \E k \in {"digest", "all"} : work' = [work EXCEPT ![p] = Begun(k, m)]
  BY DEF Take
<1>3. CASE UNCHANGED work
  BY <1>1, <1>3, EndsCalm
<1>4. CASE \E k \in {"digest", "all"} : work' = [work EXCEPT ![p] = Begun(k, m)]
  BY <1>1, <1>4, BegunCalm
<1>5. QED
  BY <1>2, <1>3, <1>4

LEMMA BeginCalm ==
  ASSUME Inv, CalmInv, NEW r \in Requests, Begin(r)
  PROVE  CalmInv'
<1>1. PICK a \in Asked : work' = [work EXCEPT ![r] = Begun(a[1], a[2])]
  BY DEF Begin
<1>2. a[1] \in {"kpis", "sheet", "projection", "update", "start"}
  BY DataAssumption
<1>3. UNCHANGED <<booked, category, excluded, shared>> /\ r \in Sessions
  BY DEF Begin, data, Sessions
<1>4. QED
  BY <1>1, <1>2, <1>3, BegunCalm

LEMMA InitCalm == Init => CalmInv
<1>1. NoSession.kind = "none"
  BY DEF NoSession
<1>2. QED
  BY <1>1, NoSessionPlace DEF Init, CalmInv, PlaceInv, FigInv, Calm

LEMMA NextCalm == Inv /\ DueInv /\ CalmInv /\ [Next]_vars => CalmInv'
<1> SUFFICES ASSUME Inv, DueInv, CalmInv, [Next]_vars PROVE CalmInv'
  OBVIOUS
<1>0. DOMAIN work = Sessions /\ Workers \subseteq Sessions /\ Requests \subseteq Sessions
  BY DEF Inv, RowsInv, Sessions
<1>1. CASE \E s \in Sessions : Step(s)
  BY <1>1, StepCalm
<1>2. CASE \E p \in Workers, m \in Messages : Take(p, m)
  BY <1>2, TakeCalm
<1>3. CASE \E p \in Workers : Kill(p)
  <2>1. /\ \A t \in Sessions : work'[t] = NoSession \/ work'[t] = work[t]
        /\ UNCHANGED <<booked, category, excluded, shared>>
    BY <1>0, <1>3 DEF Kill, data
  <2>2. QED
    BY <2>1, EndsCalm
<1>4. CASE \E r \in Requests : Begin(r)
  BY <1>4, BeginCalm
<1>5. CASE Deploy
  <2>1. /\ \A t \in Sessions : work'[t] = NoSession \/ work'[t] = work[t]
        /\ UNCHANGED <<booked, category, excluded, shared>>
    BY <1>5 DEF Deploy, data
  <2>2. QED
    BY <2>1, EndsCalm
<1>6. CASE Edit
  BY <1>6, DisturbedCalm DEF Edit
<1>7. CASE \E h \in Households : Delete(h)
  BY <1>7, DisturbedCalm DEF Delete
<1>8. CASE UNCHANGED vars
  <2>1. /\ \A t \in Sessions : work'[t] = NoSession \/ work'[t] = work[t]
        /\ UNCHANGED <<booked, category, excluded, shared>>
    BY <1>8 DEF vars, data
  <2>2. QED
    BY <2>1, EndsCalm
<1>9. QED
  BY <1>0, <1>1, <1>2, <1>3, <1>4, <1>5, <1>6, <1>7, <1>8 DEF Next, Works

-----------------------------------------------------------------------------
(* What the figures of a month are *)

LEMMA SumMeans == \A B : Sum(B) = Total(Amount, B)
BY DEF Sum, Total, MapThenSumSet, MapThenFoldSet

LEMMA SumsOfBookings ==
  /\ \A B \in SUBSET Bookings : Sum(B) \in Int
  /\ \A A, B \in SUBSET Bookings : A \cap B = {} => Sum(A \cup B) = Sum(A) + Sum(B)
<1>1. IsFiniteSet(Bookings) /\ \A b \in Bookings : Amount[b] \in Int
  BY DataAssumption
<1>2. \A B \in SUBSET Bookings : Total(Amount, B) \in Int
  BY <1>1, TotalSplits
<1>3. \A A, B \in SUBSET Bookings :
        A \cap B = {} => Total(Amount, A \cup B) = Total(Amount, A) + Total(Amount, B)
  BY <1>1, TotalAdds
<1>4. QED
  BY <1>2, <1>3, SumMeans

\* Income and expenses are together what the bookings sum up to.
LEMMA NetIsSum ==
  ASSUME NEW B \in SUBSET Bookings
  PROVE  Totals(B).net = Sum(B)
<1> DEFINE P == {b \in B : Amount[b] > 0}
           N == {b \in B : Amount[b] < 0}
<1>1. \A b \in B : Amount[b] \in Int \ {0}
  BY DataAssumption
<1>2. B = P \cup N
  BY <1>1
<1>3. P \cap N = {} /\ P \in SUBSET Bookings /\ N \in SUBSET Bookings
  BY <1>1
<1>4. Totals(B).net = Sum(P) - (-Sum(N))
  BY DEF Totals, Income, Expense
<1> HIDE DEF P, N
<1>5. Sum(B) = Sum(P) + Sum(N) /\ Sum(P) \in Int /\ Sum(N) \in Int
  BY <1>2, <1>3, SumsOfBookings
<1> DEFINE p == Sum(P)
           n == Sum(N)
<1>6. p \in Int /\ n \in Int
  BY <1>5
<1> HIDE DEF p, n
<1>7. p - (-n) = p + n
  BY <1>6
<1>8. QED
  BY <1>4, <1>5, <1>7 DEF p, n

\* What counts is what is not left out.
LEMMA MonthSplits ==
  ASSUME NEW h
  PROVE  /\ MonthOf(h) \in SUBSET Bookings
         /\ Sum(MonthOf(h)) = Sum(Month(h)) - Sum(LeftOut(h))
<1> DEFINE C == MonthOf(h)
           L == LeftOut(h)
           M == Month(h)
<1>1. InPeriod \subseteq Bookings /\ Amount \in [Bookings -> Int \ {0}]
      /\ Mentions \in [Bookings -> SUBSET Accounts]
  BY DataAssumption
<1>2. M \in SUBSET Bookings
  BY <1>1 DEF Month
<1>3. C = {b \in M : Counts(b, AccsOf(h))}
  BY DEF MonthOf, Counted, Month, AccsOf
<1>4. ASSUME NEW b \in M
      PROVE  b \in L <=> ~Counts(b, AccsOf(h))
  <2>1. /\ Amount[b] \in Int /\ Amount[b] # 0 /\ Mentions[b] \subseteq Accounts
    BY <1>1, <1>2
  <2>2. Mentions[b] \cap shared \cap {a \in Accounts : Owner[a] = h}
          = Mentions[b] \cap AccsOf(h)
    BY <2>1 DEF AccsOf
  <2>3. Amount[b] < 0 <=> ~(Amount[b] > 0)
    BY <2>1
  <2>4. QED
    BY <2>2, <2>3 DEF LeftOut, Counts
<1>5. L \subseteq M
  BY DEF LeftOut
<1> HIDE DEF C, L, M
<1>6. M = C \cup L /\ C \cap L = {} /\ C \in SUBSET Bookings /\ L \in SUBSET Bookings
  BY <1>2, <1>3, <1>4, <1>5
<1>7. Sum(M) = Sum(C) + Sum(L) /\ Sum(C) \in Int /\ Sum(L) \in Int
  BY <1>6, SumsOfBookings
<1>8. Sum(C) = Sum(M) - Sum(L)
  BY <1>7
<1>9. QED
  BY <1>6, <1>8 DEF C, L, M

\* The savings rate among the KPIs and the one on the balance sheet.
LEMMA RatesAgree ==
  ASSUME NEW h
  PROVE  KpisOf(AggOf(h))["Savings Rate"] = SheetOf(h).rate
<1> DEFINE G  == AggOf(h)
           f  == Builtin["Savings Rate"]
           ns == Namespace(G)
<1>1. "Savings Rate" \in DOMAIN Builtin
      /\ f = [op |-> "pct", x |-> "net_cashflow", y |-> "total_income"]
  BY RateAssumption
<1>2. KpisOf(G)["Savings Rate"] = Compute(f, G)
  BY <1>1 DEF KpisOf
<1>3. SheetOf(h).rate = Percent(G.now.net, G.now.income)
  BY DEF SheetOf, AggOf, Aggregates
<1> HIDE DEF G
<1>4. /\ "net_cashflow" \in DOMAIN ns /\ "total_income" \in DOMAIN ns
      /\ ns["net_cashflow"] = G.now.net /\ ns["total_income"] = G.now.income
  BY DEF Namespace
<1>5. f.op = "pct" /\ f.x = "net_cashflow" /\ f.y = "total_income"
  <2> HIDE DEF f
  <2>1. QED
    BY <1>1
<1> HIDE DEF f
<1>6. Compute(f, G) = Percent(ns[f.x], ns[f.y])
  <2>1. {f.x, f.y} \ DOMAIN ns = {}
    BY <1>4, <1>5
  <2> DEFINE n == ns[f.x]
             i == ns[f.y]
             p == Percent(n, i)
             c == Change(n, i)
  <2>2. Compute(f, G) = IF {f.x, f.y} \ DOMAIN ns # {} THEN 0
                        ELSE CASE f.op = "pct" -> p
                               [] f.op = "change" -> c
    BY DEF Compute
  <2> HIDE DEF p, c, ns
  <2>3. f.op # "change"
    BY <1>5
  <2>4. QED
    BY <1>5, <2>1, <2>2, <2>3 DEF p
<1>7. QED
  BY <1>2, <1>3, <1>4, <1>5, <1>6 DEF G

\* The sums of the balance sheet T under the KPI variables are those of the figures G.
Itemizes(T, G) ==
  \A k \in DOMAIN G.keys :
    G.keys[k].total
      = MapThenSumSet(LAMBDA c : T.expenses[c], {c \in DOMAIN T.expenses : Key[c] = k})

\* The categories of a KPI variable on the balance sheet, and that variable.
LEMMA KeysAgree ==
  ASSUME NEW h, NEW k \in DOMAIN AggOf(h).keys
  PROVE  AggOf(h).keys[k].total
           = Total(SheetOf(h).expenses, {c \in DOMAIN SheetOf(h).expenses : Key[c] = k})
<1> DEFINE C == MonthOf(h)
           S == {b \in C : Amount[b] < 0}
           D == {category[b] : b \in C}
           K == {c \in D : Key[c] = k}
           e == SheetOf(h).expenses
           spent == {b \in C : Amount[b] < 0 /\ Key[category[b]] = k}
<1>1. IsFiniteSet(Bookings) /\ (\A b \in Bookings : Amount[b] \in Int)
      /\ C \in SUBSET Bookings
  BY DataAssumption, MonthSplits
<1>2. IsFiniteSet(C) /\ IsFiniteSet(S) /\ \A b \in S : Amount[b] \in Int
  BY <1>1, FS_Subset
<1>3. IsFiniteSet(D)
  <2> DEFINE g == [b \in C |-> category[b]]
  <2>1. g \in Surjection(C, D)
    BY DEF Surjection
  <2> HIDE DEF g, C, D
  <2>2. QED
    BY <1>2, <2>1, FS_Surjection
<1>4. IsFiniteSet(K)
  BY <1>3, FS_Subset
<1>5. DOMAIN e = D /\ \A c \in D : e[c] = Expense({b \in C : category[b] = c})
  BY DEF SheetOf
<1>6. AggOf(h).keys[k].total = Expense(spent)
  <2>1. AggOf(h).keys = ByKey(C)
    BY DEF AggOf, Aggregates
  <2>2. k \in DOMAIN ByKey(C)
    BY <2>1
  <2>3. ByKey(C)[k].total = Expense(spent)
    BY <2>2 DEF ByKey
  <2>4. QED
    BY <2>1, <2>3
<1>7. \A c \in K : e[c] = -Total(Amount, Among(S, category, {c}))
  <2> TAKE c \in K
  <2>1. {b \in {x \in C : category[x] = c} : Amount[b] < 0} = Among(S, category, {c})
    BY DEF Among
  <2>2. e[c] = Expense({b \in C : category[b] = c})
    BY <1>5
  <2>3. QED
    BY <2>1, <2>2, SumMeans DEF Expense
<1>8. {b \in spent : Amount[b] < 0} = spent /\ Among(S, category, K) = spent
  BY DEF Among
<1>9. Expense(spent) = -Total(Amount, spent)
  BY <1>8, SumMeans DEF Expense
<1> HIDE DEF C, S, D, K, e, spent
<1>10. Total(e, K) = -Total(Amount, Among(S, category, K))
  <2>1. Classed(e, K, Amount, S, category)
    BY <1>2, <1>4, <1>7 DEF Classed
  <2>2. QED
    BY <2>1, TotalByClass
<1>11. AggOf(h).keys[k].total = Total(e, K)
  BY <1>6, <1>8, <1>9, <1>10
<1>12. QED
  BY <1>5, <1>11 DEF K, e

LEMMA SheetItemizes == \A h : Itemizes(SheetOf(h), AggOf(h))
<1> SUFFICES ASSUME NEW h, NEW k \in DOMAIN AggOf(h).keys
             PROVE  AggOf(h).keys[k].total
                      = MapThenSumSet(LAMBDA c : SheetOf(h).expenses[c],
                                      {c \in DOMAIN SheetOf(h).expenses : Key[c] = k})
  BY DEF Itemizes
<1>1. AggOf(h).keys[k].total
        = Total(SheetOf(h).expenses, {c \in DOMAIN SheetOf(h).expenses : Key[c] = k})
  BY KeysAgree
<1>2. QED
  BY <1>1 DEF Total
-----------------------------------------------------------------------------
(* Theorems *)

\* A household has one projection configuration and a built-in KPI one definition, in
\* every interleaving of digests, requests and starts, as long as no two sessions that
\* both found none have overlapped: nothing but the look-up in
\* get_or_create_user_projection_config and ensure_builtin_kpis_seeded keeps it so.
THEOREM RowsAreSeededOnce == Spec => []SeededOnce
<1>1. Inv => SeededOnce
  BY DEF Inv, ConfigInv, KpiInv, SeededOnce
<1>2. QED
  BY <1>1, InitInv, NextInv, PTL DEF Spec

\* A digest that is stored as sent has been sent, and a household whose messages never
\* came back from a worker that was stopped has the month once, however many processes
\* and whatever fails: generate_all_monthly_reports hands each household one message.
THEOREM DigestsAreSentOnce == Spec => []SentOnce
<1>1. ASSUME Inv PROVE SentOnce
  <2> SUFFICES ASSUME NEW h \in Households
               PROVE  /\ digests[h][TRUE] <= sent[h]
                      /\ sent[h] > 1 => redelivered \cap {h, All} # {}
    BY DEF SentOnce
  <2> DEFINE d == digests[h][TRUE]
             n == Cardinality(Storing(h))
             k == sent[h]
             a == queue[All]
             b == queue[h]
  <2>1. d \in Nat /\ k \in Nat /\ a \in Nat /\ b \in Nat
    BY <1>1 DEF Inv, RowsInv, Messages
  <2>2. n \in Nat
    BY StoringFinite
  <2>3. d + n <= k
    BY <1>1 DEF Inv, StoredInv
  <2>4. redelivered \cap {h, All} = {} => a + b + k <= 1
    BY <1>1 DEF Inv, CarryInv
  <2> HIDE DEF d, n, k, a, b
  <2>5. d <= k /\ (k > 1 => redelivered \cap {h, All} # {})
    BY <2>1, <2>2, <2>3, <2>4
  <2>6. QED
    BY <2>5 DEF d, k
<1>2. QED
  BY <1>1, InitInv, NextInv, PTL DEF Spec

\* The digest of every household is stored, or still to come, or its task has visibly
\* failed, wherever the worker is stopped: what generate_all_monthly_reports has handed
\* out and what it still has to hand out come back as messages (task_acks_late).
THEOREM DigestsAreNotForgotten == Spec => []NoDigestIsForgotten
<1>1. DueInv => NoDigestIsForgotten
  BY DEF DueInv, Kept, Stored, NoDigestIsForgotten
<1>2. Init => Inv /\ DueInv
  BY InitInv, InitDue
<1>3. Inv /\ DueInv /\ [Next]_vars => (Inv /\ DueInv)'
  BY NextInv, NextDue
<1>4. QED
  BY <1>1, <1>2, <1>3, PTL DEF Spec

\* KPIs, balance sheet and projection of a digest agree, whatever is committed before and
\* after: the three compute the month in their own ways (compute_aggregates_for_period,
\* generate_balance_sheet, compute_full_projection), and a digest with nothing committed
\* in between shows one result, the change of the balances but for what is left out.
THEOREM FiguresAlwaysAgree == Spec => []FiguresAgree
<1>1. ASSUME Inv, CalmInv, NEW s \in Sessions, Committing(s, {"digest"}), work[s].calm
      PROVE  LET w == work[s]
                 of(k) == {c \in DOMAIN w.sheet.expenses : Key[c] = k}
             IN  /\ w.sheet.totals = w.agg.now
                 /\ w.sheet.totals.net = Sum(Month(w.h)) - Sum(LeftOut(w.h))
                 /\ w.shown.cfg.actual => w.shown.monthly = w.sheet.totals.net
                 /\ w.kpi["Savings Rate"] = w.sheet.rate
                 /\ \A k \in DOMAIN w.agg.keys :
                      w.agg.keys[k].total = MapThenSumSet(LAMBDA c : w.sheet.expenses[c], of(k))
  <2> DEFINE w == work[s]
             h == w.h
             G == AggOf(h)
             T == SheetOf(h)
  <2>1. /\ w.kind = "digest" /\ Head(w.todo) = "commit" /\ w.todo # <<>> /\ PlaceOK(w)
        /\ FiguresOK(w, AccsOf(h), MonthOf(h), G, T)
    BY <1>1 DEF Committing, At, InFlight, CalmInv, PlaceInv, FigInv, Calm, Inv, RowsInv,
                SessionOK, ScriptOK
  <2>2. Len(w.todo) \in 1..16 /\ Script.digest[17 - Len(w.todo)] = "commit"
    BY <2>1, DigestPlace
  <2>3. Len(w.todo) = 1
    <3> DEFINE n == Len(w.todo)
               q == Script.digest
    <3>1. n \in 1..16 /\ q[17 - n] = "commit"
      BY <2>2
    <3>2. /\ q[1] = "seed" /\ q[2] = "accounts" /\ q[3] = "period" /\ q[4] = "previous"
          /\ q[5] = "snapshots" /\ q[6] = "holdings" /\ q[7] = "sheet" /\ q[8] = "config"
          /\ q[9] = "balances" /\ q[10] = "accounts" /\ q[11] = "period"
          /\ q[12] = "previous" /\ q[13] = "projection" /\ q[14] = "uncategorized"
          /\ q[15] = "send"
      BY DigestQueries
    <3> HIDE DEF n, q
    <3>3. n = 1
      BY <3>1, <3>2
    <3>4. QED
      BY <3>3 DEF n
  <2>4. w.agg = G /\ w.kpi = KpisOf(G) /\ w.sheet = T /\ ShownOK(w.shown, G)
    BY <2>1, <2>3 DEF FiguresOK
  <2>5. T.totals = Totals(MonthOf(h)) /\ G.now = Totals(MonthOf(h))
    BY DEF SheetOf, AggOf, Aggregates
  <2>6. Totals(MonthOf(h)).net = Sum(Month(h)) - Sum(LeftOut(h))
    BY MonthSplits, NetIsSum
  <2>7. KpisOf(G)["Savings Rate"] = T.rate
    BY RatesAgree
  <2>8. Itemizes(T, G)
    BY SheetItemizes
  <2> HIDE DEF G, T
  <2>9. w.sheet.totals = w.agg.now /\ w.sheet.totals.net = Sum(Month(h)) - Sum(LeftOut(h))
    BY <2>4, <2>5, <2>6
  <2>10. w.shown.cfg.actual => w.shown.monthly = w.sheet.totals.net
    BY <2>4, <2>5 DEF ShownOK
  <2>11. w.kpi["Savings Rate"] = w.sheet.rate
    BY <2>4, <2>7
  <2>12. Itemizes(w.sheet, w.agg)
    BY <2>4, <2>8
  <2> HIDE DEF w
  <2>13. QED
    BY <2>9, <2>10, <2>11, <2>12 DEF w, Itemizes
<1>2. Inv /\ CalmInv => FiguresAgree
  BY <1>1 DEF FiguresAgree
<1>3. Init => Inv /\ DueInv /\ CalmInv
  BY InitInv, InitDue, InitCalm
<1>4. Inv /\ DueInv /\ CalmInv /\ [Next]_vars => (Inv /\ DueInv /\ CalmInv)'
  BY NextInv, NextDue, NextCalm
<1>5. QED
  BY <1>2, <1>3, <1>4, PTL DEF Spec

-----------------------------------------------------------------------------
(* What a session knows *)

\* A session that projects or updates has its config, or is still to load it.
KnowsOK(w) ==
  /\ w.now \subseteq Bookings /\ w.accs \subseteq Accounts /\ w.hides \subseteq Accounts
  /\ w.makes => w.cfg \in Configs
  /\ w.shown # None => w.shown.cfg \in Configs
  /\ w.kind \in {"digest", "projection", "update"} =>
       Occurs(w.todo, "config") \/ w.cfg \in Configs
  /\ w.kind # "none" => w.h \in Messages \cup {None}

KnowInv ==
  /\ \A s \in Sessions : KnowsOK(work[s])
  /\ \A p \in Workers : work[p].kind # "none" => work[p].h \in Messages

DataInv ==
  /\ alive \subseteq Households /\ booked \subseteq Bookings /\ excluded \subseteq Bookings
  /\ category \in [Bookings -> Categories \cup {Transfer, DepotTransfer, Uncategorized}]
  /\ shared \subseteq Accounts
  /\ \A h \in Households : configs[h] \in Seq(Configs)
  /\ pool \in [Workers -> {"empty", "foreign"}]
  /\ events \in 0..MaxEvents /\ raced \subseteq Households \cup {"kpis"}
  /\ redelivered \subseteq Messages /\ lost \subseteq Households

\* No step that uses the config comes before it is loaded.
LoadsFirst(q) ==
  \A i, j \in 1..Len(q) : q[i] = "config" /\ q[j] \in {"projection", "commit"} => i < j

\* What is projected comes before the commit.
ProjectsFirst(q) ==
  \A i, j \in 1..Len(q) : q[i] = "projection" /\ q[j] = "commit" => i < j

LEMMA ConfigScripts ==
  /\ \A k \in {"digest", "projection", "update"} :
       Occurs(Script[k], "config") /\ LoadsFirst(Script[k])
  /\ \A k \in {"digest", "projection"} :
       Occurs(Script[k], "projection") /\ ProjectsFirst(Script[k])
  /\ \A k \in Kinds : Occurs(Script[k], "projection") => k \in {"digest", "projection"}
<1>1. /\ Occurs(Script.digest, "config") /\ LoadsFirst(Script.digest)
      /\ Occurs(Script.digest, "projection") /\ ProjectsFirst(Script.digest)
  <2> DEFINE q == Script.digest
  <2>1. /\ Len(q) = 16
        /\ q[1] = "seed" /\ q[2] = "accounts" /\ q[3] = "period" /\ q[4] = "previous"
        /\ q[5] = "snapshots" /\ q[6] = "holdings" /\ q[7] = "sheet" /\ q[8] = "config"
        /\ q[9] = "balances" /\ q[10] = "accounts" /\ q[11] = "period" /\ q[12] = "previous"
        /\ q[13] = "projection" /\ q[14] = "uncategorized" /\ q[15] = "send"
        /\ q[16] = "commit"
    BY DigestQueries
  <2> HIDE DEF q
  <2>2. Occurs(q, "config") /\ Occurs(q, "projection")
    BY <2>1 DEF Occurs
  <2>3. \A i \in 1..16 : /\ q[i] = "config" => i = 8
                         /\ q[i] = "projection" => i = 13
                         /\ q[i] = "commit" => i = 16
    BY <2>1
  <2>4. LoadsFirst(q) /\ ProjectsFirst(q)
    BY <2>1, <2>3 DEF LoadsFirst, ProjectsFirst
  <2>5. QED
    BY <2>2, <2>4 DEF q
<1>2. Occurs(Script.update, "config") /\ LoadsFirst(Script.update)
      /\ ~Occurs(Script.update, "projection")
  <2> DEFINE q == <<"config", "update", "commit">>
  <2>1. Len(q) = 3 /\ q[1] = "config" /\ q[2] = "update" /\ q[3] = "commit"
    OBVIOUS
  <2>2. Script.update = q
    BY DEF Script
  <2> HIDE DEF q
  <2>3. Occurs(q, "config") /\ LoadsFirst(q) /\ ~Occurs(q, "projection")
    BY <2>1 DEF Occurs, LoadsFirst
  <2>4. QED
    BY <2>2, <2>3
<1>3. /\ Occurs(Script.projection, "config") /\ LoadsFirst(Script.projection)
      /\ Occurs(Script.projection, "projection") /\ ProjectsFirst(Script.projection)
  <2> DEFINE a == <<"config", "balances">>
             c == <<"projection", "commit">>
             m == Summing
  <2>1. a \in Seq(Queries) /\ Len(a) = 2 /\ a[1] = "config" /\ a[2] = "balances"
    BY DEF Queries
  <2>2. c \in Seq(Queries) /\ Len(c) = 2 /\ c[1] = "projection" /\ c[2] = "commit"
    BY DEF Queries
  <2>3. /\ m \in Seq(Queries) /\ Len(m) = 3
        /\ m[1] = "accounts" /\ m[2] = "period" /\ m[3] = "previous"
    BY DEF Summing, Queries
  <2>4. Script.projection = a \o m \o c
    BY DEF Script
  <2> HIDE DEF a, c, m
  <2> DEFINE p == a \o m
             r == p \o c
  <2>5. /\ p \in Seq(Queries) /\ Len(p) = 5
        /\ p[1] = "config" /\ p[2] = "balances" /\ p[3] = "accounts" /\ p[4] = "period"
        /\ p[5] = "previous"
    <3>1. /\ p \in Seq(Queries) /\ Len(p) = Len(a) + Len(m)
          /\ \A i \in 1..Len(a) + Len(m) : p[i] = IF i <= Len(a) THEN a[i] ELSE m[i - Len(a)]
      BY <2>1, <2>3, ConcatProperties
    <3> HIDE DEF p
    <3>2. QED
      BY <2>1, <2>3, <3>1
  <2> HIDE DEF p
  <2>6. /\ r \in Seq(Queries) /\ Len(r) = 7 /\ \A i \in 1..5 : r[i] = p[i]
        /\ r[6] = "projection" /\ r[7] = "commit"
    <3>1. /\ r \in Seq(Queries) /\ Len(r) = Len(p) + Len(c)
          /\ \A i \in 1..Len(p) + Len(c) : r[i] = IF i <= Len(p) THEN p[i] ELSE c[i - Len(p)]
      BY <2>2, <2>5, ConcatProperties
    <3> HIDE DEF r
    <3>2. QED
      BY <2>2, <2>5, <3>1
  <2>7. Script.projection = r
    BY <2>4 DEF p
  <2> HIDE DEF r
  <2>8. Occurs(r, "config") /\ Occurs(r, "projection")
    BY <2>5, <2>6 DEF Occurs
  <2>9. \A i \in 1..7 : /\ r[i] = "config" => i = 1
                        /\ r[i] = "projection" => i = 6
                        /\ r[i] = "commit" => i = 7
    BY <2>5, <2>6
  <2>10. LoadsFirst(r) /\ ProjectsFirst(r)
    BY <2>6, <2>9 DEF LoadsFirst, ProjectsFirst
  <2>11. QED
    BY <2>7, <2>8, <2>10
<1>4. ~Occurs(Script.sheet, "projection")
  <2> DEFINE q == <<"holdings", "sheet", "commit">>
  <2>1. Len(q) = 3 /\ q[1] = "holdings" /\ q[2] = "sheet" /\ q[3] = "commit"
    OBVIOUS
  <2>2. Script.sheet = q
    BY DEF Script
  <2> HIDE DEF q
  <2>3. QED
    BY <2>1, <2>2 DEF Occurs
<1>5. ~Occurs(Script.start, "projection")
  <2> DEFINE q == <<"seed", "joint", "commit">>
  <2>1. Len(q) = 3 /\ q[1] = "seed" /\ q[2] = "joint" /\ q[3] = "commit"
    OBVIOUS
  <2>2. Script.start = q
    BY DEF Script
  <2> HIDE DEF q
  <2>3. QED
    BY <2>1, <2>2 DEF Occurs
<1>6. ~Occurs(Script.all, "projection")
  <2> DEFINE q == <<"users", "delay">>
  <2>1. Len(q) = 2 /\ q[1] = "users" /\ q[2] = "delay"
    OBVIOUS
  <2>2. Script.all = q
    BY DEF Script
  <2> HIDE DEF q
  <2>3. ~Occurs(q, "projection")
    BY <2>1 DEF Occurs
  <2>4. QED
    BY <2>2, <2>3
<1>7. ~Occurs(Script.none, "projection")
  <2>1. Script.none = <<>>
    BY DEF Script
  <2>2. QED
    BY <2>1 DEF Occurs
<1>8. ~Occurs(Script.kpis, "projection")
  <2> DEFINE a == <<"seed">>
             c == <<"snapshots", "commit">>
             m == Summing
  <2>1. a \in Seq(Queries) /\ Len(a) = 1 /\ a[1] = "seed"
    BY DEF Queries
  <2>2. c \in Seq(Queries) /\ Len(c) = 2 /\ c[1] = "snapshots" /\ c[2] = "commit"
    BY DEF Queries
  <2>3. /\ m \in Seq(Queries) /\ Len(m) = 3
        /\ m[1] = "accounts" /\ m[2] = "period" /\ m[3] = "previous"
    BY DEF Summing, Queries
  <2>4. Script.kpis = a \o m \o c
    BY DEF Script
  <2> HIDE DEF a, c, m
  <2>5. /\ ~Occurs(a, "projection") /\ ~Occurs(c, "projection") /\ ~Occurs(m, "projection")
    BY <2>1, <2>2, <2>3 DEF Occurs
  <2>6. a \o m \in Seq(Queries) /\ ~Occurs(a \o m, "projection")
    BY <2>1, <2>3, <2>5, Behind
  <2>7. ~Occurs(a \o m \o c, "projection")
    BY <2>2, <2>5, <2>6, Behind
  <2>8. QED
    BY <2>4, <2>7
<1>9. QED
  BY <1>1, <1>2, <1>3, <1>4, <1>5, <1>6, <1>7, <1>8 DEF Kinds

\* What a session still has to do is its script from some query on.
LEMMA Ahead ==
  ASSUME NEW v, PlaceOK(v), v.todo # <<>>
  PROVE  \E n \in 1..Len(Script[v.kind]) :
           /\ Head(v.todo) = Script[v.kind][n]
           /\ \A i \in 1..Len(v.todo) :
                /\ n + i - 1 \in 1..Len(Script[v.kind]) /\ n + i - 1 >= n
                /\ v.todo[i] = Script[v.kind][n + i - 1]
<1> DEFINE q == Script[v.kind]
           t == v.todo
<1>1. q \in Seq(Queries) /\ Len(q) \in Nat
  BY ScriptsAreQueries DEF PlaceOK
<1>2. PICK n \in 0..Len(q) : t = SubSeq(q, n + 1, Len(q))
  BY DEF PlaceOK
<1>c. t # <<>>
  OBVIOUS
<1> HIDE DEF q, t
<1>3. n # Len(q)
  <2>1. n = Len(q) => SubSeq(q, n + 1, Len(q)) = <<>>
    BY <1>1, SubSeqEmpty
  <2>2. QED
    BY <1>2, <1>c, <2>1
<1>4. n + 1 \in 1..Len(q) /\ Len(q) \in (n + 1)..Len(q) /\ n \in Nat
  BY <1>1, <1>3
<1>5. Head(t) = q[n + 1]
  BY <1>1, <1>2, <1>4, HeadTailOfSubSeq
<1>6. Len(t) = Len(q) - n /\ \A i \in 1..Len(t) : t[i] = q[n + 1 + i - 1]
  <2>1. \A i \in (n + 1)..Len(q) : q[i] \in Queries
    <3>1. \A i \in 1..Len(q) : q[i] \in Queries
      BY <1>1, ElementOfSeq
    <3>2. \A i \in (n + 1)..Len(q) : i \in 1..Len(q)
      BY <1>1, <1>4
    <3>3. QED
      BY <3>1, <3>2
  <2>2. n + 1 \in Int /\ Len(q) \in Int /\ n + 1 <= Len(q)
    BY <1>1, <1>4
  <2>3. /\ Len(SubSeq(q, n + 1, Len(q))) = Len(q) - (n + 1) + 1
        /\ \A i \in 1..(Len(q) - (n + 1) + 1) : SubSeq(q, n + 1, Len(q))[i] = q[n + 1 + i - 1]
    BY <2>1, <2>2, SubSeqProperties
  <2> DEFINE r == SubSeq(q, n + 1, Len(q))
  <2>4. Len(r) = Len(q) - n /\ \A i \in 1..(Len(q) - n) : r[i] = q[n + 1 + i - 1]
    <3>1. Len(q) - (n + 1) + 1 = Len(q) - n
      BY <1>1, <1>4
    <3>2. /\ Len(r) = Len(q) - (n + 1) + 1
          /\ \A i \in 1..(Len(q) - (n + 1) + 1) : r[i] = q[n + 1 + i - 1]
      BY <2>3
    <3> HIDE DEF r
    <3>3. QED
      BY <3>1, <3>2
  <2> HIDE DEF r
  <2>5. QED
    BY <1>2, <2>4 DEF r
<1>7. n + 1 \in 1..Len(q) /\ \A i \in 1..Len(t) : /\ (n + 1) + i - 1 \in 1..Len(q)
                                                 /\ (n + 1) + i - 1 >= n + 1
  BY <1>1, <1>4, <1>6
<1>8. QED
  BY <1>5, <1>6, <1>7 DEF q, t

\* A session that projects or commits has loaded its config, and one that commits has
\* projected.
LEMMA ConfigLoaded ==
  ASSUME NEW v, PlaceOK(v), v.todo # <<>>, Head(v.todo) \in {"projection", "commit"}
  PROVE  /\ v.kind \in {"digest", "projection", "update"} => ~Occurs(v.todo, "config")
         /\ Head(v.todo) = "projection" => v.kind \in {"digest", "projection"}
         /\ Head(v.todo) = "commit" /\ v.kind \in {"digest", "projection"} =>
              ~Occurs(v.todo, "projection")
<1> DEFINE q == Script[v.kind]
           t == v.todo
<1>1. PICK n \in 1..Len(q) :
        /\ Head(t) = q[n]
        /\ \A i \in 1..Len(t) : /\ n + i - 1 \in 1..Len(q) /\ n + i - 1 >= n
                                /\ t[i] = q[n + i - 1]
  BY Ahead
<1>2. /\ v.kind \in {"digest", "projection", "update"} => LoadsFirst(q)
      /\ v.kind \in {"digest", "projection"} => ProjectsFirst(q)
      /\ Occurs(q, "projection") => v.kind \in {"digest", "projection"}
  BY ConfigScripts DEF PlaceOK
<1>3. Head(t) \in {"projection", "commit"}
  OBVIOUS
<1> HIDE DEF q, t
<1>4. Occurs(t, "config") => ~LoadsFirst(q)
  <2> SUFFICES ASSUME Occurs(t, "config") PROVE ~LoadsFirst(q)
    OBVIOUS
  <2>1. PICK i \in 1..Len(t) : t[i] = "config"
    BY DEF Occurs
  <2>2. n + i - 1 \in 1..Len(q) /\ ~(n + i - 1 < n) /\ q[n + i - 1] = "config"
    BY <1>1, <2>1
  <2>3. QED
    BY <1>1, <1>3, <2>2 DEF LoadsFirst
<1>5. Head(t) = "commit" /\ Occurs(t, "projection") => ~ProjectsFirst(q)
  <2> SUFFICES ASSUME Head(t) = "commit", Occurs(t, "projection") PROVE ~ProjectsFirst(q)
    OBVIOUS
  <2>1. PICK i \in 1..Len(t) : t[i] = "projection"
    BY DEF Occurs
  <2>2. n + i - 1 \in 1..Len(q) /\ ~(n + i - 1 < n) /\ q[n + i - 1] = "projection"
    BY <1>1, <2>1
  <2>3. QED
    BY <1>1, <2>2 DEF ProjectsFirst
<1>6. Head(t) = "projection" => Occurs(q, "projection")
  BY <1>1 DEF Occurs
<1>7. QED
  BY <1>2, <1>4, <1>5, <1>6 DEF t

\* What is not the next query is still ahead after it.
LEMMA StillOccurs ==
  ASSUME NEW q, ScriptOK(q), NEW x, Occurs(q, x), Head(q) # x
  PROVE  Occurs(Tail(q), x)
<1> DEFINE r == Tail(q)
<1>1. /\ q \in Seq(Queries) /\ q # <<>> /\ Len(r) = Len(q) - 1 /\ Len(q) \in Nat
      /\ \A i \in 1..Len(r) : r[i] = q[i + 1]
  BY HeadTailProperties, LenProperties DEF ScriptOK
<1>2. PICK i \in 1..Len(q) : q[i] = x
  BY DEF Occurs
<1>3. Head(q) = q[1]
  BY <1>1
<1> HIDE DEF r
<1>4. i # 1
  BY <1>2, <1>3
<1>5. i - 1 \in 1..Len(r) /\ (i - 1) + 1 = i
  BY <1>1, <1>4
<1>6. r[i - 1] = x
  BY <1>1, <1>2, <1>5
<1>7. QED
  BY <1>5, <1>6 DEF Occurs, r

LEMMA NoSessionKnows == KnowsOK(NoSession) /\ NoSession.kind = "none"
BY DEF NoSession, KnowsOK

\* s goes on after a query with what it may know.
LEMMA KnowsGoes ==
  ASSUME Inv, KnowInv, NEW s \in Sessions, NEW x, At(s, x),
         NEW w, Goes(s, w), DOMAIN w = Fields, w.kind = work[s].kind, w.h = work[s].h,
         w.now \subseteq Bookings, w.accs \subseteq Accounts, w.hides \subseteq Accounts,
         w.makes => w.cfg \in Configs, w.shown # None => w.shown.cfg \in Configs,
         w.cfg \in Configs \/ (w.cfg = work[s].cfg /\ x # "config")
  PROVE  KnowInv'
<1> DEFINE q == work[s].todo
           v == [w EXCEPT !.todo = Tail(q)]
<1>1. /\ DOMAIN work = Sessions /\ KnowsOK(work[s]) /\ Head(q) = x /\ ScriptOK(q)
  BY DEF Inv, RowsInv, SessionOK, KnowInv, At, InFlight
<1>2. v.todo = Tail(q) /\ \A f \in Fields \ {"todo"} : v[f] = w[f]
  BY DEF Fields
<1>3. work' = [work EXCEPT ![s] = v]
  BY DEF Goes
<1> HIDE DEF v
<1>4. work'[s] = v /\ \A t \in Sessions \ {s} : work'[t] = work[t]
  BY <1>1, <1>3
<1>5. /\ v.kind = work[s].kind /\ v.h = work[s].h /\ v.now = w.now /\ v.accs = w.accs
      /\ v.hides = w.hides /\ v.makes = w.makes /\ v.cfg = w.cfg /\ v.shown = w.shown
  BY <1>2 DEF Fields
<1>6. Occurs(q, "config") /\ x # "config" => Occurs(Tail(q), "config")
  BY <1>1, StillOccurs
<1>7. v.kind \in {"digest", "projection", "update"} =>
        Occurs(v.todo, "config") \/ v.cfg \in Configs
  BY <1>1, <1>2, <1>5, <1>6 DEF KnowsOK
<1>8. KnowsOK(v)
  BY <1>1, <1>5, <1>7 DEF KnowsOK
<1>9. ASSUME NEW p \in Workers, work'[p].kind # "none" PROVE work'[p].h \in Messages
  <2>1. p \in Sessions
    BY DEF Sessions
  <2>2. work'[p].kind = work[p].kind /\ work'[p].h = work[p].h
    BY <1>4, <1>5, <2>1
  <2>3. QED
    BY <1>9, <2>2 DEF KnowInv
<1>10. \A t \in Sessions : KnowsOK(work'[t])
  BY <1>4, <1>8 DEF KnowInv
<1>11. QED
  BY <1>9, <1>10 DEF KnowInv

LEMMA KnowsAssign ==
  ASSUME Inv, KnowInv, NEW s \in Sessions, NEW x, At(s, x),
         NEW f \in {"accs", "now", "agg", "kpi", "sheet", "hides", "balance", "open",
                    "seeds", "sent", "left", "cfg"},
         NEW e, Goes(s, [work[s] EXCEPT ![f] = e]),
         f = "now" => e \subseteq Bookings, f \in {"accs", "hides"} => e \subseteq Accounts,
         IF f = "cfg" THEN e \in Configs ELSE x # "config"
  PROVE  KnowInv'
<1> DEFINE w == [work[s] EXCEPT ![f] = e]
<1>1. DOMAIN work[s] = Fields /\ KnowsOK(work[s])
  BY DEF Inv, RowsInv, SessionOK, KnowInv
<1>2. DOMAIN w = Fields /\ w[f] = e /\ \A g \in Fields \ {f} : w[g] = work[s][g]
  BY <1>1 DEF Fields
<1>3. Goes(s, w)
  OBVIOUS
<1> HIDE DEF w
<1>4. /\ w.kind = work[s].kind /\ w.h = work[s].h /\ w.makes = work[s].makes
      /\ w.shown = work[s].shown
  BY <1>2 DEF Fields
<1>5. w.now \subseteq Bookings /\ w.accs \subseteq Accounts /\ w.hides \subseteq Accounts
  <2>1. w.now = IF f = "now" THEN e ELSE work[s].now
    BY <1>2 DEF Fields
  <2>2. w.accs = IF f = "accs" THEN e ELSE work[s].accs
    BY <1>2 DEF Fields
  <2>3. w.hides = IF f = "hides" THEN e ELSE work[s].hides
    BY <1>2 DEF Fields
  <2>4. QED
    BY <1>1, <2>1, <2>2, <2>3 DEF KnowsOK
<1>6. w.cfg = IF f = "cfg" THEN e ELSE work[s].cfg
  BY <1>2 DEF Fields
<1>7. (w.makes => w.cfg \in Configs) /\ (w.shown # None => w.shown.cfg \in Configs)
      /\ (w.cfg \in Configs \/ (w.cfg = work[s].cfg /\ x # "config"))
  BY <1>1, <1>4, <1>6 DEF KnowsOK
<1>8. QED
  BY <1>2, <1>3, <1>4, <1>5, <1>7, KnowsGoes

LEMMA KnowsSame ==
  ASSUME Inv, KnowInv, NEW s \in Sessions, NEW x, At(s, x), x # "config", Goes(s, work[s])
  PROVE  KnowInv'
<1>1. DOMAIN work[s] = Fields /\ KnowsOK(work[s])
  BY DEF Inv, RowsInv, SessionOK, KnowInv
<1>2. QED
  BY <1>1, KnowsGoes DEF KnowsOK

\* A session is over or disturbed, which takes nothing from what it knows.
LEMMA KnowsEnds ==
  ASSUME Inv, KnowInv,
         \A t \in Sessions : \/ work'[t] = NoSession \/ work'[t] = work[t]
                             \/ work'[t] = Disturbed(t, work[t])
  PROVE  KnowInv'
<1>1. ASSUME NEW t \in Sessions
      PROVE  /\ KnowsOK(work'[t])
             /\ work'[t].kind # "none" => work'[t].kind = work[t].kind /\ work'[t].h = work[t].h
  <2>1. CASE work'[t] = NoSession
    BY <2>1, NoSessionKnows
  <2>2. CASE work'[t] = work[t]
    BY <2>2 DEF KnowInv
  <2>3. CASE work'[t] = Disturbed(t, work[t])
    <3> DEFINE v == [work[t] EXCEPT !.calm = FALSE]
    <3>1. DOMAIN work[t] = Fields /\ KnowsOK(work[t])
      BY DEF Inv, RowsInv, SessionOK, KnowInv
    <3>2. /\ v.kind = work[t].kind /\ v.h = work[t].h /\ v.now = work[t].now
          /\ v.accs = work[t].accs /\ v.hides = work[t].hides /\ v.makes = work[t].makes
          /\ v.cfg = work[t].cfg /\ v.shown = work[t].shown /\ v.todo = work[t].todo
      BY <3>1 DEF Fields
    <3>3. work'[t] = IF work[t].kind = "none" THEN work[t] ELSE v
      BY <2>3 DEF Disturbed
    <3> HIDE DEF v
    <3>4. KnowsOK(v)
      BY <3>1, <3>2 DEF KnowsOK
    <3>5. QED
      BY <3>1, <3>2, <3>3, <3>4
  <2>4. QED
    BY <2>1, <2>2, <2>3
<1>2. Workers \subseteq Sessions
  BY DEF Sessions
<1>3. QED
  BY <1>1, <1>2 DEF KnowInv

LEMMA KnowsBegun ==
  ASSUME Inv, KnowInv, NEW p \in Sessions, NEW h \in Messages \cup {None},
         p \in Workers => h \in Messages,
         NEW k \in {"digest", "kpis", "sheet", "projection", "update", "start", "all"},
         work' = [work EXCEPT ![p] = Begun(k, h)]
  PROVE  KnowInv'
<1> DEFINE v == Begun(k, h)
<1>1. /\ v.kind = k /\ v.todo = Script[k] /\ v.h = h /\ v.now = {} /\ v.accs = {}
      /\ v.hides = {} /\ v.makes = FALSE /\ v.shown = None
  BY DEF Begun, NoSession
<1>2. work'[p] = v /\ \A t \in Sessions \ {p} : work'[t] = work[t]
  BY DEF Inv, RowsInv, v
<1> HIDE DEF v
<1>3. KnowsOK(v)
  BY <1>1, ConfigScripts DEF KnowsOK
<1>4. Workers \subseteq Sessions
  BY DEF Sessions
<1>5. QED
  BY <1>1, <1>2, <1>3, <1>4 DEF KnowInv

\* What a query returns is of the committed rows.
LEMMA KnowsQueries ==
  ASSUME Inv, DataInv, KnowInv, NEW s \in Sessions,
         \/ SelectAccounts(s) \/ SelectPeriod(s) \/ SelectSheetAccounts(s)
         \/ SelectSheet(s) \/ SelectBalances(s) \/ CountUncategorized(s)
         \/ Seed(s) \/ UpdateConfig(s) \/ HideAccounts(s) \/ Send(s) \/ SelectUsers(s)
  PROVE  KnowInv'
<1>0. booked \subseteq Bookings /\ shared \subseteq Accounts
  BY DEF DataInv
<1>1. CASE SelectAccounts(s) \/ SelectSheetAccounts(s)
  <2> DEFINE e == {a \in shared : Owner[a] = work[s].h}
  <2>1. /\ Goes(s, [work[s] EXCEPT !.accs = e]) /\ e \subseteq Accounts
        /\ \E x \in {"accounts", "holdings"} : At(s, x)
    BY <1>0, <1>1 DEF SelectAccounts, SelectSheetAccounts
  <2> HIDE DEF e
  <2>2. QED
    BY <2>1, KnowsAssign
<1>2. CASE SelectPeriod(s)
  <2> DEFINE e == Counted(work[s].accs, InPeriod)
  <2>1. Goes(s, [work[s] EXCEPT !.now = e]) /\ At(s, "period") /\ e \subseteq Bookings
    BY <1>0, <1>2 DEF SelectPeriod, Counted
  <2> HIDE DEF e
  <2>2. QED
    BY <2>1, KnowsAssign
<1>3. CASE SelectSheet(s)
  BY <1>3, KnowsAssign DEF SelectSheet
<1>4. CASE SelectBalances(s)
  BY <1>4, KnowsAssign DEF SelectBalances
<1>5. CASE CountUncategorized(s)
  BY <1>5, KnowsAssign DEF CountUncategorized
<1>6. CASE Seed(s)
  BY <1>6, KnowsAssign DEF Seed
<1>7. CASE UpdateConfig(s)
  BY <1>7, KnowsAssign DEF UpdateConfig
<1>8. CASE HideAccounts(s)
  <2>1. CASE Goes(s, work[s])
    BY <1>8, <2>1, KnowsSame DEF HideAccounts
  <2>2. CASE \E e \in SUBSET Accounts : Goes(s, [work[s] EXCEPT !.hides = e])
    BY <1>8, <2>2, KnowsAssign DEF HideAccounts
  <2>3. QED
    BY <1>8, <2>1, <2>2 DEF HideAccounts
<1>9. CASE Send(s)
  BY <1>9, KnowsSame, KnowsAssign DEF Send
<1>10. CASE SelectUsers(s)
  BY <1>10, KnowsAssign DEF SelectUsers
<1>11. QED
  BY <1>1, <1>2, <1>3, <1>4, <1>5, <1>6, <1>7, <1>8, <1>9, <1>10

LEMMA KnowsPrevious ==
  ASSUME Inv, KnowInv, NEW s \in Sessions, SelectPrevious(s)
  PROVE  KnowInv'
<1> DEFINE e == Aggregates(work[s].now, Counted(work[s].accs, Before))
           w == [work[s] EXCEPT !.agg = e, !.now = {}]
<1>1. Goes(s, w) /\ At(s, "previous") /\ DOMAIN work[s] = Fields /\ KnowsOK(work[s])
  BY DEF SelectPrevious, Inv, RowsInv, SessionOK, KnowInv
<1> HIDE DEF e
<1>2. /\ DOMAIN w = Fields /\ w.kind = work[s].kind /\ w.h = work[s].h /\ w.now = {}
      /\ w.accs = work[s].accs /\ w.hides = work[s].hides /\ w.makes = work[s].makes
      /\ w.cfg = work[s].cfg /\ w.shown = work[s].shown
  BY <1>1 DEF Fields
<1> HIDE DEF w
<1>3. QED
  BY <1>1, <1>2, KnowsGoes DEF KnowsOK

LEMMA KnowsSnapshots ==
  ASSUME Inv, KnowInv, NEW s \in Sessions, SaveSnapshots(s), ~Raise(s)
  PROVE  KnowInv'
<1> DEFINE e == [k \in DOMAIN Builtin |-> Compute(Builtin[k], work[s].agg)]
           w == [work[s] EXCEPT !.holds = TRUE, !.kpi = e]
<1>1. Goes(s, w) /\ At(s, "snapshots") /\ DOMAIN work[s] = Fields /\ KnowsOK(work[s])
  BY DEF SaveSnapshots, Inv, RowsInv, SessionOK, KnowInv
<1> HIDE DEF e
<1>2. /\ DOMAIN w = Fields /\ w.kind = work[s].kind /\ w.h = work[s].h
      /\ w.now = work[s].now /\ w.shown = work[s].shown
      /\ w.accs = work[s].accs /\ w.hides = work[s].hides /\ w.makes = work[s].makes
      /\ w.cfg = work[s].cfg
  BY <1>1 DEF Fields
<1> HIDE DEF w
<1>3. QED
  BY <1>1, <1>2, KnowsGoes DEF KnowsOK

LEMMA KnowsProjection ==
  ASSUME Inv, KnowInv, PlaceInv, NEW s \in Sessions, SaveProjection(s), ~Raise(s)
  PROVE  KnowInv'
<1> DEFINE c == work[s].cfg
           e == Project(work[s].balance, work[s].agg, c)
           w == [work[s] EXCEPT !.holds = TRUE, !.shown = e]
<1>1. /\ Goes(s, w) /\ At(s, "projection") /\ DOMAIN work[s] = Fields /\ KnowsOK(work[s])
      /\ Head(work[s].todo) = "projection" /\ work[s].kind # "none"
      /\ work[s].todo # <<>> /\ PlaceOK(work[s])
  BY DEF SaveProjection, Inv, RowsInv, SessionOK, ScriptOK, KnowInv, PlaceInv, At, InFlight
<1>2. c \in Configs
  BY <1>1, ConfigLoaded DEF KnowsOK
<1> HIDE DEF c
<1>3. e.cfg = c
  BY DEF Project
<1> HIDE DEF e
<1>4. /\ DOMAIN w = Fields /\ w.kind = work[s].kind /\ w.h = work[s].h
      /\ w.now = work[s].now /\ w.shown = e
      /\ w.accs = work[s].accs /\ w.hides = work[s].hides /\ w.makes = work[s].makes
      /\ w.cfg = work[s].cfg
  BY <1>1 DEF Fields
<1> HIDE DEF w
<1>5. QED
  BY <1>1, <1>2, <1>3, <1>4, KnowsGoes DEF KnowsOK

LEMMA KnowsConfig ==
  ASSUME Inv, DataInv, KnowInv, NEW s \in Sessions, LoadConfig(s), ~Raise(s)
  PROVE  KnowInv'
<1> DEFINE h == work[s].h
           w == [work[s] EXCEPT !.cfg = Default, !.makes = TRUE, !.holds = TRUE]
<1>1. /\ At(s, "config") /\ DOMAIN work[s] = Fields /\ KnowsOK(work[s])
      /\ h \in Households
  BY HeadOccurs DEF LoadConfig, Inv, RowsInv, SessionOK, KnowInv, At, InFlight
<1>2. CASE Len(configs[h]) = 1 /\ Goes(s, [work[s] EXCEPT !.cfg = configs[h][1]])
  <2>1. configs[h] \in Seq(Configs)
    BY <1>1 DEF DataInv
  <2>2. configs[h][1] \in Configs
    BY <1>2, <2>1, ElementOfSeq
  <2>3. QED
    BY <1>1, <1>2, <2>2, KnowsAssign
<1>3. CASE Goes(s, w)
  <2>1. /\ DOMAIN w = Fields /\ w.kind = work[s].kind /\ w.h = work[s].h
        /\ w.now = work[s].now /\ w.shown = work[s].shown
        /\ w.accs = work[s].accs /\ w.hides = work[s].hides /\ w.cfg = Default
    BY <1>1 DEF Fields
  <2> HIDE DEF w
  <2>2. Default \in Configs
    BY DataAssumption
  <2>3. QED
    BY <1>1, <1>3, <2>1, <2>2, KnowsGoes DEF KnowsOK
<1>4. QED
  BY <1>2, <1>3 DEF LoadConfig

LEMMA KnowsDelay ==
  ASSUME Inv, KnowInv, NEW s \in Sessions, Delay(s)
  PROVE  KnowInv'
<1>0. DOMAIN work[s] = Fields /\ DOMAIN work = Sessions /\ KnowsOK(work[s])
  BY DEF Inv, RowsInv, SessionOK, KnowInv
<1>1. CASE work' = [work EXCEPT ![s] = NoSession]
  BY <1>0, <1>1, KnowsEnds
<1>2. CASE \E e : work' = [work EXCEPT ![s] = [work[s] EXCEPT !.left = e]]
  <2>1. PICK e : work' = [work EXCEPT ![s] = [work[s] EXCEPT !.left = e]]
    BY <1>2
  <2> DEFINE v == [work[s] EXCEPT !.left = e]
  <2>2. /\ v.kind = work[s].kind /\ v.h = work[s].h /\ v.now = work[s].now
        /\ v.accs = work[s].accs /\ v.hides = work[s].hides /\ v.makes = work[s].makes
        /\ v.cfg = work[s].cfg /\ v.shown = work[s].shown /\ v.todo = work[s].todo
    BY <1>0 DEF Fields
  <2>3. work'[s] = v /\ \A t \in Sessions \ {s} : work'[t] = work[t]
    BY <1>0, <2>1
  <2> HIDE DEF v
  <2>4. KnowsOK(v)
    BY <1>0, <2>2 DEF KnowsOK
  <2>5. \A t \in Sessions : KnowsOK(work'[t])
    BY <2>3, <2>4 DEF KnowInv
  <2>6. ASSUME NEW p \in Workers, work'[p].kind # "none" PROVE work'[p].h \in Messages
    <3>1. p \in Sessions
      BY DEF Sessions
    <3>2. work'[p].kind = work[p].kind /\ work'[p].h = work[p].h
      BY <2>2, <2>3, <3>1
    <3>3. QED
      BY <2>6, <3>2 DEF KnowInv
  <2>7. QED
    BY <2>5, <2>6 DEF KnowInv
<1>3. QED
  BY <1>1, <1>2 DEF Delay, Leaves

LEMMA NextKnows == Inv /\ DataInv /\ KnowInv /\ PlaceInv /\ [Next]_vars => KnowInv'
<1> SUFFICES ASSUME Inv, DataInv, KnowInv, PlaceInv, [Next]_vars PROVE KnowInv'
  OBVIOUS
<1>0. DOMAIN work = Sessions /\ Workers \subseteq Sessions /\ Requests \subseteq Sessions
  BY DEF Inv, RowsInv, Sessions
<1>1. ASSUME NEW s \in Sessions, Step(s) PROVE KnowInv'
  <2>1. CASE Raise(s)
    <3>1. \A t \in Sessions : work'[t] = NoSession \/ work'[t] = work[t]
      BY <1>0, <2>1 DEF Raise, Leaves
    <3>2. QED
      BY <3>1, KnowsEnds
  <2>2. CASE Commit(s)
    <3>1. \A t \in Sessions : \/ work'[t] = NoSession \/ work'[t] = work[t]
                              \/ work'[t] = Disturbed(t, work[t])
      BY <2>2 DEF Commit
    <3>2. QED
      BY <3>1, KnowsEnds
  <2>3. CASE ~Raise(s) /\ ~Commit(s)
    BY <1>1, <2>3, KnowsQueries, KnowsPrevious, KnowsSnapshots, KnowsProjection, KnowsConfig,
       KnowsDelay DEF Step
  <2>4. QED
    BY <2>1, <2>2, <2>3
<1>2. ASSUME NEW p \in Workers, NEW m \in Messages, Take(p, m) PROVE KnowInv'
  <2>1. CASE UNCHANGED work
    BY <2>1, KnowsEnds
  <2>2. CASE \E k \in {"digest", "all"} : work' = [work EXCEPT ![p] = Begun(k, m)]
    BY <1>0, <2>2, KnowsBegun
  <2>3. QED
    BY <1>2, <2>1, <2>2 DEF Take
<1>3. ASSUME NEW r \in Requests, Begin(r) PROVE KnowInv'
  <2>1. PICK a \in Asked : work' = [work EXCEPT ![r] = Begun(a[1], a[2])]
    BY <1>3 DEF Begin
  <2>2. /\ a[1] \in {"kpis", "sheet", "projection", "update", "start"}
        /\ a[2] \in Messages \cup {None}
    BY DataAssumption DEF Messages
  <2>3. r \in Sessions /\ r \notin Workers
    BY <1>0, DataAssumption
  <2>4. QED
    BY <2>1, <2>2, <2>3, KnowsBegun
<1>4. CASE (\E p \in Workers : Kill(p)) \/ Deploy \/ UNCHANGED vars
  <2>1. \A t \in Sessions : work'[t] = NoSession \/ work'[t] = work[t]
    BY <1>0, <1>4 DEF Kill, Deploy, vars
  <2>2. QED
    BY <2>1, KnowsEnds
<1>5. CASE Edit \/ \E h \in Households : Delete(h)
  <2>1. \A t \in Sessions : work'[t] = Disturbed(t, work[t])
    BY <1>5 DEF Edit, Delete
  <2>2. QED
    BY <2>1, KnowsEnds
<1>6. QED
  BY <1>0, <1>1, <1>2, <1>3, <1>4, <1>5 DEF Next, Works

\* What a commit leaves of the configs.
LEMMA ConfigsCommitted ==
  ASSUME Inv, DataInv, KnowInv, PlaceInv, NEW s \in Sessions, Commit(s)
  PROVE  \A h \in Households : configs'[h] \in Seq(Configs)
<1> DEFINE w == work[s]
           g == w.h
<1>1. /\ configs' = IF w.makes THEN [configs EXCEPT ![g] = Append(@, w.cfg)]
                    ELSE IF w.kind = "update" /\ g \in alive
                         THEN [configs EXCEPT ![g] = [configs[g] EXCEPT ![1] = w.cfg]]
                    ELSE configs
      /\ Head(w.todo) = "commit" /\ w.todo # <<>> /\ PlaceOK(w) /\ KnowsOK(w)
  BY DEF Commit, At, InFlight, PlaceInv, KnowInv, Inv, RowsInv, SessionOK, ScriptOK
<1>2. /\ w.makes => w.cfg \in Configs
      /\ w.kind = "update" => w.cfg \in Configs
  BY <1>1, ConfigLoaded DEF KnowsOK
<1> HIDE DEF w, g
<1>3. DOMAIN configs = Households /\ \A h \in Households : configs[h] \in Seq(Configs)
  BY DEF Inv, RowsInv, DataInv
<1> SUFFICES ASSUME NEW h \in Households PROVE configs'[h] \in Seq(Configs)
  OBVIOUS
<1> DEFINE q == configs[h]
<1>4. q \in Seq(Configs)
  BY <1>3
<1>5. \/ configs'[h] = q
      \/ configs'[h] = Append(q, w.cfg) /\ w.cfg \in Configs
      \/ configs'[h] = [q EXCEPT ![1] = w.cfg] /\ w.cfg \in Configs
  BY <1>1, <1>2, <1>3
<1> HIDE DEF q
<1>6. CASE configs'[h] = Append(q, w.cfg) /\ w.cfg \in Configs
  BY <1>4, <1>6, AppendProperties
<1>7. CASE configs'[h] = [q EXCEPT ![1] = w.cfg] /\ w.cfg \in Configs
  <2>1. CASE 1 \in 1..Len(q)
    <3>1. [q EXCEPT ![1] = w.cfg] \in Seq(Configs)
      BY <1>4, <1>7, <2>1, ExceptSeq
    <3>2. QED
      BY <1>7, <3>1
  <2>2. CASE 1 \notin 1..Len(q)
    <3>1. q = <<>>
      BY <1>4, <2>2, EmptySeq, LenProperties
    <3>2. [q EXCEPT ![1] = w.cfg] = q
      BY <3>1
    <3>3. QED
      BY <1>4, <1>7, <3>2
  <2>3. QED
    BY <2>1, <2>2
<1>8. QED
  BY <1>4, <1>5, <1>6, <1>7

LEMMA MissedWho == \A m \in Messages : Missed(m) \subseteq Households
BY DataAssumption DEF Missed, Messages

LEMMA LeavesData ==
  ASSUME DataInv, NEW s \in Sessions, Leaves(s)
  PROVE  pool' \in [Workers -> {"empty", "foreign"}]
BY DEF DataInv, Leaves

LEMMA StepData ==
  ASSUME Inv, DataInv, KnowInv, PlaceInv, NEW s \in Sessions, Step(s)
  PROVE  DataInv'
<1>0. work[s].kind # "none"
  BY DEF Step, SelectAccounts, SelectPeriod, SelectPrevious, SaveSnapshots,
     SelectSheetAccounts, SelectSheet, LoadConfig, UpdateConfig, SelectBalances,
     SaveProjection, CountUncategorized, Send, HideAccounts, Commit, Seed, SelectUsers,
     Delay, Raise, At, InFlight
<1>1. CASE Raise(s)
  <2>1. /\ UNCHANGED <<data, rows, events, raced, redelivered>>
        /\ pool' \in [Workers -> {"empty", "foreign"}]
    BY <1>1, LeavesData DEF Raise
  <2>2. CASE UNCHANGED lost
    BY <2>1, <2>2 DEF DataInv, data, rows
  <2>3. CASE s \in Workers /\ lost' = lost \cup Missed(work[s].h)
    <3>1. work[s].h \in Messages
      BY <1>0, <2>3 DEF KnowInv
    <3>2. lost' \subseteq Households
      BY <2>3, <3>1, MissedWho DEF DataInv
    <3>3. QED
      BY <2>1, <3>2 DEF DataInv, data, rows
  <2>4. QED
    BY <1>1, <2>2, <2>3 DEF Raise
<1>2. CASE Commit(s)
  <2>1. \A h \in Households : configs'[h] \in Seq(Configs)
    BY <1>2, ConfigsCommitted
  <2>2. /\ UNCHANGED <<alive, booked, category, excluded, history>>
        /\ shared' = shared \ work[s].hides
    BY <1>2 DEF Commit
  <2>3. pool' \in [Workers -> {"empty", "foreign"}]
    BY <1>2 DEF Commit, DataInv
  <2>4. QED
    BY <2>1, <2>2, <2>3 DEF DataInv, history
<1>3. CASE Delay(s)
  <2>1. UNCHANGED <<data, rows, history>>
    BY <1>3 DEF Delay
  <2>2. pool' \in [Workers -> {"empty", "foreign"}]
    BY <1>3, LeavesData DEF Delay, DataInv
  <2>3. QED
    BY <2>1, <2>2 DEF DataInv, data, rows, history
<1>4. CASE LoadConfig(s) /\ ~Raise(s)
  <2>1. /\ UNCHANGED <<data, rows, celery, events, redelivered, lost>>
        /\ raced' \in {raced, raced \cup {work[s].h}}
    BY <1>4 DEF LoadConfig, history
  <2>2. work[s].h \in Households
    BY <1>4, HeadOccurs DEF LoadConfig, Inv, RowsInv, SessionOK, At, InFlight
  <2>3. raced' \subseteq Households \cup {"kpis"}
    BY <2>1, <2>2 DEF DataInv
  <2>4. QED
    BY <2>1, <2>3 DEF DataInv, data, rows, celery
<1>5. CASE Seed(s)
  <2>1. /\ UNCHANGED <<data, rows, celery, events, redelivered, lost>>
        /\ raced' \in {raced, raced \cup {"kpis"}}
    BY <1>5 DEF Seed
  <2>2. raced' \subseteq Households \cup {"kpis"}
    BY <2>1 DEF DataInv
  <2>3. QED
    BY <2>1, <2>2 DEF DataInv, data, rows, celery
<1>6. CASE ~Raise(s) /\ ~Commit(s) /\ ~Delay(s) /\ ~LoadConfig(s) /\ ~Seed(s)
  <2>1. UNCHANGED <<data, rows, celery, history>>
    BY <1>6 DEF Step, SelectAccounts, SelectPeriod, SelectPrevious, SaveSnapshots,
       SelectSheetAccounts, SelectSheet, UpdateConfig, SelectBalances, SaveProjection,
       CountUncategorized, Send, HideAccounts, SelectUsers
  <2>2. QED
    BY <2>1 DEF DataInv, data, rows, celery, history
<1>7. QED
  BY <1>1, <1>2, <1>3, <1>4, <1>5, <1>6

LEMMA NextData == Inv /\ DataInv /\ KnowInv /\ PlaceInv /\ [Next]_vars => DataInv'
<1> SUFFICES ASSUME Inv, DataInv, KnowInv, PlaceInv, [Next]_vars PROVE DataInv'
  OBVIOUS
<1>0. Workers \subseteq Sessions /\ Requests \subseteq Sessions
  BY DEF Sessions
<1>a. Happens => events' \in 0..MaxEvents
  BY DataAssumption DEF Happens, DataInv
<1>1. ASSUME NEW s \in Sessions, Step(s) PROVE DataInv'
  BY <1>1, StepData
<1>2. ASSUME NEW p \in Workers, NEW m \in Messages, Take(p, m) PROVE DataInv'
  <2>1. /\ UNCHANGED <<data, rows, events, raced, redelivered>>
        /\ pool' \in [Workers -> {"empty", "foreign"}]
        /\ lost' \in {lost, lost \cup Missed(m)}
    BY <1>2 DEF Take, DataInv
  <2>2. lost' \subseteq Households
    BY <1>2, <2>1, MissedWho DEF DataInv
  <2>3. QED
    BY <2>1, <2>2 DEF DataInv, data, rows
<1>3. ASSUME NEW r \in Requests, Begin(r) PROVE DataInv'
  BY <1>3 DEF Begin, DataInv, data, rows, celery, history
<1>4. ASSUME NEW p \in Workers, Kill(p) PROVE DataInv'
  <2>1. work[p].h \in Messages
    BY <1>4 DEF Kill, InFlight, KnowInv
  <2>2. lost' \subseteq Households
    BY <1>4, <2>1, MissedWho DEF Kill, DataInv
  <2>3. pool' \in [Workers -> {"empty", "foreign"}] /\ events' \in 0..MaxEvents
    BY <1>4, <1>a DEF Kill, DataInv
  <2>4. UNCHANGED <<data, rows, raced, redelivered>>
    BY <1>4 DEF Kill
  <2>5. QED
    BY <2>2, <2>3, <2>4 DEF DataInv, data, rows
<1>5. CASE Deploy
  <2>1. redelivered' \subseteq Messages
    <3>1. \A p \in Workers : InFlight(p) => work[p].h \in Messages
      BY DEF InFlight, KnowInv
    <3>2. QED
      BY <1>5, <3>1 DEF Deploy, DataInv
  <2>2. pool' \in [Workers -> {"empty", "foreign"}] /\ events' \in 0..MaxEvents
    BY <1>5, <1>a DEF Deploy
  <2>3. UNCHANGED <<data, rows, raced, lost>>
    BY <1>5 DEF Deploy
  <2>4. QED
    BY <2>1, <2>2, <2>3 DEF DataInv, data, rows
<1>6. CASE Edit
  <2>1. events' \in 0..MaxEvents /\ UNCHANGED <<alive, rows, celery, raced, redelivered, lost>>
    BY <1>6, <1>a DEF Edit
  <2>2. /\ booked' \subseteq Bookings /\ excluded' \subseteq Bookings
        /\ category' \in [Bookings -> Categories \cup {Transfer, DepotTransfer, Uncategorized}]
        /\ shared' \subseteq Accounts
    <3>1. CASE \E b \in Late \ booked :
                 booked' = booked \cup {b} /\ UNCHANGED <<category, excluded, shared>>
      BY <3>1, DataAssumption DEF DataInv
    <3>2. CASE \E b \in booked \cap Touched, c \in Categories \cup {Transfer, DepotTransfer} :
                 category' = [category EXCEPT ![b] = c] /\ UNCHANGED <<booked, excluded, shared>>
      BY <3>2 DEF DataInv
    <3>3. CASE \E b \in booked \cap Touched : excluded' = excluded \cup {b}
                 /\ UNCHANGED <<booked, category, shared>>
      BY <3>3 DEF DataInv
    <3>4. CASE \E a \in shared : shared' = shared \ {a} /\ UNCHANGED <<booked, category, excluded>>
      BY <3>4 DEF DataInv
    <3>5. QED
      BY <1>6, <3>1, <3>2, <3>3, <3>4 DEF Edit
  <2>3. QED
    BY <2>1, <2>2 DEF DataInv, rows, celery
<1>7. ASSUME NEW h \in Households, Delete(h) PROVE DataInv'
  <2>1. /\ events' \in 0..MaxEvents /\ UNCHANGED <<category, excluded, celery, raced,
                                                    redelivered, lost>>
    BY <1>7, <1>a DEF Delete
  <2>2. alive' \subseteq Households /\ booked' \subseteq Bookings /\ shared' \subseteq Accounts
    BY <1>7 DEF Delete, DataInv
  <2>3. \A g \in Households : configs'[g] \in Seq(Configs)
    <3>1. DOMAIN configs = Households /\ \A g \in Households : configs[g] \in Seq(Configs)
      BY DEF Inv, RowsInv, DataInv
    <3>2. \A g \in Households : configs'[g] = configs[g] \/ configs'[g] = <<>>
      BY <1>7, <3>1 DEF Delete
    <3>3. <<>> \in Seq(Configs)
      BY EmptySeq
    <3>4. QED
      BY <3>1, <3>2, <3>3
  <2>4. QED
    BY <2>1, <2>2, <2>3 DEF DataInv, celery
<1>8. CASE UNCHANGED vars
  BY <1>8 DEF vars, DataInv, data, rows, celery, history
<1>9. QED
  BY <1>0, <1>1, <1>2, <1>3, <1>4, <1>5, <1>6, <1>7, <1>8 DEF Next, Works

LEMMA InitKnows == Init => DataInv /\ KnowInv
<1> SUFFICES ASSUME Init PROVE DataInv /\ KnowInv
  OBVIOUS
<1>1. \A h \in Households : configs[h] \in Seq(Configs)
  BY EmptySeq DEF Init
<1>2. DataInv
  BY <1>1, DataAssumption DEF Init, DataInv
<1>3. KnowInv
  BY NoSessionKnows DEF Init, KnowInv, Sessions
<1>4. QED
  BY <1>2, <1>3

LEMMA KnowType == Inv /\ DataInv /\ KnowInv /\ PlaceInv => TypeOK
<1> SUFFICES ASSUME Inv, DataInv, KnowInv, PlaceInv PROVE TypeOK
  OBVIOUS
<1>1. ASSUME NEW s \in Sessions
      PROVE  LET w == work[s]
             IN  /\ DOMAIN w = DOMAIN NoSession
                 /\ \E n \in 0..Len(Script[w.kind]) :
                      w.todo = SubSeq(Script[w.kind], n + 1, Len(Script[w.kind]))
                 /\ w.kind # "none" => w.todo # <<>> /\ w.h \in Messages \cup {None}
                 /\ w.now \subseteq Bookings /\ w.accs \cup w.hides \subseteq Accounts
                 /\ w.makes => w.cfg \in Configs /\ w.holds
                 /\ w.shown # None => w.shown.cfg \in Configs
  <2>1. SessionOK(work[s]) /\ KnowsOK(work[s]) /\ PlaceOK(work[s])
    BY DEF Inv, RowsInv, KnowInv, PlaceInv
  <2>2. DOMAIN work[s] = DOMAIN NoSession
    BY <2>1, FieldsOfNoSession DEF SessionOK
  <2>3. QED
    BY <2>1, <2>2 DEF SessionOK, ScriptOK, KnowsOK, PlaceOK
<1>2. QED
  BY <1>1 DEF TypeOK, Inv, RowsInv, DataInv

\* Rows, messages and sessions keep their types for every number of them; in particular
\* a projection and a stored setting always have a config that was there, whatever was
\* deleted meanwhile (get_or_create_user_projection_config, update_projection_config).
THEOREM TypesStay == Spec => []TypeOK
<1>1. Init => Inv /\ DueInv /\ CalmInv /\ DataInv /\ KnowInv
  BY InitInv, InitDue, InitCalm, InitKnows
<1>2. Inv /\ DueInv /\ CalmInv /\ DataInv /\ KnowInv /\ [Next]_vars
      => (Inv /\ DueInv /\ CalmInv /\ DataInv /\ KnowInv)'
  BY NextInv, NextDue, NextCalm, NextData, NextKnows DEF CalmInv
<1>3. Inv /\ CalmInv /\ DataInv /\ KnowInv => TypeOK
  BY KnowType DEF CalmInv
<1>4. QED
  BY <1>1, <1>2, <1>3, PTL DEF Spec

-----------------------------------------------------------------------------
(* Powers *)

\* g has the powers of x up to the n-th.
PowersUpTo(g, x, n) ==
  g = [k \in 0..n |-> IF k = 0 THEN 1 ELSE x * g[k - 1]]

LEMMA PowersMean ==
  ASSUME NEW x, NEW n
  PROVE  Power(x, n) = (CHOOSE g : PowersUpTo(g, x, n))[n]
BY DEF Power, PowersUpTo

LEMMA PowersExist ==
  ASSUME NEW x \in Int, NEW n \in Nat
  PROVE  \E g \in [0..n -> Int] : PowersUpTo(g, x, n)
<1> DEFINE T == {m \in 0..n : \E g \in [0..m -> Int] : PowersUpTo(g, x, m)}
<1>1. 0 \in T
  <2> DEFINE g == [k \in 0..0 |-> 1]
  <2>1. g \in [0..0 -> Int] /\ PowersUpTo(g, x, 0)
    BY DEF PowersUpTo
  <2> HIDE DEF g
  <2>2. QED
    BY <2>1
<1>2. ASSUME NEW m \in 0..(n - 1), m \in T PROVE m + 1 \in T
  <2>1. PICK g \in [0..m -> Int] : PowersUpTo(g, x, m)
    BY <1>2
  <2> DEFINE h == [k \in 0..(m + 1) |-> IF k = m + 1 THEN x * g[m] ELSE g[k]]
  <2>2. \A k \in 0..m : g[k] \in Int /\ g[k] = IF k = 0 THEN 1 ELSE x * g[k - 1]
    BY <2>1 DEF PowersUpTo
  <2>3. m \in 0..m /\ m + 1 \in 0..n
    BY <1>2
  <2>4. x * g[m] \in Int
    <3> DEFINE a == g[m]
    <3>1. a \in Int
      BY <2>2, <2>3
    <3> HIDE DEF a
    <3>2. x * a \in Int
      BY <3>1
    <3>3. QED
      BY <3>2 DEF a
  <2>5. h \in [0..(m + 1) -> Int]
    <3>1. \A k \in 0..(m + 1) : k # m + 1 => k \in 0..m
      OBVIOUS
    <3>2. QED
      BY <2>2, <2>4, <3>1
  <2>6. ASSUME NEW k \in 0..(m + 1) PROVE h[k] = IF k = 0 THEN 1 ELSE x * h[k - 1]
    <3>1. CASE k = m + 1
      <4>1. h[k] = x * g[m] /\ k # 0 /\ k - 1 = m /\ h[k - 1] = g[m]
        BY <2>3, <3>1
      <4>2. QED
        BY <4>1
    <3>2. CASE k # m + 1
      <4>1. k \in 0..m /\ h[k] = g[k] /\ (k # 0 => h[k - 1] = g[k - 1])
        BY <3>2
      <4>2. QED
        BY <2>2, <4>1
    <3>3. QED
      BY <3>1, <3>2
  <2>7. h = [k \in 0..(m + 1) |-> h[k]]
    OBVIOUS
  <2> HIDE DEF h
  <2>8. PowersUpTo(h, x, m + 1)
    BY <2>6, <2>7 DEF PowersUpTo
  <2>9. QED
    BY <2>3, <2>5, <2>8
<1> HIDE DEF T
<1>3. 0..n \subseteq T
  BY <1>1, <1>2, UpTo
<1>4. n \in T
  BY <1>3
<1>5. QED
  BY <1>4 DEF T

\* Tables of powers agree.
LEMMA PowersAgree ==
  ASSUME NEW x, NEW n \in Nat, NEW m \in 0..n, NEW g, NEW h,
         PowersUpTo(g, x, n), PowersUpTo(h, x, m)
  PROVE  g[m] = h[m]
<1> DEFINE T == {k \in 0..m : g[k] = h[k]}
<1>1. /\ \A k \in 0..n : g[k] = IF k = 0 THEN 1 ELSE x * g[k - 1]
      /\ \A k \in 0..m : h[k] = IF k = 0 THEN 1 ELSE x * h[k - 1]
  BY DEF PowersUpTo
<1>2. \A k \in 0..m : k \in 0..n
  OBVIOUS
<1>3. 0 \in T
  BY <1>1, <1>2
<1>4. ASSUME NEW k \in 0..(m - 1), k \in T PROVE k + 1 \in T
  <2>1. k + 1 \in 0..m /\ k + 1 # 0 /\ (k + 1) - 1 = k
    OBVIOUS
  <2>2. g[k + 1] = x * g[k] /\ h[k + 1] = x * h[k]
    BY <1>1, <1>2, <2>1
  <2>3. QED
    BY <1>4, <2>1, <2>2
<1> HIDE DEF T
<1>5. 0..m \subseteq T
  BY <1>3, <1>4, UpTo
<1>6. QED
  BY <1>5 DEF T

LEMMA PowerSteps ==
  ASSUME NEW x \in Int, NEW n \in Nat
  PROVE  /\ Power(x, 0) = 1
         /\ Power(x, n) \in Int
         /\ Power(x, n + 1) = x * Power(x, n)
<1> DEFINE c(m) == CHOOSE g : PowersUpTo(g, x, m)
<1>1. ASSUME NEW m \in Nat
      PROVE  /\ PowersUpTo(c(m), x, m) /\ Power(x, m) = c(m)[m]
  BY PowersExist, PowersMean
<1>2. ASSUME NEW m \in Nat PROVE Power(x, m) \in Int
  <2>1. PICK g \in [0..m -> Int] : PowersUpTo(g, x, m)
    BY PowersExist
  <2>2. g[m] = c(m)[m]
    BY <1>1, <2>1, PowersAgree
  <2>3. QED
    BY <1>1, <2>1, <2>2
<1> HIDE DEF c
<1>3. \A k \in 0..(n + 1) : c(n + 1)[k] = IF k = 0 THEN 1 ELSE x * c(n + 1)[k - 1]
  BY <1>1 DEF PowersUpTo
<1>4. c(n + 1)[n + 1] = x * c(n + 1)[n]
  BY <1>3
<1>5. c(n + 1)[n] = c(n)[n]
  BY <1>1, PowersAgree
<1>6. c(0)[0] = 1
  BY <1>1 DEF PowersUpTo
<1>7. QED
  BY <1>1, <1>2, <1>4, <1>5, <1>6

LEMMA TimesMonotone ==
  ASSUME NEW a \in Nat, NEW x \in Int, NEW y \in Int, x <= y
  PROVE  a * x <= a * y
<1>1. a * (y - x) >= 0
  OBVIOUS
<1>2. a * (y - x) = a * y - a * x
  OBVIOUS
<1>3. a * x \in Int /\ a * y \in Int
  OBVIOUS
<1> DEFINE u == a * x
           v == a * y
<1>4. v - u >= 0 /\ u \in Int /\ v \in Int
  BY <1>1, <1>2, <1>3
<1> HIDE DEF u, v
<1>5. u <= v
  BY <1>4
<1>6. QED
  BY <1>5 DEF u, v

LEMMA PowerPositive ==
  ASSUME NEW x \in Nat \ {0}, NEW n \in Nat
  PROVE  Power(x, n) \in Nat \ {0}
<1> DEFINE T == {m \in 0..n : Power(x, m) > 0}
<1>1. 0 \in T
  BY PowerSteps
<1>2. ASSUME NEW m \in 0..(n - 1), m \in T PROVE m + 1 \in T
  <2> DEFINE p == Power(x, m)
  <2>1. p \in Int /\ p > 0 /\ Power(x, m + 1) = x * p
    BY <1>2, PowerSteps
  <2> HIDE DEF p
  <2>2. x * p > 0
    BY <2>1
  <2>3. QED
    BY <2>1, <2>2
<1> HIDE DEF T
<1>3. 0..n \subseteq T
  BY <1>1, <1>2, UpTo
<1> DEFINE p == Power(x, n)
<1>4. p \in Int /\ p > 0
  BY <1>3, PowerSteps DEF T
<1> HIDE DEF p
<1>5. p \in Nat \ {0}
  BY <1>4
<1>6. QED
  BY <1>5 DEF p

LEMMA PowerTimes ==
  ASSUME NEW x \in Int, NEW y \in Int, NEW n \in Nat
  PROVE  Power(x * y, n) = Power(x, n) * Power(y, n)
<1> DEFINE T == {m \in 0..n : Power(x * y, m) = Power(x, m) * Power(y, m)}
<1>0. x * y \in Int
  OBVIOUS
<1>1. 0 \in T
  BY <1>0, PowerSteps
<1>2. ASSUME NEW m \in 0..(n - 1), m \in T PROVE m + 1 \in T
  <2> DEFINE p == Power(x, m)
             q == Power(y, m)
  <2>1. /\ p \in Int /\ q \in Int /\ Power(x * y, m) = p * q
        /\ Power(x, m + 1) = x * p /\ Power(y, m + 1) = y * q
        /\ Power(x * y, m + 1) = (x * y) * Power(x * y, m)
    BY <1>0, <1>2, PowerSteps
  <2> HIDE DEF p, q
  <2>2. (x * y) * (p * q) = (x * p) * (y * q)
    BY <2>1
  <2>3. QED
    BY <2>1, <2>2
<1> HIDE DEF T
<1>3. 0..n \subseteq T
  BY <1>1, <1>2, UpTo
<1>4. QED
  BY <1>3 DEF T

LEMMA PowerMonotone ==
  ASSUME NEW x \in Nat, NEW y \in Nat, x <= y, NEW n \in Nat
  PROVE  Power(x, n) <= Power(y, n)
<1> DEFINE T == {m \in 0..n : Power(x, m) <= Power(y, m) /\ Power(y, m) >= 0}
<1>1. 0 \in T
  BY PowerSteps
<1>2. ASSUME NEW m \in 0..(n - 1), m \in T PROVE m + 1 \in T
  <2> DEFINE p == Power(x, m)
             q == Power(y, m)
  <2>1. /\ p \in Int /\ q \in Nat /\ p <= q
        /\ Power(x, m + 1) = x * p /\ Power(y, m + 1) = y * q
    BY <1>2, PowerSteps
  <2> HIDE DEF p, q
  <2>2. x * p <= x * q
    BY <2>1, TimesMonotone
  <2>3. q * x <= q * y
    BY <2>1, TimesMonotone
  <2>4. q * x = x * q /\ q * y = y * q
    BY <2>1
  <2> DEFINE a == x * p
             b == x * q
             c == y * q
  <2>5. a \in Int /\ b \in Int /\ c \in Nat /\ a <= b /\ b <= c
    BY <2>1, <2>2, <2>3, <2>4
  <2> HIDE DEF a, b, c
  <2>6. a <= c /\ c >= 0
    BY <2>5
  <2>7. QED
    BY <2>1, <2>6 DEF a, c
<1> HIDE DEF T
<1>3. 0..n \subseteq T
  BY <1>1, <1>2, UpTo
<1>4. QED
  BY <1>3 DEF T

LEMMA DivExact ==
  ASSUME NEW g \in Nat \ {0}, NEW x \in Int
  PROVE  (g * x) \div g = x
OBVIOUS

-----------------------------------------------------------------------------
(* Growth *)

\* What deposits of b have become after n months at a rate of g to b.
Gains(g, b, n) == (Power(b + g, n) - Power(b, n)) \div g

LEMMA GainsStep ==
  ASSUME NEW g \in Nat \ {0}, NEW b \in Nat \ {0}, NEW n \in Nat
  PROVE  /\ Gains(g, b, 0) = 0
         /\ Gains(g, b, n) \in Nat
         /\ Power(b + g, n) - Power(b, n) = g * Gains(g, b, n)
         /\ Gains(g, b, n + 1) = (b + g) * Gains(g, b, n) + Power(b, n)
<1>0. b + g \in Int /\ b \in Int /\ b + g \in Nat \ {0}
  OBVIOUS
<1> DEFINE T == {m \in 0..n : \E k \in Nat : Power(b + g, m) - Power(b, m) = g * k}
<1>1. 0 \in T
  <2>1. Power(b + g, 0) - Power(b, 0) = g * 0
    BY <1>0, PowerSteps
  <2>2. QED
    BY <2>1
<1>a. ASSUME NEW m \in Nat, NEW k \in Nat, Power(b + g, m) - Power(b, m) = g * k
      PROVE  /\ Gains(g, b, m) = k
             /\ Power(b + g, m + 1) - Power(b, m + 1) = g * ((b + g) * k + Power(b, m))
             /\ (b + g) * k + Power(b, m) \in Nat
             /\ Gains(g, b, m + 1) = (b + g) * k + Power(b, m)
  <2> DEFINE p == Power(b + g, m)
             q == Power(b, m)
             l == (b + g) * k + q
  <2>1. /\ p \in Int /\ q \in Nat /\ p - q = g * k
        /\ Power(b + g, m + 1) = (b + g) * p /\ Power(b, m + 1) = b * q
    BY <1>0, <1>a, PowerSteps, PowerPositive
  <2> HIDE DEF p, q
  <2>2. (g * k) \div g = k
    BY DivExact
  <2>3. (b + g) * p - b * q = (b + g) * (p - q) + g * q
    BY <2>1
  <2>4. (b + g) * (g * k) + g * q = g * l
    BY <2>1
  <2>5. (b + g) * p - b * q = g * l
    BY <2>1, <2>3, <2>4
  <2>6. l \in Nat
    <3>1. (b + g) * k \in Nat
      OBVIOUS
    <3>2. QED
      BY <2>1, <3>1
  <2> HIDE DEF l
  <2>7. (g * l) \div g = l
    BY <2>6, DivExact
  <2>8. Gains(g, b, m) = k /\ Gains(g, b, m + 1) = l
    BY <2>1, <2>2, <2>5, <2>7 DEF Gains, p, q
  <2>9. QED
    BY <2>1, <2>5, <2>6, <2>8 DEF l, q
<1>2. ASSUME NEW m \in 0..(n - 1), m \in T PROVE m + 1 \in T
  <2>1. PICK k \in Nat : Power(b + g, m) - Power(b, m) = g * k
    BY <1>2
  <2> DEFINE l == (b + g) * k + Power(b, m)
  <2>2. m \in Nat /\ m + 1 \in 0..n
    OBVIOUS
  <2>3. l \in Nat /\ Power(b + g, m + 1) - Power(b, m + 1) = g * l
    BY <2>1, <2>2, <1>a
  <2> HIDE DEF l
  <2>4. QED
    BY <2>2, <2>3
<1> HIDE DEF T
<1>3. 0..n \subseteq T
  BY <1>1, <1>2, UpTo
<1>4. PICK k \in Nat : Power(b + g, n) - Power(b, n) = g * k
  BY <1>3 DEF T
<1>5. Power(b + g, 0) - Power(b, 0) = g * 0
  BY <1>0, PowerSteps
<1>6. Gains(g, b, 0) = 0
  BY <1>5, <1>a
<1>7. QED
  BY <1>4, <1>6, <1>a

\* Without interest on it a deposit becomes less.
LEMMA GainsAtLeast ==
  ASSUME NEW g \in Nat \ {0}, NEW b \in Nat \ {0}, NEW n \in Nat
  PROVE  n * Power(b, n) <= b * Gains(g, b, n)
<1> DEFINE T == {m \in 0..n : m * Power(b, m) <= b * Gains(g, b, m)}
<1>1. 0 \in T
  BY GainsStep, PowerSteps
<1>2. ASSUME NEW m \in 0..(n - 1), m \in T PROVE m + 1 \in T
  <2> DEFINE p == Power(b, m)
             k == Gains(g, b, m)
  <2>1. /\ p \in Nat /\ k \in Nat /\ m * p <= b * k /\ m \in Nat
        /\ Power(b, m + 1) = b * p /\ Gains(g, b, m + 1) = (b + g) * k + p
    BY <1>2, PowerSteps, PowerPositive, GainsStep
  <2> HIDE DEF p, k
  <2>2. b * (m * p) <= b * (b * k)
    <3>1. m * p \in Int /\ b * k \in Int
      BY <2>1
    <3>2. QED
      BY <2>1, <3>1, TimesMonotone
  <2>3. b * (g * k) >= 0
    BY <2>1
  <2>4. (m + 1) * (b * p) = b * (m * p) + b * p
    BY <2>1
  <2>5. b * ((b + g) * k + p) = b * (b * k) + b * (g * k) + b * p
    BY <2>1
  <2> DEFINE u == b * (m * p)
             v == b * (b * k)
             w == b * (g * k)
             z == b * p
  <2>6. u \in Int /\ v \in Int /\ w \in Int /\ z \in Int /\ u <= v /\ w >= 0
    BY <2>1, <2>2, <2>3
  <2> HIDE DEF u, v, w, z
  <2>7. u + z <= v + w + z
    BY <2>6
  <2>8. (m + 1) * (b * p) <= b * ((b + g) * k + p)
    BY <2>4, <2>5, <2>7 DEF u, v, w, z
  <2>9. QED
    BY <2>1, <2>8
<1> HIDE DEF T
<1>3. 0..n \subseteq T
  BY <1>1, <1>2, UpTo
<1>4. QED
  BY <1>3 DEF T

\* At the rate of h to c, which is not above that of g to b, it becomes less as well.
LEMMA GainsLess ==
  ASSUME NEW g \in Nat \ {0}, NEW b \in Nat \ {0}, NEW h \in Nat \ {0}, NEW c \in Nat \ {0},
         (c + h) * b <= (b + g) * c, NEW n \in Nat
  PROVE  (c * Gains(h, c, n)) * Power(b, n) <= (b * Gains(g, b, n)) * Power(c, n)
<1> DEFINE T == {m \in 0..n : (c * Gains(h, c, m)) * Power(b, m)
                              <= (b * Gains(g, b, m)) * Power(c, m)}
<1>1. 0 \in T
  BY GainsStep, PowerSteps
<1>2. ASSUME NEW m \in 0..(n - 1), m \in T PROVE m + 1 \in T
  <2> DEFINE p == Power(b, m)
             q == Power(c, m)
             k == Gains(g, b, m)
             l == Gains(h, c, m)
             x == (c * l) * p
             y == (b * k) * q
  <2>1. /\ p \in Nat /\ q \in Nat /\ k \in Nat /\ l \in Nat /\ x <= y
        /\ Power(b, m + 1) = b * p /\ Gains(g, b, m + 1) = (b + g) * k + p
        /\ Power(c, m + 1) = c * q /\ Gains(h, c, m + 1) = (c + h) * l + q
    BY <1>2, PowerSteps, PowerPositive, GainsStep
  <2> HIDE DEF p, q, k, l
  <2>2. (c * ((c + h) * l + q)) * (b * p) = ((c + h) * b) * x + (c * b) * (q * p)
    BY <2>1
  <2>3. (b * ((b + g) * k + p)) * (c * q) = ((b + g) * c) * y + (c * b) * (q * p)
    BY <2>1
  <2>4. x \in Nat /\ y \in Nat
    <3>1. c * l \in Nat /\ b * k \in Nat
      BY <2>1
    <3>2. QED
      BY <2>1, <3>1
  <2> HIDE DEF x, y
  <2> DEFINE r == (c + h) * b
             s == (b + g) * c
             z == (c * b) * (q * p)
  <2>5. r \in Nat /\ s \in Nat /\ r <= s /\ z \in Int
    BY <2>1
  <2> HIDE DEF r, s, z
  <2>6. r * x <= r * y
    BY <2>1, <2>4, <2>5, TimesMonotone
  <2>7. y * r <= y * s
    BY <2>4, <2>5, TimesMonotone
  <2>8. y * r = r * y /\ y * s = s * y
    BY <2>4, <2>5
  <2> DEFINE d == r * x
             e == r * y
             f == s * y
  <2>9. d \in Int /\ e \in Int /\ f \in Int /\ d <= e /\ e <= f
    BY <2>4, <2>5, <2>6, <2>7, <2>8
  <2> HIDE DEF d, e, f
  <2>10. d + z <= f + z
    BY <2>5, <2>9
  <2>11. (c * ((c + h) * l + q)) * (b * p) <= (b * ((b + g) * k + p)) * (c * q)
    BY <2>2, <2>3, <2>10 DEF d, f, r, s, z
  <2>12. QED
    BY <2>1, <2>11
<1> HIDE DEF T
<1>3. 0..n \subseteq T
  BY <1>1, <1>2, UpTo
<1>4. QED
  BY <1>3 DEF T

\* The value after n months at a rate of g to b, in units of one of now.
Grown(bal, m, g, b, n) == bal * Power(b + g, n) + m * (b * Gains(g, b, n))

LEMMA GrowthMeans ==
  ASSUME NEW bal \in Int, NEW m \in Int, NEW g \in Nat \ {0}, NEW b \in Nat \ {0}, NEW n \in Nat
  PROVE  /\ Growth(bal, m, g, b, n).num = Grown(bal, m, g, b, n)
         /\ Growth(bal, m, g, b, n).den = Power(b, n)
<1> DEFINE p == Power(b + g, n)
           q == Power(b, n)
           k == Gains(g, b, n)
<1>1. p - q = g * k /\ k \in Nat /\ p \in Int /\ q \in Int
  <2>1. b + g \in Int
    OBVIOUS
  <2>2. QED
    BY <2>1, GainsStep, PowerSteps
<1>2. Growth(bal, m, g, b, n).num = bal * p + (m * b * (p - q)) \div g /\ Growth(bal, m, g, b, n).den = q
  <2>1. ~(n < 0) /\ g > 0
    OBVIOUS
  <2>2. QED
    BY <2>1, Zenon DEF Growth
<1> HIDE DEF p, q, k
<1>3. m * b * (g * k) = g * (m * (b * k)) /\ m * (b * k) \in Int
  BY <1>1
<1>4. (m * b * (p - q)) \div g = m * (b * k)
  BY <1>1, <1>3, DivExact
<1>5. QED
  BY <1>2, <1>4 DEF p, q, k, Grown

LEMMA GrowthStops ==
  ASSUME NEW g \in Int, ~(g > 0), NEW bal, NEW m, NEW b, NEW n
  PROVE  Growth(bal, m, g, b, n).num = bal + m * n /\ Growth(bal, m, g, b, n).den = 1
BY DEF Growth

\* The more is put aside the more there is.
LEMMA GrowthMonotone ==
  ASSUME NEW bal \in Int, NEW u \in Int, NEW v \in Int, u <= v,
         NEW g \in Int, NEW b \in Nat \ {0}, NEW n \in Nat
  PROVE  AtMost(Growth(bal, u, g, b, n), Growth(bal, v, g, b, n))
<1>1. CASE g > 0
  <2> DEFINE p == Power(b + g, n)
             q == Power(b, n)
             k == b * Gains(g, b, n)
  <2>0. g \in Nat \ {0} /\ b + g \in Int /\ b \in Int
    BY <1>1
  <2>1. p \in Int /\ q \in Nat
    BY <2>0, PowerSteps, PowerPositive
  <2>2. k \in Nat
    <3> DEFINE l == Gains(g, b, n)
    <3>1. l \in Nat
      BY <2>0, GainsStep
    <3> HIDE DEF l
    <3>2. b * l \in Nat
      BY <3>1
    <3>3. QED
      BY <3>2 DEF l
  <2>3. /\ Growth(bal, u, g, b, n).num = bal * p + u * k /\ Growth(bal, u, g, b, n).den = q
        /\ Growth(bal, v, g, b, n).num = bal * p + v * k /\ Growth(bal, v, g, b, n).den = q
    <3>1. bal \in Int
      OBVIOUS
    <3>2. /\ Growth(bal, u, g, b, n).num = Grown(bal, u, g, b, n)
          /\ Growth(bal, v, g, b, n).num = Grown(bal, v, g, b, n)
          /\ Growth(bal, u, g, b, n).den = q /\ Growth(bal, v, g, b, n).den = q
      BY <2>0, <3>1, GrowthMeans
    <3>3. QED
      BY <3>2, Zenon DEF Grown
  <2> HIDE DEF p, q, k
  <2>4. k * u <= k * v
    BY <2>2, TimesMonotone
  <2> DEFINE x == bal * p + u * k
             y == bal * p + v * k
  <2>5. x \in Int /\ y \in Int /\ x <= y
    BY <2>1, <2>2, <2>4
  <2> HIDE DEF x, y
  <2>6. q * x <= q * y
    BY <2>1, <2>5, TimesMonotone
  <2>7. x * q <= y * q
    <3>1. q * x = x * q /\ q * y = y * q
      BY <2>1, <2>5
    <3>2. QED
      BY <2>6, <3>1
  <2>8. QED
    BY <2>3, <2>7 DEF AtMost, x, y
<1>2. CASE ~(g > 0)
  <2>1. n * u <= n * v
    BY TimesMonotone
  <2>2. (bal + u * n) * 1 <= (bal + v * n) * 1
    BY <2>1
  <2>3. /\ Growth(bal, u, g, b, n).num = bal + u * n /\ Growth(bal, u, g, b, n).den = 1
        /\ Growth(bal, v, g, b, n).num = bal + v * n /\ Growth(bal, v, g, b, n).den = 1
    BY <1>2, GrowthStops
  <2>4. QED
    BY <2>2, <2>3 DEF AtMost
<1>3. QED
  BY <1>1, <1>2

\* What is there at a rate of h to c is at most what it is at a higher one.
LEMMA GrowthByRate ==
  ASSUME NEW bal \in Nat, NEW m \in Nat, NEW n \in Nat,
         NEW g \in Int, NEW b \in Nat \ {0}, NEW h \in Int, NEW c \in Nat \ {0},
         h > 0 => g > 0 /\ (c + h) * b <= (b + g) * c
  PROVE  AtMost(Growth(bal, m, h, c, n), Growth(bal, m, g, b, n))
<1>1. CASE h > 0
  <2> DEFINE p == Power(b + g, n)
             q == Power(b, n)
             k == b * Gains(g, b, n)
             r == Power(c + h, n)
             s == Power(c, n)
             l == c * Gains(h, c, n)
  <2>0. /\ g \in Nat \ {0} /\ h \in Nat \ {0} /\ (c + h) * b <= (b + g) * c
        /\ b + g \in Nat /\ c + h \in Nat /\ (c + h) * b \in Nat /\ (b + g) * c \in Nat
    BY <1>1
  <2>1. /\ p \in Int /\ q \in Int /\ r \in Int /\ s \in Int
        /\ Gains(g, b, n) \in Nat /\ Gains(h, c, n) \in Nat
    <3>1. b + g \in Int /\ c + h \in Int /\ b \in Int /\ c \in Int
      BY <2>0
    <3>2. QED
      BY <2>0, <3>1, PowerSteps, GainsStep
  <2>2. k \in Int /\ l \in Int
    <3> DEFINE x == Gains(g, b, n)
               y == Gains(h, c, n)
    <3>1. x \in Nat /\ y \in Nat
      BY <2>1
    <3> HIDE DEF x, y
    <3>2. b * x \in Int /\ c * y \in Int
      BY <3>1
    <3>3. QED
      BY <3>2 DEF x, y
  <2>3. /\ Growth(bal, m, g, b, n).num = bal * p + m * k /\ Growth(bal, m, g, b, n).den = q
        /\ Growth(bal, m, h, c, n).num = bal * r + m * l /\ Growth(bal, m, h, c, n).den = s
    <3>1. m \in Int /\ bal \in Int
      OBVIOUS
    <3>2. g \in Nat \ {0} /\ h \in Nat \ {0}
      BY <2>0
    <3>3. Growth(bal, m, g, b, n).num = Grown(bal, m, g, b, n) /\ Growth(bal, m, g, b, n).den = q
      BY <3>1, <3>2, GrowthMeans
    <3>4. Growth(bal, m, h, c, n).num = Grown(bal, m, h, c, n) /\ Growth(bal, m, h, c, n).den = s
      BY <3>1, <3>2, GrowthMeans
    <3>5. QED
      BY <3>3, <3>4, Zenon DEF Grown
  <2>4. r * q <= p * s
    <3>1. Power((c + h) * b, n) <= Power((b + g) * c, n)
      BY <2>0, PowerMonotone
    <3>2. /\ Power((c + h) * b, n) = Power(c + h, n) * Power(b, n)
          /\ Power((b + g) * c, n) = Power(b + g, n) * Power(c, n)
      BY <2>0, PowerTimes
    <3>3. QED
      BY <3>1, <3>2
  <2>5. l * q <= k * s
    BY <2>0, GainsLess
  <2> HIDE DEF p, q, k, r, s, l
  <2>6. bal * (r * q) <= bal * (p * s) /\ m * (l * q) <= m * (k * s)
    <3>1. r * q \in Int /\ p * s \in Int /\ l * q \in Int /\ k * s \in Int
      BY <2>1, <2>2
    <3>2. QED
      BY <2>4, <2>5, <3>1, TimesMonotone
  <2>7. /\ (bal * r + m * l) * q = bal * (r * q) + m * (l * q)
        /\ (bal * p + m * k) * s = bal * (p * s) + m * (k * s)
    BY <2>1, <2>2
  <2> DEFINE x == bal * (r * q)
             y == bal * (p * s)
             z == m * (l * q)
             w == m * (k * s)
  <2>8. x \in Int /\ y \in Int /\ z \in Int /\ w \in Int /\ x <= y /\ z <= w
    BY <2>1, <2>2, <2>6
  <2> HIDE DEF x, y, z, w
  <2>9. x + z <= y + w
    BY <2>8
  <2>10. (bal * r + m * l) * q <= (bal * p + m * k) * s
    BY <2>7, <2>9 DEF x, y, z, w
  <2>11. QED
    BY <2>3, <2>10 DEF AtMost
<1>2. CASE ~(h > 0) /\ g > 0
  <2> DEFINE p == Power(b + g, n)
             q == Power(b, n)
             k == b * Gains(g, b, n)
  <2>0. g \in Nat \ {0} /\ b + g \in Nat /\ b <= b + g
    BY <1>2
  <2>1. p \in Int /\ q \in Int /\ Gains(g, b, n) \in Nat
    BY <2>0, PowerSteps, GainsStep
  <2>2. k \in Int
    <3> DEFINE x == Gains(g, b, n)
    <3>1. x \in Nat
      BY <2>1
    <3> HIDE DEF x
    <3>2. b * x \in Int
      BY <3>1
    <3>3. QED
      BY <3>2 DEF x
  <2>3. /\ Growth(bal, m, g, b, n).num = bal * p + m * k /\ Growth(bal, m, g, b, n).den = q
        /\ Growth(bal, m, h, c, n).num = bal + m * n /\ Growth(bal, m, h, c, n).den = 1
    <3>1. m \in Int /\ bal \in Int
      OBVIOUS
    <3>2. /\ Growth(bal, m, g, b, n).num = Grown(bal, m, g, b, n)
          /\ Growth(bal, m, g, b, n).den = q
      BY <2>0, <3>1, GrowthMeans
    <3>3. Growth(bal, m, h, c, n).num = bal + m * n /\ Growth(bal, m, h, c, n).den = 1
      BY <1>2, GrowthStops
    <3>4. QED
      BY <3>2, <3>3, Zenon DEF Grown
  <2>4. q <= p
    BY <2>0, PowerMonotone
  <2>5. n * q <= k
    BY <2>0, GainsAtLeast
  <2> HIDE DEF p, q, k
  <2>6. bal * q <= bal * p /\ m * (n * q) <= m * k
    <3>1. n * q \in Int
      BY <2>1
    <3>2. QED
      BY <2>1, <2>2, <2>4, <2>5, <3>1, TimesMonotone
  <2>7. (bal + m * n) * q = bal * q + m * (n * q)
    BY <2>1
  <2> DEFINE x == bal * q
             y == bal * p
             z == m * (n * q)
             w == m * k
  <2>8. x \in Int /\ y \in Int /\ z \in Int /\ w \in Int /\ x <= y /\ z <= w
    BY <2>1, <2>2, <2>6
  <2> HIDE DEF x, y, z, w
  <2>9. x + z <= (y + w) * 1
    BY <2>8
  <2>10. (bal + m * n) * q <= (bal * p + m * k) * 1
    BY <2>7, <2>9 DEF x, y, z, w
  <2>11. QED
    BY <2>3, <2>10 DEF AtMost
<1>3. CASE ~(h > 0) /\ ~(g > 0)
  <2> DEFINE x == bal + m * n
  <2>1. /\ Growth(bal, m, g, b, n).num = x /\ Growth(bal, m, g, b, n).den = 1
        /\ Growth(bal, m, h, c, n).num = x /\ Growth(bal, m, h, c, n).den = 1
    BY <1>3, GrowthStops
  <2>2. x \in Int
    OBVIOUS
  <2> HIDE DEF x
  <2>3. QED
    BY <2>1, <2>2 DEF AtMost
<1>4. QED
  BY <1>1, <1>2, <1>3

-----------------------------------------------------------------------------
(* Projections *)

\* What ProjectionsAreOrdered says of one.
Ordered(p) ==
  LET x == p.scenario
  IN  p.monthly >= 0 /\ p.balance >= 0 /\ p.cfg.years >= 0 =>
        /\ p.cfg.inflation >= 0 => AtMost(p.base.real, p.base.nominal)
        /\ AtMost(x["half"].real, p.base.real) /\ AtMost(p.base.real, x["double"].real)
        /\ AtMost(x["less"].real, p.base.real) /\ AtMost(p.base.real, x["more"].real)
        /\ AtMost(x["more"].real, x["much"].real)

\* A config whose real rate can be computed.
Computable(c) == c \in Configs /\ c.inflation # -Hundred

\* The real rate is a positive fraction of months, or of its opposite.
LEMMA ConfigNumbers ==
  ASSUME NEW c, Computable(c), c.years >= 0
  PROVE  /\ Hundred * YearMonths \in Nat \ {0} /\ (Hundred + c.inflation) * YearMonths \in Int \ {0}
         /\ c.inflation >= 0 => (Hundred + c.inflation) * YearMonths > 0
         /\ c.return \in Int /\ c.inflation \in Int /\ c.return - c.inflation \in Int
         /\ c.years * YearMonths \in Nat
<1>1. c.return \in Int /\ c.inflation \in Int /\ c.years \in Int /\ c.inflation # -Hundred
  BY ConfigAssumption DEF Computable
<1>2. YearMonths \in Nat \ {0} /\ Hundred \in Nat \ {0}
  BY DataAssumption
<1> DEFINE h == Hundred
           i == c.inflation
           y == YearMonths
           n == c.years
<1>3. h \in Nat \ {0} /\ i \in Int /\ y \in Nat \ {0} /\ n \in Nat /\ i # -h
  BY <1>1, <1>2
<1> HIDE DEF h, i, y, n
<1>4. h + i \in Int \ {0} /\ (i >= 0 => h + i > 0)
  BY <1>3
<1>5. h * y \in Nat \ {0}
  BY <1>3
<1>6. (h + i) * y \in Int \ {0} /\ (i >= 0 => (h + i) * y > 0)
  <2> DEFINE j == h + i
  <2>1. j \in Int \ {0} /\ (i >= 0 => j > 0)
    BY <1>4
  <2> HIDE DEF j
  <2>2. j * y \in Int \ {0} /\ (j > 0 => j * y > 0)
    BY <1>3, <2>1
  <2>3. QED
    BY <2>1, <2>2 DEF j
<1>7. n * y \in Nat
  BY <1>3
<1>8. QED
  BY <1>1, <1>5, <1>6, <1>7 DEF h, i, y, n

LEMMA RealMonotone ==
  ASSUME NEW c, Computable(c), c.years >= 0, NEW bal \in Int, NEW u \in Int, NEW v \in Int, u <= v
  PROVE  AtMost(FutureValue(bal, u, c).real, FutureValue(bal, v, c).real)
<1> DEFINE g == c.return - c.inflation
           b == (Hundred + c.inflation) * YearMonths
           n == c.years * YearMonths
<1>1. g \in Int /\ b \in Int \ {0} /\ n \in Nat
  BY ConfigNumbers
<1>2. ASSUME NEW x
      PROVE  FutureValue(bal, x, c).real = IF b > 0 THEN Growth(bal, x, g, b, n)
                                           ELSE Growth(bal, x, -g, -b, n)
  BY DEF FutureValue
<1> HIDE DEF g, b, n
<1>3. CASE b > 0
  <2>1. AtMost(Growth(bal, u, g, b, n), Growth(bal, v, g, b, n))
    BY <1>1, <1>3, GrowthMonotone
  <2>2. QED
    BY <1>2, <1>3, <2>1
<1>4. CASE ~(b > 0)
  <2> DEFINE f == -g
             a == -b
  <2>1. f \in Int /\ a \in Nat \ {0}
    BY <1>1, <1>4
  <2>2. FutureValue(bal, u, c).real = Growth(bal, u, f, a, n)
        /\ FutureValue(bal, v, c).real = Growth(bal, v, f, a, n)
    BY <1>2, <1>4
  <2> HIDE DEF f, a
  <2>3. AtMost(Growth(bal, u, f, a, n), Growth(bal, v, f, a, n))
    BY <1>1, <2>1, GrowthMonotone
  <2>4. QED
    BY <2>2, <2>3
<1>5. QED
  BY <1>3, <1>4

LEMMA RealAtMostNominal ==
  ASSUME NEW c, Computable(c), c.years >= 0, c.inflation >= 0, NEW bal \in Nat, NEW m \in Nat
  PROVE  AtMost(FutureValue(bal, m, c).real, FutureValue(bal, m, c).nominal)
<1> DEFINE r == c.return
           i == c.inflation
           y == YearMonths
           t == Hundred
           n == c.years * YearMonths
<1>1. /\ r \in Int /\ i \in Int /\ i >= 0 /\ y \in Nat \ {0} /\ t \in Nat \ {0} /\ n \in Nat
      /\ t * y \in Nat \ {0} /\ (t + i) * y \in Nat \ {0} /\ r - i \in Int
  BY ConfigNumbers, DataAssumption
<1>2. /\ FutureValue(bal, m, c).nominal = Growth(bal, m, r, t * y, n)
      /\ FutureValue(bal, m, c).real = Growth(bal, m, r - i, (t + i) * y, n)
  <2>1. (t + i) * y > 0
    BY <1>1
  <2>2. QED
    BY <2>1, Zenon DEF FutureValue
<1> HIDE DEF r, i, y, t, n
<1>3. ASSUME r - i > 0
      PROVE  r > 0 /\ ((t + i) * y + (r - i)) * (t * y) <= (t * y + r) * ((t + i) * y)
  <2>1. r > 0
    BY <1>1, <1>3
  <2>2. (t * y + r) * ((t + i) * y) - ((t + i) * y + (r - i)) * (t * y) = y * (i * (r + t))
    BY <1>1
  <2>3. y * (i * (r + t)) >= 0
    <3>1. i * (r + t) \in Nat
      BY <1>1, <2>1
    <3> DEFINE z == i * (r + t)
    <3> HIDE DEF z
    <3>2. y * z >= 0
      BY <1>1, <3>1 DEF z
    <3>3. QED
      BY <3>2 DEF z
  <2> DEFINE u == ((t + i) * y + (r - i)) * (t * y)
             v == (t * y + r) * ((t + i) * y)
  <2>4. u \in Int /\ v \in Int /\ v - u >= 0
    BY <1>1, <2>2, <2>3
  <2> HIDE DEF u, v
  <2>5. u <= v
    BY <2>4
  <2>6. QED
    BY <2>1, <2>5 DEF u, v
<1>4. QED
  <2> DEFINE b == t * y
             c1 == (t + i) * y
             h == r - i
  <2>1. /\ b \in Nat \ {0} /\ c1 \in Nat \ {0} /\ h \in Int
        /\ h > 0 => r > 0 /\ (c1 + h) * b <= (b + r) * c1
    BY <1>1, <1>3
  <2>2. /\ FutureValue(bal, m, c).nominal = Growth(bal, m, r, b, n)
        /\ FutureValue(bal, m, c).real = Growth(bal, m, h, c1, n)
    BY <1>2
  <2> HIDE DEF b, c1, h
  <2>3. r \in Int /\ n \in Nat
    BY <1>1
  <2>4. AtMost(Growth(bal, m, h, c1, n), Growth(bal, m, r, b, n))
    BY <2>1, <2>3, GrowthByRate
  <2>5. QED
    BY <2>2, <2>4

LEMMA ProjectionOrdered ==
  ASSUME NEW bal \in Int, NEW agg, agg.now.net \in Int, agg.now.income \in Nat,
         NEW c, Computable(c)
  PROVE  Ordered(Project(bal, agg, c))
<1> DEFINE p == Project(bal, agg, c)
           m == IF ~c.actual /\ c.monthly # None THEN c.monthly ELSE agg.now.net
           i == agg.now.income
           d == Deposits(m, i)
           F(u) == FutureValue(20 * bal, u, c)
           x == p.scenario
<1>1. m \in Int /\ i \in Nat
  BY ConfigAssumption DEF Computable
<1>2. /\ p.balance = bal /\ p.monthly = m /\ p.cfg = c /\ p.base = F(20 * m)
      /\ x = [y \in DOMAIN d |-> F(d[y])]
  BY DEF Project
<1>3. /\ {"more", "much", "less", "double", "half"} = DOMAIN d
      /\ d["more"] = 20 * m + i /\ d["much"] = 20 * m + 2 * i /\ d["less"] = Max({0, 20 * m - i})
      /\ d["double"] = 40 * m /\ d["half"] = 10 * m
  BY DEF Deposits
<1> HIDE DEF m, i, d
<1>4. ASSUME m >= 0
      PROVE  /\ d["less"] \in Int /\ d["less"] <= 20 * m
             /\ d["half"] \in Int /\ d["half"] <= 20 * m
             /\ d["double"] \in Int /\ 20 * m <= d["double"]
             /\ d["more"] \in Int /\ 20 * m <= d["more"]
             /\ d["much"] \in Int /\ d["more"] <= d["much"]
             /\ 20 * m \in Nat
  <2> DEFINE a == 20 * m - i
             z == Max({0, a})
  <2>1. a \in Int /\ a <= 20 * m
    BY <1>1
  <2> HIDE DEF a
  <2>2. \E k \in {0, a} : \A j \in {0, a} : j <= k
    BY <2>1
  <2>3. z \in {0, a}
    BY <2>2 DEF Max
  <2> HIDE DEF z
  <2>4. z \in Int /\ z <= 20 * m
    BY <1>1, <1>4, <2>1, <2>3
  <2>5. d["less"] = z
    BY <1>3 DEF z, a
  <2>6. QED
    BY <1>1, <1>3, <1>4, <2>4, <2>5
<1> DEFINE Real(u, v) == AtMost(F(u).real, F(v).real)
<1>5. ASSUME c.years >= 0, NEW u \in Int, NEW v \in Int, u <= v PROVE Real(u, v)
  <2> DEFINE b == 20 * bal
  <2>1. b \in Int
    OBVIOUS
  <2> HIDE DEF b
  <2>2. AtMost(FutureValue(b, u, c).real, FutureValue(b, v, c).real)
    BY <1>5, <2>1, RealMonotone
  <2>3. QED
    BY <2>2 DEF b
<1>6. ASSUME c.years >= 0, m >= 0, bal >= 0, c.inflation >= 0
      PROVE  AtMost(F(20 * m).real, F(20 * m).nominal)
  <2> DEFINE b == 20 * bal
             u == 20 * m
  <2>1. b \in Nat /\ u \in Nat
    BY <1>1, <1>6
  <2> HIDE DEF b, u
  <2>2. AtMost(FutureValue(b, u, c).real, FutureValue(b, u, c).nominal)
    BY <1>6, <2>1, RealAtMostNominal
  <2>3. QED
    BY <2>2 DEF b, u
<1> SUFFICES ASSUME m >= 0, bal >= 0, c.years >= 0
             PROVE  /\ c.inflation >= 0 => AtMost(p.base.real, p.base.nominal)
                    /\ AtMost(x["half"].real, p.base.real) /\ AtMost(p.base.real, x["double"].real)
                    /\ AtMost(x["less"].real, p.base.real) /\ AtMost(p.base.real, x["more"].real)
                    /\ AtMost(x["more"].real, x["much"].real)
  BY <1>2 DEF Ordered
<1>7. /\ Real(d["half"], 20 * m) /\ Real(20 * m, d["double"])
      /\ Real(d["less"], 20 * m) /\ Real(20 * m, d["more"])
      /\ Real(d["more"], d["much"])
  <2> HIDE DEF Real
  <2>1. 20 * m \in Int
    BY <1>1
  <2>2. QED
    BY <1>4, <1>5, <2>1
<1>8. /\ x["half"] = F(d["half"]) /\ x["double"] = F(d["double"]) /\ x["less"] = F(d["less"])
      /\ x["more"] = F(d["more"]) /\ x["much"] = F(d["much"])
  BY <1>2, <1>3
<1> HIDE DEF p, F
<1>9. QED
  BY <1>2, <1>6, <1>7, <1>8

-----------------------------------------------------------------------------
(* What a session projects *)

\* What no element takes from is not negative.
LEMMA TotalNatural ==
  ASSUME NEW S, IsFiniteSet(S), NEW f, \A x \in S : f[x] \in Nat
  PROVE  Total(f, S) \in Nat
<1> DEFINE T == {s \in SUBSET S : Total(f, s) \in Nat}
<1>1. /\ Total(f, {}) = 0
      /\ \A s \in SUBSET S : \A x \in s : Total(f, s) = f[x] + Total(f, s \ {x})
  <2>1. \A x \in S : f[x] \in Int
    OBVIOUS
  <2>2. QED
    BY <2>1, TotalSplits
<1>2. ASSUME NEW s \in SUBSET S, \A x \in s : s \ {x} \in T PROVE s \in T
  <2>1. CASE s = {}
    BY <1>1, <2>1
  <2>2. CASE s # {}
    <3>1. PICK x \in s : TRUE
      BY <2>2
    <3> DEFINE r == Total(f, s \ {x})
    <3>2. Total(f, s) = f[x] + r /\ r \in Nat /\ f[x] \in Nat
      BY <1>1, <1>2
    <3> HIDE DEF r
    <3>3. f[x] + r \in Nat
      BY <3>2
    <3>4. Total(f, s) \in Nat
      BY <3>2, <3>3
    <3>5. QED
      BY <3>4
  <2>3. QED
    BY <2>1, <2>2
<1> HIDE DEF T
<1>3. SUBSET S \subseteq T
  BY <1>2, BySmaller
<1>4. QED
  BY <1>3 DEF T

\* The figures of a month are numbers, and its income is not negative.
LEMMA TotalsAreNumbers ==
  ASSUME NEW B \in SUBSET Bookings
  PROVE  Totals(B).net \in Int /\ Totals(B).income \in Nat
<1> DEFINE P == {b \in B : Amount[b] > 0}
           N == {b \in B : Amount[b] < 0}
<1>1. P \in SUBSET Bookings /\ N \in SUBSET Bookings
  OBVIOUS
<1>2. IsFiniteSet(P) /\ \A b \in P : Amount[b] \in Nat
  <2>1. Amount \in [Bookings -> Int \ {0}] /\ IsFiniteSet(Bookings)
    BY DataAssumption
  <2>2. IsFiniteSet(P)
    BY <1>1, <2>1, FS_Subset
  <2>3. \A b \in P : Amount[b] \in Nat
    BY <2>1
  <2>4. QED
    BY <2>2, <2>3
<1>3. /\ Totals(B).income = Sum(P) /\ Totals(B).net = Sum(P) - (-Sum(N))
  BY DEF Totals, Income, Expense
<1> HIDE DEF P, N
<1>4. Sum(P) \in Nat
  BY <1>2, TotalNatural, SumMeans
<1> DEFINE p == Sum(P)
           n == Sum(N)
<1>5. p \in Nat /\ n \in Int
  BY <1>1, <1>4, SumsOfBookings
<1> HIDE DEF p, n
<1>6. p - (-n) \in Int
  BY <1>5
<1>7. QED
  BY <1>3, <1>5, <1>6 DEF p, n

LEMMA AggregatesAreNumbers ==
  ASSUME NEW B \in SUBSET Bookings, NEW P
  PROVE  Aggregates(B, P).now.net \in Int /\ Aggregates(B, P).now.income \in Nat
<1>1. Aggregates(B, P).now = Totals(B)
  BY DEF Aggregates
<1>2. QED
  BY <1>1, TotalsAreNumbers

\* There is one such table.
LEMMA OneTable ==
  ASSUME NEW S, IsFiniteSet(S), NEW f, NEW g, NEW h, Sums(f, S, g), Sums(f, S, h)
  PROVE  h[S] = g[S]
<1>1. S \in SUBSET S
  OBVIOUS
<1>2. \A s \in SUBSET S : h[s] = g[s]
  BY <1>1, SumsAgree
<1>3. QED
  BY <1>1, <1>2

\* The sum of the balances of accounts is a number.
LEMMA BalancesAreNumbers ==
  ASSUME NEW S \in SUBSET Accounts, booked \in SUBSET Bookings
  PROVE  MapThenSumSet(BalanceOf, S) \in Int
<1> DEFINE f == [a \in Accounts |-> BalanceOf(a)]
           Table(g) == g = [s \in SUBSET S |->
                              IF s = {} THEN 0
                              ELSE BalanceOf(CHOOSE x \in s : TRUE) + g[s \ {CHOOSE x \in s : TRUE}]]
           c == CHOOSE g : Table(g)
<1>1. \A a \in Accounts : f[a] \in Int /\ f[a] = BalanceOf(a)
  <2> SUFFICES ASSUME NEW a \in Accounts PROVE BalanceOf(a) \in Int
    OBVIOUS
  <2> DEFINE B == {b \in booked : AccountOf[b] = a}
             n == Sum(B)
  <2>1. n \in Int
    <3>1. B \in SUBSET Bookings
      OBVIOUS
    <3> HIDE DEF B
    <3>2. QED
      BY <3>1, SumsOfBookings
  <2>2. Opening[a] \in Int
    BY DataAssumption
  <2>3. BalanceOf(a) = Opening[a] + n
    BY DEF BalanceOf
  <2> HIDE DEF n
  <2>4. QED
    BY <2>1, <2>2, <2>3
<1>2. IsFiniteSet(S) /\ \A a \in S : f[a] \in Int
  BY <1>1, DataAssumption, FS_Subset
<1> HIDE DEF f
<1>3. \A g : Table(g) <=> Sums(f, S, g)
  <2> TAKE g
  <2> DEFINE V(s) == IF s = {} THEN 0
                     ELSE BalanceOf(CHOOSE x \in s : TRUE) + g[s \ {CHOOSE x \in s : TRUE}]
             W(s) == IF s = {} THEN 0
                     ELSE f[CHOOSE x \in s : TRUE] + g[s \ {CHOOSE x \in s : TRUE}]
  <2>1. ASSUME NEW s \in SUBSET S PROVE V(s) = W(s)
    <3>1. CASE s = {}
      BY <3>1
    <3>2. CASE s # {}
      <4>1. (CHOOSE x \in s : TRUE) \in Accounts
        BY <3>2
      <4>2. f[CHOOSE x \in s : TRUE] = BalanceOf(CHOOSE x \in s : TRUE)
        BY <1>1, <4>1
      <4>3. QED
        BY <3>2, <4>2
    <3>3. QED
      BY <3>1, <3>2
  <2>2. (Table(g) <=> g = [s \in SUBSET S |-> V(s)]) /\ (Sums(f, S, g) <=> g = [s \in SUBSET S |-> W(s)])
    BY DEF Sums
  <2> HIDE DEF V, W, Table
  <2>3. [s \in SUBSET S |-> V(s)] = [s \in SUBSET S |-> W(s)]
    BY <2>1
  <2>4. QED
    BY <2>2, <2>3
<1>4. MapThenSumSet(BalanceOf, S) = c[S]
  BY DEF MapThenSumSet, MapThenFoldSet
<1> HIDE DEF Table
<1>5. PICK g \in [SUBSET S -> Int] : Sums(f, S, g)
  BY <1>2, SumsExist
<1>6. Table(c)
  BY <1>3, <1>5
<1> HIDE DEF c
<1>7. Sums(f, S, c)
  BY <1>3, <1>6
<1>8. c[S] = g[S]
  <2>1. IsFiniteSet(S)
    BY <1>2
  <2>2. QED
    BY <1>5, <1>7, <2>1, OneTable
<1>9. QED
  BY <1>4, <1>5, <1>8

\* A session that shows a projection shows one in order, or is still to make it.
MoneyOK(w) ==
  /\ w.balance \in Int
  /\ w.agg.now.net \in Int /\ w.agg.now.income \in Nat
  /\ w.kind \in {"digest", "projection"} => Occurs(w.todo, "projection") \/ Ordered(w.shown)

MoneyInv == \A s \in Sessions : MoneyOK(work[s])

LEMMA NoSessionMoney == MoneyOK(NoSession)
<1>1. /\ NoSession.balance = 0 /\ NoSession.kind = "none"
      /\ NoSession.agg = Aggregates({}, {})
  BY DEF NoSession, NoAggregates
<1>2. Aggregates({}, {}).now.net \in Int /\ Aggregates({}, {}).now.income \in Nat
  BY AggregatesAreNumbers
<1>3. QED
  BY <1>1, <1>2 DEF MoneyOK

\* s goes on after a query with the numbers it may have.
LEMMA MoneyGoes ==
  ASSUME Inv, MoneyInv, NEW s \in Sessions, NEW x, At(s, x),
         NEW w, Goes(s, w), DOMAIN w = Fields, w.kind = work[s].kind, w.balance \in Int,
         w.agg.now.net \in Int, w.agg.now.income \in Nat,
         Ordered(w.shown) \/ (w.shown = work[s].shown /\ x # "projection")
  PROVE  MoneyInv'
<1> DEFINE q == work[s].todo
           v == [w EXCEPT !.todo = Tail(q)]
<1>1. DOMAIN work = Sessions /\ MoneyOK(work[s]) /\ Head(q) = x /\ ScriptOK(q)
  BY DEF Inv, RowsInv, SessionOK, MoneyInv, At, InFlight
<1>2. v.todo = Tail(q) /\ \A f \in Fields \ {"todo"} : v[f] = w[f]
  BY DEF Fields
<1>3. work' = [work EXCEPT ![s] = v]
  BY DEF Goes
<1> HIDE DEF v
<1>4. work'[s] = v /\ \A t \in Sessions \ {s} : work'[t] = work[t]
  BY <1>1, <1>3
<1>5. /\ v.kind = work[s].kind /\ v.balance = w.balance /\ v.agg = w.agg
      /\ v.shown = w.shown
  BY <1>2 DEF Fields
<1>6. Occurs(q, "projection") /\ x # "projection" => Occurs(Tail(q), "projection")
  BY <1>1, StillOccurs
<1>7. v.kind \in {"digest", "projection"} => Occurs(v.todo, "projection") \/ Ordered(v.shown)
  BY <1>1, <1>2, <1>5, <1>6 DEF MoneyOK
<1>8. MoneyOK(v)
  BY <1>5, <1>7 DEF MoneyOK
<1>9. QED
  BY <1>4, <1>8 DEF MoneyInv

LEMMA MoneyAssign ==
  ASSUME Inv, MoneyInv, NEW s \in Sessions, NEW x, At(s, x), x # "projection",
         NEW f \in {"accs", "now", "kpi", "sheet", "hides", "balance", "open",
                    "seeds", "sent", "left", "cfg"},
         NEW e, Goes(s, [work[s] EXCEPT ![f] = e]), f = "balance" => e \in Int
  PROVE  MoneyInv'
<1> DEFINE w == [work[s] EXCEPT ![f] = e]
<1>1. DOMAIN work[s] = Fields /\ MoneyOK(work[s])
  BY DEF Inv, RowsInv, SessionOK, MoneyInv
<1>2. DOMAIN w = Fields /\ w[f] = e /\ \A g \in Fields \ {f} : w[g] = work[s][g]
  BY <1>1 DEF Fields
<1>3. Goes(s, w)
  OBVIOUS
<1> HIDE DEF w
<1>4. /\ w.kind = work[s].kind /\ w.agg = work[s].agg /\ w.shown = work[s].shown
      /\ w.balance = IF f = "balance" THEN e ELSE work[s].balance
  BY <1>2 DEF Fields
<1>5. QED
  BY <1>1, <1>2, <1>3, <1>4, MoneyGoes DEF MoneyOK

LEMMA MoneySame ==
  ASSUME Inv, MoneyInv, NEW s \in Sessions, NEW x, At(s, x), x # "projection",
         Goes(s, work[s])
  PROVE  MoneyInv'
<1>1. DOMAIN work[s] = Fields /\ MoneyOK(work[s])
  BY DEF Inv, RowsInv, SessionOK, MoneyInv
<1>2. QED
  BY <1>1, MoneyGoes DEF MoneyOK

\* A session is over, disturbed, or goes on with the households it has left.
LEMMA MoneyKept ==
  ASSUME Inv, MoneyInv,
         \A t \in Sessions : \/ work'[t] = NoSession \/ work'[t] = work[t]
                             \/ work'[t] = Disturbed(t, work[t])
                             \/ \E e : work'[t] = [work[t] EXCEPT !.left = e]
  PROVE  MoneyInv'
<1> SUFFICES ASSUME NEW t \in Sessions PROVE MoneyOK(work'[t])
  BY DEF MoneyInv
<1>1. DOMAIN work[t] = Fields /\ MoneyOK(work[t])
  BY DEF Inv, RowsInv, SessionOK, MoneyInv
<1>2. CASE work'[t] = NoSession
  BY <1>2, NoSessionMoney
<1>3. CASE work'[t] = work[t]
  BY <1>1, <1>3
<1>4. ASSUME NEW f \in {"calm", "left"}, NEW e, work'[t] = [work[t] EXCEPT ![f] = e]
      PROVE  MoneyOK(work'[t])
  <2> DEFINE v == [work[t] EXCEPT ![f] = e]
  <2>1. /\ v.kind = work[t].kind /\ v.balance = work[t].balance /\ v.agg = work[t].agg
        /\ v.shown = work[t].shown /\ v.todo = work[t].todo
    BY <1>1 DEF Fields
  <2>2. work'[t] = v
    BY <1>4
  <2> HIDE DEF v
  <2>3. QED
    BY <1>1, <2>1, <2>2 DEF MoneyOK
<1>5. QED
  BY <1>2, <1>3, <1>4 DEF Disturbed

LEMMA MoneyBegun ==
  ASSUME Inv, MoneyInv, NEW p \in Sessions, NEW h,
         NEW k \in {"digest", "kpis", "sheet", "projection", "update", "start", "all"},
         work' = [work EXCEPT ![p] = Begun(k, h)]
  PROVE  MoneyInv'
<1> DEFINE v == Begun(k, h)
<1>1. /\ v.kind = k /\ v.todo = Script[k] /\ v.balance = NoSession.balance
      /\ v.agg = NoSession.agg
  BY DEF Begun, NoSession
<1>2. work'[p] = v /\ \A t \in Sessions \ {p} : work'[t] = work[t]
  BY DEF Inv, RowsInv, v
<1> HIDE DEF v
<1>3. MoneyOK(v)
  BY <1>1, ConfigScripts, NoSessionMoney DEF MoneyOK
<1>4. QED
  BY <1>2, <1>3 DEF MoneyInv

LEMMA MoneyPrevious ==
  ASSUME Inv, KnowInv, MoneyInv, NEW s \in Sessions, SelectPrevious(s)
  PROVE  MoneyInv'
<1> DEFINE e == Aggregates(work[s].now, Counted(work[s].accs, Before))
           w == [work[s] EXCEPT !.agg = e, !.now = {}]
<1>1. /\ Goes(s, w) /\ At(s, "previous") /\ DOMAIN work[s] = Fields /\ MoneyOK(work[s])
      /\ work[s].now \in SUBSET Bookings
  BY DEF SelectPrevious, Inv, RowsInv, SessionOK, MoneyInv, KnowInv, KnowsOK
<1>2. e.now.net \in Int /\ e.now.income \in Nat
  BY <1>1, AggregatesAreNumbers
<1> HIDE DEF e
<1>3. /\ DOMAIN w = Fields /\ w.kind = work[s].kind /\ w.balance = work[s].balance
      /\ w.agg = e /\ w.shown = work[s].shown
  BY <1>1 DEF Fields
<1> HIDE DEF w
<1>4. QED
  BY <1>1, <1>2, <1>3, MoneyGoes DEF MoneyOK

LEMMA MoneySnapshots ==
  ASSUME Inv, MoneyInv, NEW s \in Sessions, SaveSnapshots(s), ~Raise(s)
  PROVE  MoneyInv'
<1> DEFINE e == [k \in DOMAIN Builtin |-> Compute(Builtin[k], work[s].agg)]
           w == [work[s] EXCEPT !.holds = TRUE, !.kpi = e]
<1>1. Goes(s, w) /\ At(s, "snapshots") /\ DOMAIN work[s] = Fields /\ MoneyOK(work[s])
  BY DEF SaveSnapshots, Inv, RowsInv, SessionOK, MoneyInv
<1> HIDE DEF e
<1>2. /\ DOMAIN w = Fields /\ w.kind = work[s].kind /\ w.balance = work[s].balance
      /\ w.agg = work[s].agg /\ w.shown = work[s].shown
  BY <1>1 DEF Fields
<1> HIDE DEF w
<1>3. QED
  BY <1>1, <1>2, MoneyGoes DEF MoneyOK

LEMMA MoneyConfig ==
  ASSUME Inv, MoneyInv, NEW s \in Sessions, LoadConfig(s), ~Raise(s)
  PROVE  MoneyInv'
<1> DEFINE w == [work[s] EXCEPT !.cfg = Default, !.makes = TRUE, !.holds = TRUE]
<1>1. At(s, "config") /\ DOMAIN work[s] = Fields /\ MoneyOK(work[s])
  BY DEF LoadConfig, Inv, RowsInv, SessionOK, MoneyInv
<1>2. CASE \E e : Goes(s, [work[s] EXCEPT !.cfg = e])
  BY <1>1, <1>2, MoneyAssign
<1>3. CASE Goes(s, w)
  <2>1. /\ DOMAIN w = Fields /\ w.kind = work[s].kind /\ w.balance = work[s].balance
        /\ w.agg = work[s].agg /\ w.shown = work[s].shown
    BY <1>1 DEF Fields
  <2> HIDE DEF w
  <2>2. QED
    BY <1>1, <1>3, <2>1, MoneyGoes DEF MoneyOK
<1>4. QED
  BY <1>2, <1>3 DEF LoadConfig

LEMMA MoneyProjection ==
  ASSUME Inv, KnowInv, PlaceInv, MoneyInv, NEW s \in Sessions, SaveProjection(s), ~Raise(s)
  PROVE  MoneyInv'
<1> DEFINE c == work[s].cfg
           g == work[s].agg
           n == work[s].balance
           e == Project(n, g, c)
           w == [work[s] EXCEPT !.holds = TRUE, !.shown = e]
<1>1. /\ Goes(s, w) /\ At(s, "projection") /\ DOMAIN work[s] = Fields /\ KnowsOK(work[s])
      /\ MoneyOK(work[s]) /\ c.inflation # -Hundred
      /\ Head(work[s].todo) = "projection" /\ work[s].todo # <<>> /\ PlaceOK(work[s])
  BY DEF SaveProjection, Inv, RowsInv, SessionOK, ScriptOK, KnowInv, PlaceInv, MoneyInv, At, InFlight
<1>2. Computable(c)
  BY <1>1, ConfigLoaded DEF KnowsOK, Computable
<1>3. n \in Int /\ g.now.net \in Int /\ g.now.income \in Nat
  BY <1>1 DEF MoneyOK
<1> HIDE DEF c, n, g
<1>4. Ordered(e)
  BY <1>2, <1>3, ProjectionOrdered
<1> HIDE DEF e
<1>5. /\ DOMAIN w = Fields /\ w.kind = work[s].kind /\ w.balance = work[s].balance
      /\ w.agg = work[s].agg /\ w.shown = e
  BY <1>1 DEF Fields
<1> HIDE DEF w
<1>6. QED
  BY <1>1, <1>4, <1>5, MoneyGoes DEF MoneyOK

LEMMA MoneyQueries ==
  ASSUME Inv, DataInv, MoneyInv, NEW s \in Sessions,
         \/ SelectAccounts(s) \/ SelectPeriod(s) \/ SelectSheetAccounts(s)
         \/ SelectSheet(s) \/ SelectBalances(s) \/ CountUncategorized(s)
         \/ Seed(s) \/ UpdateConfig(s) \/ HideAccounts(s) \/ Send(s) \/ SelectUsers(s)
  PROVE  MoneyInv'
<1>1. CASE SelectBalances(s)
  <2> DEFINE A == {a \in shared : Owner[a] = work[s].h}
             e == MapThenSumSet(BalanceOf, A)
  <2>1. A \in SUBSET Accounts /\ booked \in SUBSET Bookings
    BY DEF DataInv
  <2>2. Goes(s, [work[s] EXCEPT !.balance = e]) /\ At(s, "balances")
    BY <1>1 DEF SelectBalances
  <2> HIDE DEF A
  <2>3. e \in Int
    BY <2>1, BalancesAreNumbers
  <2> HIDE DEF e
  <2>4. QED
    BY <2>2, <2>3, MoneyAssign
<1>2. CASE SelectAccounts(s) \/ SelectSheetAccounts(s)
  BY <1>2, MoneyAssign DEF SelectAccounts, SelectSheetAccounts
<1>3. CASE SelectPeriod(s) \/ SelectSheet(s)
  BY <1>3, MoneyAssign DEF SelectPeriod, SelectSheet
<1>4. CASE CountUncategorized(s) \/ UpdateConfig(s)
  BY <1>4, MoneyAssign DEF CountUncategorized, UpdateConfig
<1>5. CASE Seed(s) \/ SelectUsers(s)
  BY <1>5, MoneyAssign DEF Seed, SelectUsers
<1>6. CASE HideAccounts(s)
  <2>1. CASE Goes(s, work[s])
    BY <1>6, <2>1, MoneySame DEF HideAccounts
  <2>2. CASE \E e : Goes(s, [work[s] EXCEPT !.hides = e])
    BY <1>6, <2>2, MoneyAssign DEF HideAccounts
  <2>3. QED
    BY <1>6, <2>1, <2>2 DEF HideAccounts
<1>7. CASE Send(s)
  BY <1>7, MoneySame, MoneyAssign DEF Send
<1>8. QED
  BY <1>1, <1>2, <1>3, <1>4, <1>5, <1>6, <1>7

LEMMA NextMoney == Inv /\ DataInv /\ KnowInv /\ PlaceInv /\ MoneyInv /\ [Next]_vars => MoneyInv'
<1> SUFFICES ASSUME Inv, DataInv, KnowInv, PlaceInv, MoneyInv, [Next]_vars PROVE MoneyInv'
  OBVIOUS
<1>0. DOMAIN work = Sessions /\ Workers \subseteq Sessions /\ Requests \subseteq Sessions
  BY DEF Inv, RowsInv, Sessions
<1>1. ASSUME NEW s \in Sessions, Step(s) PROVE MoneyInv'
  <2>1. CASE Raise(s)
    <3>1. \A t \in Sessions : work'[t] = NoSession \/ work'[t] = work[t]
      BY <1>0, <2>1 DEF Raise, Leaves
    <3>2. QED
      BY <3>1, MoneyKept
  <2>2. CASE Commit(s)
    <3>1. \A t \in Sessions : \/ work'[t] = NoSession \/ work'[t] = work[t]
                              \/ work'[t] = Disturbed(t, work[t])
      BY <2>2 DEF Commit
    <3>2. QED
      BY <3>1, MoneyKept
  <2>3. CASE Delay(s)
    <3>1. \A t \in Sessions : \/ work'[t] = NoSession \/ work'[t] = work[t]
                              \/ \E e : work'[t] = [work[t] EXCEPT !.left = e]
      BY <1>0, <2>3 DEF Delay, Leaves
    <3>2. QED
      BY <3>1, MoneyKept
  <2>4. CASE ~Raise(s) /\ ~Commit(s) /\ ~Delay(s)
    BY <1>1, <2>4, MoneyQueries, MoneyPrevious, MoneySnapshots, MoneyProjection, MoneyConfig
       DEF Step
  <2>5. QED
    BY <2>1, <2>2, <2>3, <2>4
<1>2. ASSUME NEW p \in Workers, NEW m \in Messages, Take(p, m) PROVE MoneyInv'
  <2>1. CASE UNCHANGED work
    BY <2>1, MoneyKept
  <2>2. CASE \E k \in {"digest", "all"} : work' = [work EXCEPT ![p] = Begun(k, m)]
    BY <1>0, <2>2, MoneyBegun
  <2>3. QED
    BY <1>2, <2>1, <2>2 DEF Take
<1>3. ASSUME NEW r \in Requests, Begin(r) PROVE MoneyInv'
  <2>1. PICK a \in Asked : work' = [work EXCEPT ![r] = Begun(a[1], a[2])]
    BY <1>3 DEF Begin
  <2>2. a[1] \in {"kpis", "sheet", "projection", "update", "start"}
    BY DataAssumption
  <2>3. QED
    BY <1>0, <2>1, <2>2, MoneyBegun
<1>4. CASE (\E p \in Workers : Kill(p)) \/ Deploy \/ UNCHANGED vars
  <2>1. \A t \in Sessions : work'[t] = NoSession \/ work'[t] = work[t]
    BY <1>0, <1>4 DEF Kill, Deploy, vars
  <2>2. QED
    BY <2>1, MoneyKept
<1>5. CASE Edit \/ \E h \in Households : Delete(h)
  <2>1. \A t \in Sessions : work'[t] = Disturbed(t, work[t])
    BY <1>5 DEF Edit, Delete
  <2>2. QED
    BY <2>1, MoneyKept
<1>6. QED
  BY <1>0, <1>1, <1>2, <1>3, <1>4, <1>5 DEF Next, Works

LEMMA MoneyOrdered == Inv /\ PlaceInv /\ MoneyInv => ProjectionsAreOrdered
<1> SUFFICES ASSUME Inv, PlaceInv, MoneyInv PROVE ProjectionsAreOrdered
  OBVIOUS
<1>1. ASSUME NEW s \in Sessions, Committing(s, {"digest", "projection"})
      PROVE  Ordered(work[s].shown)
  <2> DEFINE w == work[s]
  <2>1. /\ w.kind \in {"digest", "projection"} /\ Head(w.todo) = "commit" /\ w.todo # <<>>
        /\ PlaceOK(w) /\ MoneyOK(w)
    BY <1>1 DEF Committing, At, InFlight, Inv, RowsInv, SessionOK, ScriptOK, PlaceInv, MoneyInv
  <2> HIDE DEF w
  <2>2. ~Occurs(w.todo, "projection")
    BY <2>1, ConfigLoaded
  <2>3. Ordered(w.shown)
    BY <2>1, <2>2 DEF MoneyOK
  <2>4. QED
    BY <2>3 DEF w
<1>2. QED
  BY <1>1 DEF ProjectionsAreOrdered, Ordered

\* For every household that saves, whatever rates and whatever horizon that is not negative
\* it has configured, and however the data changed between the queries: the what-if values
\* are in the order of what is put aside, and without deflation the real value is at most the nominal one (project_future_value,
\* compute_full_projection).
THEOREM ProjectionsStayOrdered == Spec => []ProjectionsAreOrdered
<1>1. Init => MoneyInv
  BY NoSessionMoney DEF Init, MoneyInv, Sessions
<1>2. Init => Inv /\ DueInv /\ CalmInv /\ DataInv /\ KnowInv
  BY InitInv, InitDue, InitCalm, InitKnows
<1>3. Inv /\ DueInv /\ CalmInv /\ DataInv /\ KnowInv /\ MoneyInv /\ [Next]_vars
      => (Inv /\ DueInv /\ CalmInv /\ DataInv /\ KnowInv /\ MoneyInv)'
  BY NextInv, NextDue, NextCalm, NextData, NextKnows, NextMoney DEF CalmInv
<1>4. Inv /\ CalmInv /\ MoneyInv => ProjectionsAreOrdered
  BY MoneyOrdered DEF CalmInv
<1>5. QED
  BY <1>1, <1>2, <1>3, <1>4, PTL DEF Spec
=============================================================================
