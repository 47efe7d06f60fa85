--------------------------- MODULE BankSyncProofs ---------------------------
(***************************************************************************)
(* Theorems about BankSync, for every number of banks, rows, requests and  *)
(* dialogs.                                                                *)
(***************************************************************************)
EXTENDS BankSync, TLAPS

-----------------------------------------------------------------------------
(* Types *)

\* The fields of a request that are set at each place of it.
PlaceOK(q) ==
  /\ q.pc \in {"incr", "connect", "mark", "import", "fetch", "booking"}
       => q.conn \in Conns
  /\ q.pc = "tan" => q.kind \in {"confirm", "tan"}
  /\ q.pc = "tan" /\ q.kind = "confirm" => q.conn \in Conns
  /\ q.pc \in {"tan", "import", "fetch", "store", "accounts", "upsert", "booking"}
       => q.dlg \in Dialogs

TypeInv == TypeOK /\ \A r \in Requests : PlaceOK(req[r])

LEMMA NoRequestType == NoRequest \in Request /\ PlaceOK(NoRequest)
BY DEF NoRequest, Request, PlaceOK, Places, Kinds, NoConn, Statuses, Keep

LEMMA InitType == Init => TypeInv
<1> SUFFICES ASSUME Init PROVE TypeInv
  OBVIOUS
<1>1. PICK n \in 0..MaxConns : InitialBlz \in [1..n -> Banks]
  BY BoundsAssumption
<1>2. rows \subseteq Conns /\ rows = 1..n
  <2>1. MaxConns \in Nat
    BY BoundsAssumption
  <2>2. rows = 1..n
    BY <1>1 DEF Init
  <2>3. 1..n \subseteq 1..MaxConns
    BY <2>1
  <2>4. QED
    BY <2>2, <2>3 DEF Conns
<1>3. blz \in [Conns -> Banks \cup {NoBank}]
  BY <1>1, <1>2 DEF Init
<1>4. status \in [Conns -> Statuses]
  BY BoundsAssumption DEF Init, Statuses
<1>5. pin \subseteq Conns
  BY <1>2, BoundsAssumption DEF Init
<1>6. req \in [Requests -> Request] /\ \A r \in Requests : PlaceOK(req[r])
  BY NoRequestType DEF Init
<1>7. redisUp \in BOOLEAN
  BY DEF Init
<1>8. /\ phase \in [Dialogs -> Phases]
      /\ login \in [Dialogs -> Banks \cup {NoBank}]
      /\ sessions \in [Dialogs -> Banks \cup {NoBank}]
      /\ pending \in Pending \cup {NoPending}
  BY DEF Init, Phases
<1>11. starts \in [Conns -> 0..2]
  <2>1. starts = [c \in Conns |-> 0]
    BY DEF Init
  <2>2. QED
    BY <2>1
<1>9. /\ synced \subseteq Conns /\ limited \subseteq Conns
      /\ scan \subseteq Conns /\ fresh \subseteq Conns
      /\ granted \subseteq Dialogs /\ told \subseteq Dialogs
  BY DEF Init
<1>10. QED
  BY <1>2, <1>3, <1>4, <1>5, <1>6, <1>7, <1>8, <1>9, <1>11 DEF TypeInv, TypeOK

\* A step that replaces one request by a good one keeps the types of req.
LEMMA RequestStep ==
  ASSUME TypeInv, NEW r \in Requests,
         req' = [req EXCEPT ![r] = req'[r]], req'[r] \in Request, PlaceOK(req'[r])
  PROVE  req' \in [Requests -> Request] /\ \A p \in Requests : PlaceOK(req'[p])
BY DEF TypeInv, TypeOK

\* Ending a row in the loop of start_household_sync.
LEMMA LoopOnType ==
  ASSUME TypeInv, NEW r \in Requests, NEW c \in Conns
  PROVE  LoopOn(r, c) \in Request /\ LoopOn(r, c).pc \in {"commit", "rate"}
<1>1. req[r] \in Request
  BY DEF TypeInv, TypeOK
<1>2. QED
  BY <1>1 DEF LoopOn, Request, Places, NoConn

\* Writing a status the code knows.
LEMMA SetStatusType ==
  ASSUME TypeInv, NEW r \in Requests, NEW c \in Conns, NEW s \in Statuses
  PROVE  SetStatus(r, c, s) \in [Conns -> Statuses \cup {Keep}]
BY DEF TypeInv, TypeOK, SetStatus, Request

\* A login.
LEMMA OpenType ==
  ASSUME TypeInv, NEW d \in Dialogs, NEW b \in Banks \cup {NoBank},
         NEW tan \in BOOLEAN, Open(d, b, tan)
  PROVE  /\ phase' \in [Dialogs -> Phases]
         /\ login' \in [Dialogs -> Banks \cup {NoBank}]
         /\ granted' \subseteq Dialogs /\ told' \subseteq Dialogs
BY DEF TypeInv, TypeOK, Open, Phases

LEMMA CloseType ==
  ASSUME TypeInv, NEW d \in Dialogs, Close(d)
  PROVE  /\ phase' \in [Dialogs -> Phases]
         /\ login' \in [Dialogs -> Banks \cup {NoBank}]
         /\ granted' \subseteq Dialogs
BY DEF TypeInv, TypeOK, Close, Phases

\* What upsert_bank_connection leaves in the request: w is written to row c, the
\* one it found or a new one.
Upserted(r, s, next, c, w) ==
  /\ IF req[r].conn = NoConn THEN NextRow(c) ELSE c = req[r].conn /\ Free(r, c)
  /\ w = IF req[r].conn = NoConn THEN [req[r].wrote EXCEPT ![c] = s]
                                 ELSE SetStatus(r, c, s)
  /\ req' = [req EXCEPT ![r] = req'[r]]
  /\ req'[r] = [req[r] EXCEPT !.conn = c, !.pc = next,
                              !.wpin = req[r].wpin \cup {c}, !.wrote = w]

LEMMA UpsertShape ==
  ASSUME TypeInv, NEW r \in Requests, NEW s \in Statuses, NEW next, Upsert(r, s, next)
  PROVE  \E c \in Conns, w \in [Conns -> Statuses \cup {Keep}] :
           Upserted(r, s, next, c, w)
<1>1. req \in [Requests -> Request] /\ req[r] \in Request
  BY DEF TypeInv, TypeOK
<1>2. PICK c \in Conns :
        /\ IF req[r].conn = NoConn THEN NextRow(c) ELSE c = req[r].conn /\ Free(r, c)
        /\ req' = [req EXCEPT ![r].conn = c, ![r].pc = next,
             ![r].wpin  = @ \cup {c},
             ![r].wrote = IF req[r].conn = NoConn THEN [@ EXCEPT ![c] = s]
                                                  ELSE SetStatus(r, c, s)]
  BY DEF Upsert
<1> DEFINE w == IF req[r].conn = NoConn THEN [req[r].wrote EXCEPT ![c] = s]
                                        ELSE SetStatus(r, c, s)
<1>3. w \in [Conns -> Statuses \cup {Keep}]
  <2>1. [req[r].wrote EXCEPT ![c] = s] \in [Conns -> Statuses \cup {Keep}]
    BY <1>1 DEF Request
  <2>2. QED
    BY <2>1, SetStatusType
<1>4. /\ req' = [req EXCEPT ![r] = req'[r]]
      /\ req'[r] = [req[r] EXCEPT !.conn = c, !.pc = next,
                                  !.wpin = req[r].wpin \cup {c}, !.wrote = w]
  BY <1>1, <1>2
<1>5. Upserted(r, s, next, c, w)
  BY <1>2, <1>4 DEF Upserted
<1>6. QED
  BY <1>3, <1>5

\* The fields upsert_bank_connection leaves alone.
LEMMA UpsertFields ==
  ASSUME TypeInv, NEW r \in Requests, NEW s \in Statuses, NEW next \in Places,
         Upsert(r, s, next)
  PROVE  /\ req' = [req EXCEPT ![r] = req'[r]]
         /\ \A p \in Requests \ {r} : req'[p] = req[p]
         /\ req'[r] \in Request /\ req'[r].pc = next /\ req'[r].conn \in Conns
         /\ req'[r].kind = req[r].kind /\ req'[r].bank = req[r].bank
         /\ req'[r].dlg = req[r].dlg /\ req'[r].tan = req[r].tan
         /\ req'[r].todo = req[r].todo /\ req'[r].seen = req[r].seen
         /\ req'[r].wsync = req[r].wsync /\ req'[r].booked = req[r].booked
<1>1. req \in [Requests -> Request] /\ req[r] \in Request
  BY DEF TypeInv, TypeOK
<1>2. PICK c \in Conns, w \in [Conns -> Statuses \cup {Keep}] :
        Upserted(r, s, next, c, w)
  BY UpsertShape
<1>3. /\ req' = [req EXCEPT ![r] = req'[r]]
      /\ req'[r] = [req[r] EXCEPT !.conn = c, !.pc = next,
                                  !.wpin = req[r].wpin \cup {c}, !.wrote = w]
  BY <1>2 DEF Upserted
<1>4. \A p \in Requests \ {r} : req'[p] = req[p]
  BY <1>1, <1>3
<1>5. req'[r] \in Request
  <2>1. req[r].wpin \cup {c} \in SUBSET Conns /\ c \in Conns \cup {NoConn}
    BY <1>1 DEF Request
  <2>2. QED
    BY <1>1, <1>3, <2>1 DEF Request
<1>6. /\ req'[r].pc = next /\ req'[r].conn \in Conns
      /\ req'[r].kind = req[r].kind /\ req'[r].bank = req[r].bank
      /\ req'[r].dlg = req[r].dlg /\ req'[r].tan = req[r].tan
      /\ req'[r].todo = req[r].todo /\ req'[r].seen = req[r].seen
      /\ req'[r].wsync = req[r].wsync /\ req'[r].booked = req[r].booked
  BY <1>1, <1>3 DEF Request
<1>7. QED
  BY <1>3, <1>4, <1>5, <1>6

LEMMA UpsertType ==
  ASSUME TypeInv, NEW r \in Requests, NEW s \in Statuses, NEW next \in Places,
         req[r].dlg \in Dialogs, next \in {"commit", "accounts", "booking"},
         Upsert(r, s, next)
  PROVE  /\ req' = [req EXCEPT ![r] = req'[r]]
         /\ req'[r] \in Request /\ PlaceOK(req'[r])
<1>1. /\ req' = [req EXCEPT ![r] = req'[r]]
      /\ req'[r] \in Request /\ req'[r].pc = next
      /\ req'[r].conn \in Conns /\ req'[r].dlg = req[r].dlg
  BY UpsertFields
<1>2. QED
  BY <1>1 DEF PlaceOK

\* What the first part of _fetch_and_store_accounts leaves in the request.
Fetched(r, c, s) ==
  /\ req' = [req EXCEPT ![r] = req'[r]]
  /\ req'[r] = [req[r] EXCEPT !.pc = "upsert", !.conn = c, !.seen = s]
  /\ (c = NoConn /\ Linked(r, req[r].bank) = {}) \/ c \in Linked(r, req[r].bank)

LEMMA FetchShape ==
  ASSUME TypeInv, NEW r \in Requests, FetchAccounts(r)
  PROVE  \E c \in Conns \cup {NoConn}, s \in [Conns -> Statuses] : Fetched(r, c, s)
<1>1. req \in [Requests -> Request] /\ req[r] \in Request
  BY DEF TypeInv, TypeOK
<1>2. /\ req[r].wpin \subseteq Conns
      /\ req[r].seen \in [Conns -> Statuses] /\ status \in [Conns -> Statuses]
  BY <1>1 DEF Request, TypeInv, TypeOK
<1>3. PICK c \in IF Linked(r, req[r].bank) = {} THEN {NoConn} ELSE Linked(r, req[r].bank) :
        req' = [req EXCEPT ![r].pc = "upsert", ![r].conn = c,
                  ![r].seen = IF c = NoConn \/ c \in req[r].wpin THEN @
                              ELSE [@ EXCEPT ![c] = status[c]]]
  BY DEF FetchAccounts
<1>4. (c = NoConn /\ Linked(r, req[r].bank) = {}) \/ c \in Linked(r, req[r].bank)
  BY <1>3
<1>5. c \in Conns \cup {NoConn}
  <2>1. Linked(r, req[r].bank) \subseteq Conns
    BY <1>2 DEF Linked, TypeInv, TypeOK
  <2>2. QED
    BY <1>4, <2>1
<1> DEFINE s == IF c = NoConn \/ c \in req[r].wpin THEN req[r].seen
                ELSE [req[r].seen EXCEPT ![c] = status[c]]
<1>6. s \in [Conns -> Statuses]
  BY <1>2, <1>5
<1>7. /\ req' = [req EXCEPT ![r] = req'[r]]
      /\ req'[r] = [req[r] EXCEPT !.pc = "upsert", !.conn = c, !.seen = s]
  BY <1>1, <1>3
<1>8. Fetched(r, c, s)
  BY <1>4, <1>7 DEF Fetched
<1>9. QED
  BY <1>5, <1>6, <1>8

\* What the end of _fetch_and_store_accounts leaves in the request.
LEMMA LinkEndShape ==
  ASSUME TypeInv, NEW r \in Requests, LinkEnd(r)
  PROVE  \E k \in SUBSET Conns :
           req' = [req EXCEPT ![r] = [req[r] EXCEPT !.pc = "commit", !.booked = k]]
<1>1. req[r] \in Request /\ PlaceOK(req[r])
  BY DEF TypeInv, TypeOK
<1>2. PICK stored \in {FALSE, req[r].pc = "booking"} :
        req' = [req EXCEPT ![r].pc = "commit",
          ![r].booked = IF stored THEN @ \cup {req[r].conn} ELSE @]
  BY DEF LinkEnd
<1> DEFINE k == IF stored THEN req[r].booked \cup {req[r].conn} ELSE req[r].booked
<1>3. req' = [req EXCEPT ![r] = [req[r] EXCEPT !.pc = "commit", !.booked = k]]
  BY <1>2
<1>4. k \in SUBSET Conns
  <2>1. stored => req[r].conn \in Conns
    BY <1>1, <1>2 DEF PlaceOK
  <2>2. QED
    BY <1>1, <2>1 DEF Request
<1>5. QED
  BY <1>3, <1>4

\* Constants of the model that the provers need as facts.
LEMMA Names ==
  /\ {"idle", "syncing", "error", "stale"} \subseteq Statuses
  /\ {"commit", "accounts", "booking"} \subseteq Places
BY DEF Statuses, Places

LEMMA NextType == TypeInv /\ [Next]_vars => TypeInv'
<1> SUFFICES ASSUME TypeInv, [Next]_vars PROVE TypeInv'
  OBVIOUS
<1>0. /\ req \in [Requests -> Request]
      /\ \A r \in Requests : req[r] \in Request /\ PlaceOK(req[r])
  BY DEF TypeInv, TypeOK
<1>1. ASSUME NEW r \in Requests, NEW c \in Conns, RateLimitRead(r, c)
      PROVE  TypeInv'
  <2>1. CASE redisUp /\ c \in limited
    <3>1. req' = [req EXCEPT ![r] = LoopOn(r, c)] /\ PlaceOK(LoopOn(r, c))
      BY <1>1, <2>1, LoopOnType DEF RateLimitRead, PlaceOK
    <3>2. QED
      BY <1>0, <1>1, <3>1, LoopOnType, RequestStep
         DEF RateLimitRead, TypeInv, TypeOK, db, redis, bank, history
  <2>2. CASE ~(redisUp /\ c \in limited)
    <3>1. PICK p \in {"incr", "connect"} :
             req' = [req EXCEPT ![r] = [req[r] EXCEPT !.conn = c, !.pc = p]]
      BY <1>0, <1>1, <2>2 DEF RateLimitRead
    <3>2. req'[r] = [req[r] EXCEPT !.conn = c, !.pc = p]
      BY <1>0, <3>1
    <3>3. req'[r] \in Request /\ PlaceOK(req'[r])
      BY <1>0, <3>2 DEF Request, PlaceOK, Places
    <3>4. QED
      BY <1>0, <1>1, <3>1, <3>3, RequestStep
         DEF RateLimitRead, TypeInv, TypeOK, db, redis, bank, history
  <2>3. QED
    BY <2>1, <2>2
<1>2. ASSUME NEW r \in Requests, RateLimitCount(r)
      PROVE  TypeInv'
  <2>1. /\ req' = [req EXCEPT ![r] = [req[r] EXCEPT !.pc = "connect"]]
        /\ req'[r] = [req[r] EXCEPT !.pc = "connect"]
    BY <1>0, <1>2 DEF RateLimitCount
  <2>4. req'[r] \in Request /\ PlaceOK(req'[r])
    BY <1>0, <1>2, <2>1 DEF RateLimitCount, Request, PlaceOK, Places
  <2>2. limited' \subseteq Conns
    BY <1>0, <1>2 DEF RateLimitCount, PlaceOK, TypeInv, TypeOK
  <2>3. QED
    BY <1>2, <2>1, <2>2, <2>4, RequestStep
       DEF RateLimitCount, TypeInv, TypeOK, db, bank, history
<1>3. ASSUME NEW r \in Requests, LoginRefused(r)
      PROVE  TypeInv'
  <2>1. req[r].conn \in Conns
    BY <1>0, <1>3 DEF LoginRefused, PlaceOK
  <2>2. /\ LoopOn(r, req[r].conn) \in Request
        /\ LoopOn(r, req[r].conn).pc \in {"commit", "rate"}
    BY <2>1, LoopOnType
  <2>3. SetStatus(r, req[r].conn, "error") \in [Conns -> Statuses \cup {Keep}]
    BY <2>1, SetStatusType DEF Statuses
  <2>4. /\ req' = [req EXCEPT ![r] = req'[r]]
        /\ req'[r] \in Request /\ PlaceOK(req'[r])
    BY <1>0, <1>3, <2>2, <2>3 DEF LoginRefused, Request, PlaceOK
  <2>5. QED
    BY <1>3, <2>4, RequestStep
       DEF LoginRefused, TypeInv, TypeOK, db, redis, bank, history
<1>4. ASSUME NEW r \in Requests, NEW d \in Dialogs, LoginNeedsApproval(r, d)
      PROVE  TypeInv'
  <2>1. req[r].conn \in Conns
    BY <1>0, <1>4 DEF LoginNeedsApproval, PlaceOK
  <2>2. blz[req[r].conn] \in Banks \cup {NoBank}
    BY <2>1 DEF TypeInv, TypeOK
  <2>3. /\ req' = [req EXCEPT ![r] = req'[r]]
        /\ req'[r] \in Request /\ PlaceOK(req'[r])
    BY <1>0, <1>4 DEF LoginNeedsApproval, Request, PlaceOK, Places, NoConn
  <2>4. pending' \in Pending
    BY <1>4, <2>1 DEF LoginNeedsApproval, Pending
  <2>5. starts' \in [Conns -> 0..2]
    BY <1>4, <2>1 DEF LoginNeedsApproval, CountStart, TypeInv, TypeOK
  <2>6. QED
    BY <1>4, <2>2, <2>3, <2>4, <2>5, RequestStep, OpenType
       DEF LoginNeedsApproval, TypeInv, TypeOK, db, redis
<1>5. ASSUME NEW r \in Requests, NEW d \in Dialogs, LoginOpens(r, d)
      PROVE  TypeInv'
  <2>1. req[r].conn \in Conns
    BY <1>0, <1>5 DEF LoginOpens, PlaceOK
  <2>2. blz[req[r].conn] \in Banks \cup {NoBank}
    BY <2>1 DEF TypeInv, TypeOK
  <2>3. /\ req' = [req EXCEPT ![r] = req'[r]]
        /\ req'[r] \in Request /\ PlaceOK(req'[r])
    BY <1>0, <1>5, <2>1 DEF LoginOpens, Request, PlaceOK, Places
  <2>4. starts' \in [Conns -> 0..2]
    BY <1>5, <2>1 DEF LoginOpens, CountStart, TypeInv, TypeOK
  <2>5. QED
    BY <1>5, <2>2, <2>3, <2>4, RequestStep, OpenType
       DEF LoginOpens, TypeInv, TypeOK, db, redis
<1>6. ASSUME NEW r \in Requests, TanAccepted(r)
      PROVE  TypeInv'
  <2>1. PICK p \in {"import", "accounts", "commit"} :
          /\ req' = [req EXCEPT ![r] = [req[r] EXCEPT !.pc = p]]
          /\ p = "import" => req[r].kind = "confirm"
    BY <1>0, <1>6 DEF TanAccepted
  <2>2. req'[r] = [req[r] EXCEPT !.pc = p]
    BY <1>0, <2>1
  <2>3. req'[r] \in Request
    BY <1>0, <2>2 DEF Request, Places
  <2>4. PlaceOK(req'[r])
    BY <1>0, <1>6, <2>1, <2>2 DEF TanAccepted, Request, PlaceOK
  <2>5. phase' \in [Dialogs -> Phases]
    BY <1>6 DEF TanAccepted, TypeInv, TypeOK, Phases
  <2>6. QED
    BY <1>6, <2>1, <2>2, <2>3, <2>4, <2>5, RequestStep
       DEF TanAccepted, TypeInv, TypeOK, db, redis, history
<1>7. ASSUME NEW r \in Requests, TanRefused(r)
      PROVE  TypeInv'
  <2>1. ASSUME NEW p \in {"mark", "commit"},
               p = "mark" => req[r].conn \in Conns,
               req' = [req EXCEPT ![r].pc = p]
        PROVE  req' \in [Requests -> Request] /\ \A q \in Requests : PlaceOK(req'[q])
    <3>1. /\ req' = [req EXCEPT ![r] = req'[r]]
          /\ req'[r] = [req[r] EXCEPT !.pc = p]
      BY <1>0, <2>1
    <3>2. req'[r] \in Request
      BY <1>0, <3>1 DEF Request, Places
    <3>3. req'[r].pc = p /\ req'[r].conn = req[r].conn
      BY <1>0, <3>1 DEF Request
    <3>4. PlaceOK(req'[r])
      BY <2>1, <3>3 DEF PlaceOK
    <3>5. QED
      BY <3>1, <3>2, <3>4, RequestStep
  <2>2. ASSUME NEW c \in rows,
               req' = [req EXCEPT ![r].pc = "mark", ![r].conn = c,
                                  ![r].seen = [@ EXCEPT ![c] = status[c]]]
        PROVE  req' \in [Requests -> Request] /\ \A q \in Requests : PlaceOK(req'[q])
    <3>1. c \in Conns /\ status[c] \in Statuses
      BY DEF TypeInv, TypeOK
    <3>2. [req[r].seen EXCEPT ![c] = status[c]] \in [Conns -> Statuses]
      BY <1>0, <3>1 DEF Request
    <3>3. /\ req' = [req EXCEPT ![r] = req'[r]]
          /\ req'[r] = [req[r] EXCEPT !.pc = "mark", !.conn = c,
                          !.seen = [req[r].seen EXCEPT ![c] = status[c]]]
      BY <1>0, <2>2
    <3>4. req'[r] \in Request /\ PlaceOK(req'[r])
      BY <1>0, <3>1, <3>2, <3>3 DEF Request, PlaceOK, Places
    <3>5. QED
      BY <3>3, <3>4, RequestStep
  <2>3. req[r].kind = "confirm" => req[r].conn \in Conns
    BY <1>0, <1>7 DEF TanRefused, PlaceOK
  <2>4. req' \in [Requests -> Request] /\ \A q \in Requests : PlaceOK(req'[q])
    BY <1>7, <2>1, <2>2, <2>3 DEF TanRefused
  <2>5. told' \subseteq Dialogs
    BY <1>0, <1>7 DEF TanRefused, PlaceOK, TypeInv, TypeOK
  <2>6. QED
    BY <1>7, <2>4, <2>5 DEF TanRefused, TypeInv, TypeOK, db, redis, bank
<1>8. ASSUME NEW r \in Requests, MarkError(r) \/ ImportBegin(r)
      PROVE  TypeInv'
  <2>1. req[r].conn \in Conns
    BY <1>0, <1>8 DEF MarkError, ImportBegin, PlaceOK
  <2>2. PICK w \in [Conns -> Statuses \cup {Keep}], p \in {"commit", "fetch"} :
          /\ req' = [req EXCEPT ![r].wrote = w, ![r].pc = p]
          /\ p = "fetch" => req[r].pc = "import"
    BY <1>8, <2>1, SetStatusType DEF MarkError, ImportBegin, Statuses
  <2>3. /\ req' = [req EXCEPT ![r] = req'[r]]
        /\ req'[r] = [req[r] EXCEPT !.wrote = w, !.pc = p]
    BY <1>0, <2>2
  <2>4. req'[r] \in Request /\ PlaceOK(req'[r])
    BY <1>0, <2>1, <2>2, <2>3 DEF Request, PlaceOK, Places
  <2>5. QED
    BY <1>8, <2>3, <2>4, RequestStep
       DEF MarkError, ImportBegin, TypeInv, TypeOK, db, redis, bank, history
<1>9. ASSUME NEW r \in Requests, ImportEnd(r)
      PROVE  TypeInv'
  <2> DEFINE c == req[r].conn
             w == SetStatus(r, c, "idle")
  <2>1. c \in Conns /\ req[r].dlg \in Dialogs
    BY <1>0, <1>9 DEF ImportEnd, PlaceOK
  <2>2. w \in [Conns -> Statuses \cup {Keep}]
    BY <2>1, SetStatusType DEF Statuses
  <2>3. PICK q \in Request :
          /\ req' = [req EXCEPT ![r] = Imported(q, c, w)]
          /\ q.pc \in {"commit", "rate"}
    <3>1. [req[r] EXCEPT !.pc = "commit"] \in Request
      BY <1>0 DEF Request, Places
    <3>2. [req[r] EXCEPT !.pc = "commit"].pc = "commit"
      BY <1>0 DEF Request
    <3>3. QED
      BY <1>9, <2>1, <3>1, <3>2, LoopOnType DEF ImportEnd
  <2>4. Imported(q, c, w) \in Request /\ PlaceOK(Imported(q, c, w))
    BY <2>1, <2>2, <2>3 DEF Imported, Request, PlaceOK
  <2>5. /\ req' = [req EXCEPT ![r] = req'[r]]
        /\ req'[r] \in Request /\ PlaceOK(req'[r])
    BY <1>0, <2>3, <2>4
  <2>6. QED
    BY <1>9, <2>1, <2>5, RequestStep, CloseType
       DEF ImportEnd, TypeInv, TypeOK, db, redis, history
<1>10. ASSUME NEW r \in Requests, LinkStore(r)
       PROVE  TypeInv'
  <2>1. req[r].dlg \in Dialogs
    BY <1>0, <1>10 DEF LinkStore, PlaceOK
  <2>2. /\ req' = [req EXCEPT ![r] = req'[r]]
        /\ req'[r] \in Request /\ PlaceOK(req'[r])
    BY <1>10, <2>1, UpsertType DEF LinkStore, Statuses, Places
  <2>3. sessions' \in [Dialogs -> Banks \cup {NoBank}]
    BY <1>0, <1>10, <2>1 DEF LinkStore, TypeInv, TypeOK, Request
  <2>4. QED
    BY <1>10, <2>2, <2>3, RequestStep
       DEF LinkStore, TypeInv, TypeOK, db, redis, bank, history
<1>11. ASSUME NEW r \in Requests, StoreAccounts(r)
       PROVE  TypeInv'
  <2>1. req[r].dlg \in Dialogs
    BY <1>0, <1>11 DEF StoreAccounts, PlaceOK
  <2>2. /\ req' = [req EXCEPT ![r] = req'[r]]
        /\ req'[r] \in Request /\ PlaceOK(req'[r])
    BY <1>11, <2>1, UpsertType DEF StoreAccounts, Statuses, Places
  <2>3. QED
    BY <1>11, <2>2, RequestStep
       DEF StoreAccounts, TypeInv, TypeOK, db, redis, bank, history
<1>12. ASSUME NEW r \in Requests, FetchAccounts(r)
       PROVE  TypeInv'
  <2>1. PICK c \in Conns \cup {NoConn}, s \in [Conns -> Statuses] : Fetched(r, c, s)
    BY <1>12, FetchShape
  <2>2. req[r].dlg \in Dialogs
    BY <1>0, <1>12 DEF FetchAccounts, PlaceOK
  <2>3. /\ req' = [req EXCEPT ![r] = req'[r]]
        /\ req'[r] = [req[r] EXCEPT !.pc = "upsert", !.conn = c, !.seen = s]
    BY <2>1 DEF Fetched
  <2>4. req'[r] \in Request /\ PlaceOK(req'[r])
    BY <1>0, <2>2, <2>3 DEF Request, PlaceOK, Places
  <2>5. QED
    BY <1>12, <2>3, <2>4, RequestStep
       DEF FetchAccounts, TypeInv, TypeOK, db, redis, bank, history
<1>13. ASSUME NEW r \in Requests, LinkEnd(r)
       PROVE  TypeInv'
  <2>1. req[r].dlg \in Dialogs
    BY <1>0, <1>13 DEF LinkEnd, PlaceOK
  <2>2. PICK booked \in SUBSET Conns :
          req' = [req EXCEPT ![r] = [req[r] EXCEPT !.pc = "commit", !.booked = booked]]
    BY <1>13, LinkEndShape
  <2>3. /\ req' = [req EXCEPT ![r] = req'[r]]
        /\ req'[r] = [req[r] EXCEPT !.pc = "commit", !.booked = booked]
    BY <1>0, <2>2
  <2>4. req'[r] \in Request /\ PlaceOK(req'[r])
    <3>1. req'[r] \in Request
      BY <1>0, <2>3 DEF Request, Places
    <3>2. req'[r].pc = "commit"
      BY <1>0, <2>3 DEF Request
    <3>3. QED
      BY <3>1, <3>2 DEF PlaceOK
  <2>5. sessions' \in [Dialogs -> Banks \cup {NoBank}]
    BY <1>13, <2>1 DEF LinkEnd, TypeInv, TypeOK
  <2>6. QED
    BY <1>13, <2>1, <2>3, <2>4, <2>5, RequestStep, CloseType
       DEF LinkEnd, TypeInv, TypeOK, db, redis, history
<1>14. ASSUME NEW r \in Requests, Commit(r)
       PROVE  TypeInv'
  <2>1. /\ req' = [req EXCEPT ![r] = NoRequest]
        /\ req' = [req EXCEPT ![r] = req'[r]]
        /\ req'[r] = NoRequest
    BY <1>0, <1>14 DEF Commit
  <2>2. /\ req[r].wpin \subseteq Conns /\ req[r].wsync \subseteq Conns
        /\ req[r].booked \subseteq Conns
        /\ req[r].wrote \in [Conns -> Statuses \cup {Keep}]
        /\ req[r].bank \in Banks \cup {NoBank}
    BY <1>0 DEF Request
  <2>3. blz' \in [Conns -> Banks \cup {NoBank}]
    BY <1>14, <2>2 DEF Commit, TypeInv, TypeOK
  <2>4. status' \in [Conns -> Statuses]
    BY <1>14, <2>2 DEF Commit, TypeInv, TypeOK
  <2>5. /\ rows' \subseteq Conns /\ pin' \subseteq Conns
        /\ synced' \subseteq Conns /\ fresh' \subseteq Conns
    BY <1>14, <2>2 DEF Commit, TypeInv, TypeOK
  <2>6. req' \in [Requests -> Request] /\ \A p \in Requests : PlaceOK(req'[p])
    BY <2>1, NoRequestType, RequestStep
  <2>7. QED
    BY <1>14, <2>3, <2>4, <2>5, <2>6
       DEF Commit, TypeInv, TypeOK, redis, bank
<1>15. ASSUME NEW r \in Requests, StartHouseholdSync(r)
       PROVE  TypeInv'
  <2>1. [c \in Conns |-> IF c \in rows THEN status[c] ELSE "idle"]
          \in [Conns -> Statuses]
    BY DEF TypeInv, TypeOK, Statuses
  <2>2. /\ req' = [req EXCEPT ![r] = req'[r]]
        /\ req'[r] = [NoRequest EXCEPT !.pc = "rate", !.kind = "sync",
                        !.todo = Syncable,
                        !.seen = [c \in Conns |-> IF c \in rows THEN status[c]
                                                  ELSE "idle"]]
    BY <1>0, <1>15 DEF StartHouseholdSync
  <2>3. Syncable \subseteq Conns
    BY DEF Syncable, TypeInv, TypeOK
  <2>4. req'[r] \in Request /\ PlaceOK(req'[r])
    BY <2>1, <2>2, <2>3, NoRequestType DEF Request, PlaceOK, Places, Kinds
  <2>5. QED
    BY <1>15, <2>2, <2>4, RequestStep
       DEF StartHouseholdSync, TypeInv, TypeOK, db, redis, bank, history
<1>16. ASSUME NEW r \in Requests, ConfirmHouseholdSync(r)
       PROVE  TypeInv'
  <2>1. pending.conn \in Conns /\ pending.dlg \in Dialogs
    BY <1>16 DEF ConfirmHouseholdSync, TypeInv, TypeOK, Pending
  <2>2. [NoRequest.seen EXCEPT ![pending.conn] = status[pending.conn]]
          \in [Conns -> Statuses]
    BY <2>1, NoRequestType DEF TypeInv, TypeOK, Request
  <2>3. /\ req' = [req EXCEPT ![r] = req'[r]]
        /\ req'[r] = [NoRequest EXCEPT !.pc = "tan", !.kind = "confirm",
             !.conn = pending.conn, !.dlg = pending.dlg,
             !.seen = [NoRequest.seen EXCEPT ![pending.conn] = status[pending.conn]]]
    BY <1>0, <1>16 DEF ConfirmHouseholdSync
  <2>4. req'[r] \in Request /\ PlaceOK(req'[r])
    BY <2>1, <2>2, <2>3, NoRequestType DEF Request, PlaceOK, Places, Kinds
  <2>5. QED
    BY <1>16, <2>3, <2>4, RequestStep
       DEF ConfirmHouseholdSync, TypeInv, TypeOK, db, redis, bank, history
<1>17. ASSUME NEW r \in Requests, NEW b \in Banks, NEW d \in Dialogs,
              NEW tan \in BOOLEAN, LinkConnect(r, b, d, tan)
       PROVE  TypeInv'
  <2>1. PICK c \in IF Linked(r, b) = {} THEN {NoConn} ELSE Linked(r, b) :
          req' = [req EXCEPT ![r] =
            [NoRequest EXCEPT !.pc = "store", !.kind = "link", !.bank = b,
               !.dlg = d, !.tan = tan, !.conn = c,
               !.seen = IF c = NoConn THEN @ ELSE [@ EXCEPT ![c] = status[c]]]]
    BY <1>17 DEF LinkConnect
  <2>2. c \in Conns \cup {NoConn}
    <3>1. req[r].wpin \subseteq Conns
      BY <1>0 DEF Request
    <3>2. Linked(r, b) \subseteq Conns
      BY <3>1 DEF Linked, TypeInv, TypeOK
    <3>3. QED
      BY <2>1, <3>2
  <2> DEFINE s == IF c = NoConn THEN NoRequest.seen
                  ELSE [NoRequest.seen EXCEPT ![c] = status[c]]
  <2>3. s \in [Conns -> Statuses]
    <3>1. NoRequest.seen \in [Conns -> Statuses] /\ status \in [Conns -> Statuses]
      BY NoRequestType DEF Request, TypeInv, TypeOK
    <3>2. QED
      BY <2>2, <3>1
  <2>4. /\ req' = [req EXCEPT ![r] = req'[r]]
        /\ req'[r] = [NoRequest EXCEPT !.pc = "store", !.kind = "link", !.bank = b,
                        !.dlg = d, !.tan = tan, !.conn = c, !.seen = s]
    BY <1>0, <2>1
  <2>5. req'[r] \in Request /\ PlaceOK(req'[r])
    <3>1. req'[r] \in Request
      BY <2>2, <2>3, <2>4, NoRequestType DEF Request, Places, Kinds
    <3>2. req'[r].pc = "store" /\ req'[r].dlg = d
      BY <2>4, NoRequestType DEF Request
    <3>3. QED
      BY <3>1, <3>2 DEF PlaceOK
  <2>6. QED
    BY <1>17, <2>4, <2>5, RequestStep, OpenType
       DEF LinkConnect, TypeInv, TypeOK, db, redis
<1>18. ASSUME NEW r \in Requests, NEW d \in Dialogs, SubmitTan(r, d)
       PROVE  TypeInv'
  <2>1. sessions[d] \in Banks
    BY <1>18 DEF SubmitTan, TypeInv, TypeOK
  <2>2. /\ req' = [req EXCEPT ![r] = req'[r]]
        /\ req'[r] = [NoRequest EXCEPT !.pc = "tan", !.kind = "tan", !.dlg = d,
                                       !.bank = sessions[d]]
    BY <1>0, <1>18 DEF SubmitTan
  <2>3. req'[r] \in Request /\ PlaceOK(req'[r])
    <3>1. req'[r] \in Request
      BY <2>1, <2>2, NoRequestType DEF Request, Places, Kinds
    <3>2. req'[r].pc = "tan" /\ req'[r].dlg = d /\ req'[r].kind = "tan"
      BY <2>2, NoRequestType DEF Request
    <3>3. QED
      BY <3>1, <3>2 DEF PlaceOK
  <2>4. QED
    BY <1>18, <2>2, <2>3, RequestStep
       DEF SubmitTan, TypeInv, TypeOK, db, redis, bank, history
<1>19. ASSUME NEW r \in Requests, ImportRaises(r) \/ LinkRaises(r)
       PROVE  TypeInv'
  <2>1. req[r].dlg \in Dialogs
    BY <1>0, <1>19 DEF ImportRaises, LinkRaises, PlaceOK
  <2>2. req' = [req EXCEPT ![r] = req'[r]] /\ req'[r] = NoRequest
    BY <1>0, <1>19 DEF ImportRaises, LinkRaises
  <2>3. sessions' \in [Dialogs -> Banks \cup {NoBank}]
    BY <1>19, <2>1 DEF ImportRaises, LinkRaises, TypeInv, TypeOK
  <2>4. QED
    BY <1>19, <2>1, <2>2, <2>3, NoRequestType, RequestStep, CloseType
       DEF ImportRaises, LinkRaises, TypeInv, TypeOK, db, redis, history
<1>20. ASSUME NEW r \in Requests, RollBack(r)
       PROVE  TypeInv'
  <2>1. req' = [req EXCEPT ![r] = req'[r]] /\ req'[r] = NoRequest
    BY <1>0, <1>20 DEF RollBack
  <2>2. QED
    BY <1>20, <2>1, NoRequestType, RequestStep
       DEF RollBack, TypeInv, TypeOK, db, redis, bank, history
<1>21. CASE StaleScan
  BY <1>21 DEF StaleScan, TypeInv, TypeOK, db, redis, bank, history
<1>22. CASE StaleMark
  <2>1. status' \in [Conns -> Statuses]
    BY <1>22 DEF StaleMark, TypeInv, TypeOK, Statuses
  <2>2. QED
    BY <1>22, <2>1 DEF StaleMark, TypeInv, TypeOK, redis, bank, history
<1>23. ASSUME NEW d \in Dialogs, Approve(d) \/ Expire(d)
       PROVE  TypeInv'
  <2>1. phase' \in [Dialogs -> Phases] /\ granted' \subseteq Dialogs
    BY <1>23, CloseType DEF Approve, Expire, TypeInv, TypeOK, Phases
  <2>2. QED
    BY <1>23, <2>1
       DEF Approve, Expire, Close, TypeInv, TypeOK, db, redis, history
<1>24. ASSUME NEW c \in Conns, HourPasses(c) \/ MonthPasses(c)
       PROVE  TypeInv'
  <2>1. starts' \in [Conns -> 0..2]
    BY <1>24 DEF HourPasses, MonthPasses, TypeInv, TypeOK
  <2>2. QED
    BY <1>24, <2>1
       DEF HourPasses, MonthPasses, TypeInv, TypeOK, db, redis, bank
<1>25. CASE RedisFails \/ RedisRecovers
  BY <1>25 DEF RedisFails, RedisRecovers, TypeInv, TypeOK, db, bank, history
<1>26. CASE Restart
  BY <1>26, NoRequestType DEF Restart, TypeInv, TypeOK, db, redis, bank, history
<1>27. CASE UNCHANGED vars
  BY <1>27 DEF vars, TypeInv, TypeOK, db, redis, bank, history
<1>28. QED
  BY <1>1, <1>2, <1>3, <1>4, <1>5, <1>6, <1>7, <1>8, <1>9, <1>10, <1>11, <1>12,
     <1>13, <1>14, <1>15, <1>16, <1>17, <1>18, <1>19, <1>20, <1>21, <1>22, <1>23,
     <1>24, <1>25, <1>26, <1>27
     DEF Next, Proceed, Interfere, World

\* Every variable keeps its type, whatever the constants: every request knows the
\* connection and the dialog it works on where the handlers use them.
THEOREM TypeCorrect == Spec => []TypeOK
<1>1. Spec => []TypeInv
  BY InitType, NextType, PTL DEF Spec
<1>2. TypeInv => TypeOK
  BY DEF TypeInv
<1>3. QED
  BY <1>1, <1>2, PTL

-----------------------------------------------------------------------------
(* Approval *)

\* What a request knows of the approval of its dialog.
Granted(r) ==
  /\ req[r].pc \in {"import", "fetch", "accounts", "upsert", "booking"}
       => req[r].dlg \in granted
  /\ req[r].pc = "store" /\ ~req[r].tan => req[r].dlg \in granted

ApprovalInv ==
  /\ \A d \in Dialogs : phase[d] \in {"approved", "open"} => d \in granted
  /\ \A r \in Requests : Granted(r)

\* A step of r that takes no dialog out of granted.
LEMMA GrantedStep ==
  ASSUME TypeInv, ApprovalInv, NEW r \in Requests,
         \A p \in Requests \ {r} : req'[p] = req[p],
         granted \subseteq granted', Granted(r)',
         \A d \in Dialogs : phase'[d] \in {"approved", "open"} =>
           phase[d] \in {"approved", "open"} \/ d \in granted'
  PROVE  ApprovalInv'
BY DEF ApprovalInv, Granted

\* A login of r: no other request refers to the dialog it opens.
LEMMA GrantedOpen ==
  ASSUME TypeInv, ApprovalInv, NEW r \in Requests,
         \A p \in Requests \ {r} : req'[p] = req[p],
         NEW d \in Dialogs, NEW b, NEW tan \in BOOLEAN, Open(d, b, tan),
         Granted(r)'
  PROVE  ApprovalInv'
<1>1. \A e \in Dialogs : phase'[e] \in {"approved", "open"} => e \in granted'
  BY DEF Open, ApprovalInv, TypeInv, TypeOK
<1>2. \A p \in Requests \ {r} : Granted(p)'
  BY DEF Open, Fresh, ApprovalInv, Granted
<1>3. QED
  BY <1>1, <1>2 DEF ApprovalInv

LEMMA NextApproval == TypeInv /\ ApprovalInv /\ [Next]_vars => ApprovalInv'
<1> SUFFICES ASSUME TypeInv, ApprovalInv, [Next]_vars PROVE ApprovalInv'
  OBVIOUS
<1>0. /\ req \in [Requests -> Request]
      /\ \A r \in Requests : req[r] \in Request /\ PlaceOK(req[r]) /\ Granted(r)
  BY DEF TypeInv, TypeOK, ApprovalInv
<1> USE <1>0
<1>1. ASSUME NEW r \in Requests, NEW c \in Conns, RateLimitRead(r, c)
      PROVE  ApprovalInv'
  <2>1. req'[r].pc \in {"commit", "rate", "incr", "connect"}
    BY <1>1, LoopOnType DEF RateLimitRead, Request
  <2>2. QED
    BY <1>1, <2>1, GrantedStep DEF RateLimitRead, bank, Granted
<1>2. ASSUME NEW r \in Requests, RateLimitCount(r)
      PROVE  ApprovalInv'
  <2>1. req'[r].pc = "connect"
    BY <1>2 DEF RateLimitCount, Request
  <2>2. QED
    BY <1>2, <2>1, GrantedStep DEF RateLimitCount, bank, Granted
<1>3. ASSUME NEW r \in Requests, LoginRefused(r)
      PROVE  ApprovalInv'
  <2>1. req[r].conn \in Conns
    BY <1>3 DEF LoginRefused, PlaceOK
  <2>2. req'[r].pc \in {"commit", "rate"}
    BY <1>3, <2>1, LoopOnType DEF LoginRefused, Request
  <2>3. QED
    BY <1>3, <2>2, GrantedStep DEF LoginRefused, bank, Granted
<1>4. ASSUME NEW r \in Requests, NEW d \in Dialogs, LoginNeedsApproval(r, d)
      PROVE  ApprovalInv'
  <2>1. req'[r].pc = "commit"
    BY <1>4 DEF LoginNeedsApproval, Request
  <2>2. QED
    BY <1>4, <2>1, GrantedOpen DEF LoginNeedsApproval, Granted
<1>5. ASSUME NEW r \in Requests, NEW d \in Dialogs, LoginOpens(r, d)
      PROVE  ApprovalInv'
  <2>1. req'[r].pc = "import" /\ req'[r].dlg = d
    BY <1>5 DEF LoginOpens, Request
  <2>2. d \in granted'
    BY <1>5 DEF LoginOpens, Open
  <2>3. QED
    BY <1>5, <2>1, <2>2, GrantedOpen DEF LoginOpens, Granted
<1>6. ASSUME NEW r \in Requests, TanAccepted(r)
      PROVE  ApprovalInv'
  <2>1. req'[r].pc \in {"import", "accounts", "commit"} /\ req'[r].dlg = req[r].dlg
    BY <1>6 DEF TanAccepted, Request
  <2>2. req[r].dlg \in granted
    BY <1>6 DEF TanAccepted, Acceptable, ApprovalInv
  <2>3. Granted(r)'
    BY <1>6, <2>1, <2>2 DEF TanAccepted, Granted
  <2>4. QED
    BY <1>6, <2>2, <2>3, GrantedStep DEF TanAccepted, TypeInv, TypeOK
<1>7. ASSUME NEW r \in Requests, TanRefused(r)
      PROVE  ApprovalInv'
  <2>1. req'[r].pc \in {"mark", "commit"}
    <3>1. \/ req' = [req EXCEPT ![r].pc = "mark"]
          \/ req' = [req EXCEPT ![r].pc = "commit"]
          \/ \E c \in rows :
               req' = [req EXCEPT ![r].pc = "mark", ![r].conn = c,
                             ![r].seen = [@ EXCEPT ![c] = status[c]]]
      BY <1>7 DEF TanRefused
    <3>2. QED
      BY <3>1 DEF Request
  <2>2. QED
    BY <1>7, <2>1, GrantedStep DEF TanRefused, bank, Granted
<1>8. ASSUME NEW r \in Requests, MarkError(r)
      PROVE  ApprovalInv'
  <2>1. req'[r].pc = "commit"
    BY <1>8 DEF MarkError, Request
  <2>2. QED
    BY <1>8, <2>1, GrantedStep DEF MarkError, bank, Granted
<1>9. ASSUME NEW r \in Requests, ImportBegin(r)
      PROVE  ApprovalInv'
  <2>1. req'[r].pc = "fetch" /\ req'[r].dlg = req[r].dlg
    BY <1>9 DEF ImportBegin, Request
  <2>2. QED
    BY <1>9, <2>1, GrantedStep DEF ImportBegin, bank, Granted
<1>10. ASSUME NEW r \in Requests,
              ImportEnd(r) \/ ImportRaises(r) \/ LinkRaises(r) \/ LinkEnd(r)
       PROVE  ApprovalInv'
  <2>1. req'[r].pc \in {"commit", "rate", "idle"}
    <3>1. CASE ImportEnd(r)
      <4>1. req[r].conn \in Conns
        BY <3>1 DEF ImportEnd, PlaceOK
      <4>2. PICK q \in Request : /\ q.pc \in {"commit", "rate"}
                                 /\ req'[r] = [q EXCEPT !.wrote  = SetStatus(r, req[r].conn, "idle"),
                                                        !.wsync  = @ \cup {req[r].conn},
                                                        !.booked = @ \cup {req[r].conn}]
        <5>1. /\ [req[r] EXCEPT !.pc = "commit"] \in Request
              /\ [req[r] EXCEPT !.pc = "commit"].pc = "commit"
          BY DEF Request, Places
        <5>2. QED
          BY <3>1, <4>1, <5>1, LoopOnType DEF ImportEnd, Imported
      <4>3. QED
        BY <4>2 DEF Request
    <3>2. CASE ImportRaises(r) \/ LinkRaises(r) \/ LinkEnd(r)
      BY <3>2 DEF ImportRaises, LinkRaises, LinkEnd, Request, NoRequest
    <3>3. QED
      BY <1>10, <3>1, <3>2
  <2>2. \A d \in Dialogs : phase'[d] \in {"approved", "open"}
                             => phase[d] \in {"approved", "open"}
    BY <1>10 DEF ImportEnd, ImportRaises, LinkRaises, LinkEnd, Close, TypeInv, TypeOK
  <2>3. QED
    BY <1>10, <2>1, <2>2, GrantedStep
       DEF ImportEnd, ImportRaises, LinkRaises, LinkEnd, Close, Granted
<1>11. ASSUME NEW r \in Requests, LinkStore(r)
       PROVE  ApprovalInv'
  <2>1. /\ req'[r].dlg = req[r].dlg
        /\ req'[r].pc = IF req[r].tan THEN "commit" ELSE "accounts"
        /\ req' = [req EXCEPT ![r] = req'[r]]
    <3>1. CASE req[r].tan
      BY <1>11, <3>1, UpsertFields, Names DEF LinkStore
    <3>2. CASE ~req[r].tan
      BY <1>11, <3>2, UpsertFields, Names DEF LinkStore
    <3>3. QED
      BY <3>1, <3>2
  <2>2. Granted(r)'
    BY <1>11, <2>1 DEF LinkStore, Granted, bank
  <2>3. QED
    BY <1>11, <2>1, <2>2, GrantedStep DEF LinkStore, bank
<1>12. ASSUME NEW r \in Requests, FetchAccounts(r) \/ StoreAccounts(r)
       PROVE  ApprovalInv'
  <2>1. /\ req'[r].dlg = req[r].dlg
        /\ req'[r].pc \in {"upsert", "booking"}
        /\ \A p \in Requests \ {r} : req'[p] = req[p]
    <3>1. CASE FetchAccounts(r)
      <4>1. PICK c \in Conns \cup {NoConn}, s \in [Conns -> Statuses] : Fetched(r, c, s)
        BY <3>1, FetchShape
      <4>2. QED
        BY <4>1 DEF Fetched, Request
    <3>2. CASE StoreAccounts(r)
      BY <3>2, UpsertFields, Names DEF StoreAccounts
    <3>3. QED
      BY <1>12, <3>1, <3>2
  <2>2. QED
    BY <1>12, <2>1, GrantedStep DEF FetchAccounts, StoreAccounts, bank, Granted
<1>13. ASSUME NEW r \in Requests,
              Commit(r) \/ RollBack(r) \/ StartHouseholdSync(r)
                \/ ConfirmHouseholdSync(r) \/ \E d \in Dialogs : SubmitTan(r, d)
       PROVE  ApprovalInv'
  <2>1. req'[r].pc \in {"idle", "rate", "tan"}
    <3>1. Commit(r) \/ RollBack(r) => req'[r].pc = "idle"
      BY DEF Commit, RollBack, NoRequest
    <3>2. StartHouseholdSync(r) => req'[r].pc = "rate"
      BY NoRequestType DEF StartHouseholdSync, Request
    <3>3. ConfirmHouseholdSync(r) => req'[r].pc = "tan"
      BY NoRequestType DEF ConfirmHouseholdSync, Request
    <3>4. ASSUME NEW d \in Dialogs, SubmitTan(r, d) PROVE req'[r].pc = "tan"
      BY <3>4, NoRequestType DEF SubmitTan, Request
    <3>5. QED
      BY <1>13, <3>1, <3>2, <3>3, <3>4
  <2>2. QED
    BY <1>13, <2>1, GrantedStep
       DEF Commit, RollBack, StartHouseholdSync, ConfirmHouseholdSync, SubmitTan,
           bank, Granted
<1>14. ASSUME NEW r \in Requests, NEW b \in Banks, NEW d \in Dialogs,
              NEW tan \in BOOLEAN, LinkConnect(r, b, d, tan)
       PROVE  ApprovalInv'
  <2>1. req'[r].pc = "store" /\ req'[r].tan = tan /\ req'[r].dlg = d
    BY <1>14, NoRequestType DEF LinkConnect, Request
  <2>2. ~tan => d \in granted'
    BY <1>14 DEF LinkConnect, Open
  <2>3. Granted(r)'
    BY <2>1, <2>2 DEF Granted
  <2>4. QED
    BY <1>14, <2>3, GrantedOpen DEF LinkConnect
<1>15. ASSUME NEW d \in Dialogs, Approve(d) \/ Expire(d)
       PROVE  ApprovalInv'
  BY <1>15 DEF Approve, Expire, Close, ApprovalInv, Granted, TypeInv, TypeOK
<1>16. CASE Restart
  BY <1>16 DEF Restart, NoRequest, ApprovalInv, Granted, bank
<1>17. ASSUME UNCHANGED <<req, bank>>
       PROVE  ApprovalInv'
  BY <1>17 DEF ApprovalInv, Granted, bank
<1>18. QED
  <2>1. ASSUME NEW c \in Conns, HourPasses(c) \/ MonthPasses(c)
        PROVE  UNCHANGED <<req, bank>>
    BY <2>1 DEF HourPasses, MonthPasses
  <2>2. StaleScan \/ StaleMark \/ RedisFails \/ RedisRecovers \/ UNCHANGED vars
          => UNCHANGED <<req, bank>>
    BY DEF StaleScan, StaleMark, RedisFails, RedisRecovers, vars
  <2>3. QED
    BY <1>1, <1>2, <1>3, <1>4, <1>5, <1>6, <1>7, <1>8, <1>9, <1>10, <1>11, <1>12,
       <1>13, <1>14, <1>15, <1>16, <1>17, <2>1, <2>2
       DEF Next, Proceed, Interfere, World

\* Bookings are fetched only over a login the user approved or the bank did not
\* ask to approve, however many requests share a dialog.  The argument: a dialog
\* the bank would accept a TAN in has been approved, and no login reuses a dialog
\* that a request still refers to.
THEOREM ImportsAreApproved == Spec => []ApprovedBeforeImport
<1>1. Init => ApprovalInv
  <2> SUFFICES ASSUME Init PROVE ApprovalInv
    OBVIOUS
  <2>1. \A d \in Dialogs : phase[d] = "unused"
    BY DEF Init
  <2>2. \A r \in Requests : req[r].pc = "idle"
    BY DEF Init, NoRequest
  <2>3. QED
    BY <2>1, <2>2 DEF ApprovalInv, Granted
<1>2. Spec => []TypeInv
  BY InitType, NextType, PTL DEF Spec
<1>3. Spec => []ApprovalInv
  BY <1>1, <1>2, NextApproval, PTL DEF Spec
<1>4. ApprovalInv => ApprovedBeforeImport
  BY DEF ApprovalInv, Granted, ApprovedBeforeImport
<1>5. QED
  BY <1>3, <1>4, PTL

-----------------------------------------------------------------------------
(* Banks *)

\* The row at hand of a request that links is one of its bank, or a new one that
\* nobody else sees.
RowOfBank(q) ==
  \/ q.conn = NoConn
  \/ q.conn \in rows /\ blz[q.conn] = q.bank
  \/ q.conn \in q.wpin \ rows

\* What a request knows of the bank of its dialog and of its row.
RightBank(q) ==
  /\ q.pc = "idle" => q.wpin = {}
  /\ q.pc \in {"store", "accounts", "upsert", "booking"} => q.kind \in {"link", "tan"}
  /\ q.todo \subseteq rows \cap pin
  /\ q.pc \in {"incr", "connect"} => q.conn \in rows \cap pin
  /\ q.pc \in {"import", "fetch"} \/ (q.pc = "tan" /\ q.kind = "confirm")
       => q.conn \in rows \cap pin /\ login[q.dlg] = blz[q.conn]
  /\ q.pc \in {"store", "accounts", "upsert", "booking"}
         \/ (q.pc = "tan" /\ q.kind = "tan")
       => login[q.dlg] = q.bank /\ RowOfBank(q)

\* What is remembered between two requests.
MemoryInv ==
  /\ pending # NoPending =>
       pending.conn \in rows \cap pin /\ login[pending.dlg] = blz[pending.conn]
  /\ \A d \in Dialogs : sessions[d] # NoBank => login[d] = sessions[d]

BankInv ==
  /\ \A r \in Requests : RightBank(req[r])
  /\ \A r, p \in Requests : r # p => req[r].wpin \cap req[p].wpin = {}
  /\ MemoryInv

\* A step of r that leaves the rows, the requests of others and their dialogs alone.
LEMMA RightStep ==
  ASSUME TypeInv, BankInv, NEW r \in Requests,
         \A p \in Requests \ {r} : /\ req'[p] = req[p]
                                   /\ req'[r].wpin \cap req[p].wpin = {}
                                   /\ req[p].dlg \in Dialogs =>
                                        login'[req[p].dlg] = login[req[p].dlg],
         UNCHANGED <<rows, blz, pin>>, RightBank(req[r])', MemoryInv'
  PROVE  BankInv'
<1>1. ASSUME NEW p \in Requests \ {r} PROVE RightBank(req[p])'
  <2>1. RightBank(req[p]) /\ PlaceOK(req[p]) /\ req'[p] = req[p]
    BY DEF BankInv, TypeInv
  <2>2. req[p].pc \in {"tan", "import", "fetch", "store", "accounts", "upsert", "booking"}
          => login'[req[p].dlg] = login[req[p].dlg]
    BY <2>1 DEF PlaceOK
  <2>3. RowOfBank(req[p])' = RowOfBank(req[p])
    BY <2>1 DEF RowOfBank
  <2>4. QED
    BY <2>1, <2>2, <2>3 DEF RightBank
<1>2. \A q, p \in Requests : q # p => req'[q].wpin \cap req'[p].wpin = {}
  BY DEF BankInv
<1>3. QED
  BY <1>1, <1>2 DEF BankInv

\* A step of r that opens no dialog and writes no credentials.
LEMMA RightQuiet ==
  ASSUME TypeInv, BankInv, NEW r \in Requests,
         \A p \in Requests \ {r} : req'[p] = req[p],
         UNCHANGED <<rows, blz, pin, login>>, req'[r].wpin \subseteq req[r].wpin,
         RightBank(req[r])',
         pending' \in {pending, NoPending},
         \A d \in Dialogs : sessions'[d] \in {sessions[d], NoBank}
  PROVE  BankInv'
<1>1. MemoryInv'
  BY DEF BankInv, MemoryInv
<1>2. \A p \in Requests \ {r} : req'[r].wpin \cap req[p].wpin = {}
  BY DEF BankInv
<1>3. QED
  BY <1>1, <1>2, RightStep

\* A login of r that keeps what is remembered, or remembers its own dialog.
LEMMA RightOpen ==
  ASSUME TypeInv, BankInv, NEW r \in Requests, NEW d \in Dialogs,
         NEW b \in Banks \cup {NoBank}, NEW tan \in BOOLEAN, Open(d, b, tan),
         \A p \in Requests \ {r} : req'[p] = req[p],
         UNCHANGED <<rows, blz, pin, sessions>>, req'[r].wpin \subseteq req[r].wpin,
         RightBank(req[r])',
         \/ pending' = pending
         \/ /\ pending' # NoPending /\ pending'.dlg = d
            /\ pending'.conn \in rows \cap pin /\ blz[pending'.conn] = b
  PROVE  BankInv'
<1>1. /\ login' = [login EXCEPT ![d] = b] /\ login \in [Dialogs -> Banks \cup {NoBank}]
      /\ login'[d] = b
  BY DEF Open, TypeInv, TypeOK
<1>2. \A e \in Dialogs \ {d} : login'[e] = login[e]
  BY <1>1
<1>3. MemoryInv'
  <2>1. pending # NoPending => pending.dlg \in Dialogs \ {d}
    BY DEF Open, Fresh, TypeInv, TypeOK, Pending
  <2>2. pending' # NoPending =>
          pending'.conn \in rows \cap pin /\ login'[pending'.dlg] = blz[pending'.conn]
    BY <1>1, <1>2, <2>1 DEF BankInv, MemoryInv
  <2>3. \A e \in Dialogs : sessions[e] # NoBank => e # d /\ login[e] = sessions[e]
    BY DEF Open, Fresh, BankInv, MemoryInv
  <2>4. QED
    BY <1>2, <2>2, <2>3 DEF MemoryInv
<1>4. \A p \in Requests \ {r} : req[p].dlg \in Dialogs =>
        login'[req[p].dlg] = login[req[p].dlg]
  BY <1>2 DEF Open, Fresh
<1>5. \A p \in Requests \ {r} : req'[r].wpin \cap req[p].wpin = {}
  BY DEF BankInv
<1>6. QED
  BY <1>3, <1>4, <1>5, RightStep

\* upsert_bank_connection takes a row that no other request writes, and one of
\* the bank of its request.
LEMMA RightUpsert ==
  ASSUME TypeInv, BankInv, NEW r \in Requests, NEW s \in Statuses, NEW next \in Places,
         req[r].pc \in {"store", "upsert"}, Upsert(r, s, next)
  PROVE  /\ \A p \in Requests \ {r} : req'[r].wpin \cap req[p].wpin = {}
         /\ UNCHANGED <<rows, blz>> => RowOfBank(req[r])'
<1>1. PICK c \in Conns, w \in [Conns -> Statuses \cup {Keep}] :
        Upserted(r, s, next, c, w)
  BY UpsertShape
<1>2. /\ req'[r].conn = c /\ req'[r].wpin = req[r].wpin \cup {c}
      /\ req'[r].bank = req[r].bank
  BY <1>1 DEF Upserted, Request, TypeInv, TypeOK
<1>3. RowOfBank(req[r])
  BY DEF BankInv, RightBank
<1>4. \A p \in Requests \ {r} : c \notin req[p].wpin
  BY <1>1 DEF Upserted, NextRow, Free, Locks
<1>5. \A p \in Requests \ {r} : req'[r].wpin \cap req[p].wpin = {}
  BY <1>2, <1>4 DEF BankInv
<1>6. c \in rows => blz[c] = req[r].bank
  <2>1. CASE req[r].conn = NoConn
    BY <1>1, <2>1 DEF Upserted, NextRow
  <2>2. CASE req[r].conn # NoConn
    BY <1>1, <1>3, <2>2 DEF Upserted, RowOfBank
  <2>3. QED
    BY <2>1, <2>2
<1>7. UNCHANGED <<rows, blz>> => RowOfBank(req[r])'
  BY <1>2, <1>6 DEF RowOfBank
<1>8. QED
  BY <1>5, <1>7

LEMMA NextBank == TypeInv /\ BankInv /\ [Next]_vars => BankInv'
<1> SUFFICES ASSUME TypeInv, BankInv, [Next]_vars PROVE BankInv'
  OBVIOUS
<1>0. /\ req \in [Requests -> Request]
      /\ \A r \in Requests : req[r] \in Request /\ PlaceOK(req[r]) /\ RightBank(req[r])
  BY DEF TypeInv, TypeOK, BankInv
<1> USE <1>0
<1>1. ASSUME NEW r \in Requests, NEW c \in Conns, RateLimitRead(r, c)
      PROVE  BankInv'
  <2>1. /\ req'[r].pc \in {"commit", "rate", "incr", "connect"}
        /\ req'[r].todo \subseteq req[r].todo /\ req'[r].wpin = req[r].wpin
        /\ req'[r].pc \in {"incr", "connect"} => req'[r].conn \in req[r].todo
    BY <1>1 DEF RateLimitRead, IsNext, LoopOn, Request
  <2>2. RightBank(req[r])'
    BY <1>1, <2>1 DEF RateLimitRead, db, RightBank
  <2>3. QED
    BY <1>1, <2>1, <2>2, RightQuiet DEF RateLimitRead, db, bank
<1>2. ASSUME NEW r \in Requests, RateLimitCount(r)
      PROVE  BankInv'
  <2>1. /\ req'[r].pc = "connect" /\ req'[r].conn = req[r].conn
        /\ req'[r].todo = req[r].todo /\ req'[r].wpin = req[r].wpin
    BY <1>2 DEF RateLimitCount, Request
  <2>2. RightBank(req[r])'
    BY <1>2, <2>1 DEF RateLimitCount, db, RightBank
  <2>3. QED
    BY <1>2, <2>1, <2>2, RightQuiet DEF RateLimitCount, db, bank
<1>3. ASSUME NEW r \in Requests, LoginRefused(r)
      PROVE  BankInv'
  <2>1. /\ req'[r].pc \in {"commit", "rate"}
        /\ req'[r].todo \subseteq req[r].todo /\ req'[r].wpin = req[r].wpin
    BY <1>3 DEF LoginRefused, LoopOn, Request
  <2>2. RightBank(req[r])'
    BY <1>3, <2>1 DEF LoginRefused, db, RightBank
  <2>3. QED
    BY <1>3, <2>1, <2>2, RightQuiet DEF LoginRefused, db, bank
<1>4. ASSUME NEW r \in Requests, NEW d \in Dialogs, LoginNeedsApproval(r, d)
      PROVE  BankInv'
  <2>1. req'[r].pc = "commit" /\ req'[r].todo = {} /\ req'[r].wpin = req[r].wpin
    BY <1>4 DEF LoginNeedsApproval, Request
  <2>2. RightBank(req[r])'
    BY <2>1 DEF RightBank
  <2>3. req[r].conn \in rows \cap pin /\ req[r].conn \in Conns
    BY <1>4 DEF LoginNeedsApproval, RightBank, PlaceOK
  <2>4. blz[req[r].conn] \in Banks \cup {NoBank}
    BY <2>3 DEF TypeInv, TypeOK
  <2>5. /\ pending' # NoPending /\ pending'.dlg = d
        /\ pending'.conn = req[r].conn
    BY <1>4, <2>3, NoValueAssumption DEF LoginNeedsApproval
  <2>6. QED
    BY <1>4, <2>1, <2>2, <2>3, <2>4, <2>5, RightOpen DEF LoginNeedsApproval, db
<1>5. ASSUME NEW r \in Requests, NEW d \in Dialogs, LoginOpens(r, d)
      PROVE  BankInv'
  <2>1. /\ req'[r].pc = "import" /\ req'[r].conn = req[r].conn /\ req'[r].dlg = d
        /\ req'[r].todo = req[r].todo /\ req'[r].wpin = req[r].wpin
    BY <1>5 DEF LoginOpens, Request
  <2>2. req[r].conn \in rows \cap pin /\ req[r].conn \in Conns
    BY <1>5 DEF LoginOpens, RightBank, PlaceOK
  <2>3. blz[req[r].conn] \in Banks \cup {NoBank}
    BY <2>2 DEF TypeInv, TypeOK
  <2>4. login'[d] = blz[req[r].conn]
    BY <1>5 DEF LoginOpens, Open, TypeInv, TypeOK
  <2>5. RightBank(req[r])'
    BY <1>5, <2>1, <2>2, <2>4 DEF LoginOpens, db, RightBank
  <2>6. QED
    BY <1>5, <2>1, <2>3, <2>5, RightOpen DEF LoginOpens, db
<1>6. ASSUME NEW r \in Requests, TanAccepted(r)
      PROVE  BankInv'
  <2>1. /\ req'[r].pc = IF req[r].kind = "confirm" THEN "import"
                       ELSE IF sessions[req[r].dlg] = NoBank THEN "commit" ELSE "accounts"
        /\ req'[r].conn = req[r].conn /\ req'[r].dlg = req[r].dlg
        /\ req'[r].kind = req[r].kind /\ req'[r].bank = req[r].bank
        /\ req'[r].todo = req[r].todo /\ req'[r].wpin = req[r].wpin
    BY <1>6 DEF TanAccepted, Request
  <2>2. RowOfBank(req[r])' = RowOfBank(req[r])
    BY <1>6, <2>1 DEF TanAccepted, db, RowOfBank
  <2>3. RightBank(req[r])'
    BY <1>6, <2>1, <2>2 DEF TanAccepted, db, RightBank, PlaceOK
  <2>4. QED
    BY <1>6, <2>1, <2>3, RightQuiet DEF TanAccepted, db
<1>7. ASSUME NEW r \in Requests, TanRefused(r) \/ MarkError(r)
      PROVE  BankInv'
  <2>1. /\ req'[r].pc \in {"mark", "commit"}
        /\ req'[r].todo = req[r].todo /\ req'[r].wpin = req[r].wpin
    <3>1. CASE TanRefused(r)
      <4>1. PICK p \in {"mark", "commit"} :
              \/ req' = [req EXCEPT ![r].pc = p]
              \/ \E c, s : req' = [req EXCEPT ![r].pc = p, ![r].conn = c,
                                            ![r].seen = s]
        BY <3>1 DEF TanRefused
      <4>2. CASE req' = [req EXCEPT ![r].pc = p]
        BY <4>2 DEF Request
      <4>3. ASSUME NEW c, NEW s,
                   req' = [req EXCEPT ![r].pc = p, ![r].conn = c, ![r].seen = s]
            PROVE  /\ req'[r].pc = p /\ req'[r].todo = req[r].todo
                   /\ req'[r].wpin = req[r].wpin
        BY <4>3 DEF Request
      <4>4. QED
        BY <4>1, <4>2, <4>3
    <3>2. CASE MarkError(r)
      BY <3>2 DEF MarkError, Request
    <3>3. QED
      BY <1>7, <3>1, <3>2
  <2>2. RightBank(req[r])'
    BY <1>7, <2>1 DEF TanRefused, MarkError, db, RightBank
  <2>3. QED
    BY <1>7, <2>1, <2>2, RightQuiet DEF TanRefused, MarkError, db, bank
<1>8. ASSUME NEW r \in Requests, ImportBegin(r)
      PROVE  BankInv'
  <2>1. /\ req'[r].pc = "fetch" /\ req'[r].conn = req[r].conn
        /\ req'[r].dlg = req[r].dlg
        /\ req'[r].todo = req[r].todo /\ req'[r].wpin = req[r].wpin
    BY <1>8 DEF ImportBegin, Request
  <2>2. RightBank(req[r])'
    BY <1>8, <2>1 DEF ImportBegin, db, bank, RightBank
  <2>3. QED
    BY <1>8, <2>1, <2>2, RightQuiet DEF ImportBegin, db, bank
<1>9. ASSUME NEW r \in Requests, ImportEnd(r)
      PROVE  BankInv'
  <2>1. PICK q \in Request :
          /\ q.pc \in {"commit", "rate"} /\ q.wpin = req[r].wpin
          /\ q.todo \subseteq req[r].todo
          /\ req'[r] = [q EXCEPT !.wrote  = SetStatus(r, req[r].conn, "idle"),
                                 !.wsync  = @ \cup {req[r].conn},
                                 !.booked = @ \cup {req[r].conn}]
    <3>1. LET q == [req[r] EXCEPT !.pc = "commit"]
          IN  q \in Request /\ q.pc = "commit" /\ q.wpin = req[r].wpin
                /\ q.todo = req[r].todo
      BY DEF Request, Places
    <3>2. req[r].conn \in Conns
      BY <1>9 DEF ImportEnd, PlaceOK
    <3>3. LoopOn(r, req[r].conn).wpin = req[r].wpin
            /\ LoopOn(r, req[r].conn).todo \subseteq req[r].todo
      BY DEF LoopOn, Request
    <3>4. QED
      BY <1>9, <3>1, <3>2, <3>3, LoopOnType DEF ImportEnd, Imported
  <2>2. /\ req'[r].pc \in {"commit", "rate"}
        /\ req'[r].todo \subseteq req[r].todo /\ req'[r].wpin = req[r].wpin
    BY <2>1 DEF Request
  <2>3. RightBank(req[r])'
    BY <1>9, <2>2 DEF ImportEnd, db, RightBank
  <2>4. QED
    BY <1>9, <2>2, <2>3, RightQuiet DEF ImportEnd, Close, db
<1>10. ASSUME NEW r \in Requests, LinkStore(r)
       PROVE  BankInv'
  <2>1. PICK s \in {"syncing", "idle"}, next \in {"commit", "accounts"} :
          Upsert(r, s, next)
    BY <1>10 DEF LinkStore
  <2>2. /\ \A p \in Requests \ {r} : req'[p] = req[p]
        /\ req'[r].pc = next /\ req'[r].kind = req[r].kind
        /\ req'[r].bank = req[r].bank /\ req'[r].dlg = req[r].dlg
        /\ req'[r].todo = req[r].todo
    BY <2>1, UpsertFields, Names
  <2>3. /\ \A p \in Requests \ {r} : req'[r].wpin \cap req[p].wpin = {}
        /\ RowOfBank(req[r])'
    BY <1>10, <2>1, RightUpsert, Names DEF LinkStore, db
  <2>4. login[req[r].dlg] = req[r].bank /\ req[r].dlg \in Dialogs
    BY <1>10 DEF LinkStore, RightBank, PlaceOK
  <2>5. RightBank(req[r])'
    BY <1>10, <2>2, <2>3, <2>4 DEF LinkStore, db, bank, RightBank
  <2>6. MemoryInv'
    BY <1>10, <2>4 DEF LinkStore, db, bank, BankInv, MemoryInv, TypeInv, TypeOK
  <2>7. QED
    BY <1>10, <2>2, <2>3, <2>5, <2>6, RightStep DEF LinkStore, db, bank
<1>11. ASSUME NEW r \in Requests, FetchAccounts(r)
       PROVE  BankInv'
  <2>1. PICK c \in Conns \cup {NoConn}, s \in [Conns -> Statuses] : Fetched(r, c, s)
    BY <1>11, FetchShape
  <2>2. /\ \A q \in Requests \ {r} : req'[q] = req[q]
        /\ req'[r].pc = "upsert" /\ req'[r].conn = c /\ req'[r].dlg = req[r].dlg
        /\ req'[r].kind = req[r].kind /\ req'[r].bank = req[r].bank
        /\ req'[r].todo = req[r].todo /\ req'[r].wpin = req[r].wpin
    BY <2>1 DEF Fetched, Request
  <2>3. /\ RowOfBank(req[r]) /\ login[req[r].dlg] = req[r].bank
        /\ req[r].kind \in {"link", "tan"}
    BY <1>11 DEF FetchAccounts, RightBank
  <2>4. RowOfBank(req[r])'
    BY <1>11, <2>1, <2>2, <2>3 DEF FetchAccounts, db, Fetched, Linked, RowOfBank
  <2>5. RightBank(req[r])'
    BY <1>11, <2>2, <2>3, <2>4 DEF FetchAccounts, db, bank, RightBank
  <2>6. QED
    BY <1>11, <2>2, <2>5, RightQuiet DEF FetchAccounts, db, bank
<1>12. ASSUME NEW r \in Requests, StoreAccounts(r)
       PROVE  BankInv'
  <2>1. /\ \A p \in Requests \ {r} : req'[p] = req[p]
        /\ req'[r].pc = "booking" /\ req'[r].kind = req[r].kind
        /\ req'[r].bank = req[r].bank /\ req'[r].dlg = req[r].dlg
        /\ req'[r].todo = req[r].todo
    BY <1>12, UpsertFields, Names DEF StoreAccounts
  <2>2. /\ \A p \in Requests \ {r} : req'[r].wpin \cap req[p].wpin = {}
        /\ RowOfBank(req[r])'
    BY <1>12, RightUpsert, Names DEF StoreAccounts, db
  <2>3. login[req[r].dlg] = req[r].bank /\ req[r].kind \in {"link", "tan"}
    BY <1>12 DEF StoreAccounts, RightBank
  <2>4. RightBank(req[r])'
    BY <1>12, <2>1, <2>2, <2>3 DEF StoreAccounts, db, bank, RightBank
  <2>5. MemoryInv'
    BY <1>12 DEF StoreAccounts, db, bank, BankInv, MemoryInv
  <2>6. QED
    BY <1>12, <2>1, <2>2, <2>4, <2>5, RightStep DEF StoreAccounts, db, bank
<1>13. ASSUME NEW r \in Requests, LinkEnd(r)
       PROVE  BankInv'
  <2>1. req'[r].pc = "commit" /\ req'[r].todo = req[r].todo
          /\ req'[r].wpin = req[r].wpin
    <3>1. \E w : req' = [req EXCEPT ![r] = [req[r] EXCEPT !.pc = "commit", !.booked = w]]
      BY <1>13, LinkEndShape
    <3>2. QED
      BY <3>1 DEF Request
  <2>2. RightBank(req[r])'
    BY <1>13, <2>1 DEF LinkEnd, db, RightBank
  <2>3. QED
    BY <1>13, <2>1, <2>2, RightQuiet DEF LinkEnd, Close, db, TypeInv, TypeOK
<1>14. ASSUME NEW r \in Requests, Commit(r)
       PROVE  BankInv'
  <2>1. /\ rows' = rows \cup req[r].wpin /\ pin' = pin \cup req[r].wpin
        /\ UNCHANGED <<pending, sessions, login>>
        /\ \A p \in Requests \ {r} : req'[p] = req[p]
        /\ req'[r] = NoRequest
    BY <1>14 DEF Commit, bank
  <2>2. \A c \in rows : blz'[c] = blz[c]
    BY <1>14 DEF Commit, TypeInv, TypeOK
  <2>3. ASSUME NEW p \in Requests \ {r}
        PROVE  RightBank(req[p])'
    <3>1. RowOfBank(req[p]) => RowOfBank(req[p])'
      BY <2>1, <2>2 DEF RowOfBank, BankInv
    <3>2. QED
      BY <2>1, <2>2, <3>1 DEF RightBank
  <2>4. RightBank(req[r])'
    BY <2>1 DEF RightBank, NoRequest
  <2>5. req'[r].wpin = {}
    BY <2>1 DEF NoRequest
  <2>6. \A q, p \in Requests : q # p => req'[q].wpin \cap req'[p].wpin = {}
    BY <2>1, <2>5 DEF BankInv
  <2>7. MemoryInv'
    BY <2>1, <2>2 DEF BankInv, MemoryInv
  <2>8. QED
    BY <2>3, <2>4, <2>6, <2>7 DEF BankInv
<1>15. ASSUME NEW r \in Requests, RollBack(r) \/ ImportRaises(r) \/ LinkRaises(r)
       PROVE  BankInv'
  <2>1. req'[r] = NoRequest
    BY <1>15 DEF RollBack, ImportRaises, LinkRaises
  <2>2. RightBank(req[r])' /\ req'[r].wpin = {}
    BY <2>1 DEF RightBank, NoRequest
  <2>3. QED
    BY <1>15, <2>2, RightQuiet
       DEF RollBack, ImportRaises, LinkRaises, Close, db, bank, TypeInv, TypeOK
<1>16. ASSUME NEW r \in Requests,
              StartHouseholdSync(r) \/ ConfirmHouseholdSync(r)
                \/ \E d \in Dialogs : SubmitTan(r, d)
       PROVE  BankInv'
  <2>1. req'[r].wpin = {} /\ RightBank(req[r])'
    <3>1. CASE StartHouseholdSync(r)
      <4>1. req'[r].pc = "rate" /\ req'[r].todo = Syncable /\ req'[r].wpin = {}
        BY <3>1 DEF StartHouseholdSync, NoRequest
      <4>2. QED
        BY <3>1, <4>1 DEF StartHouseholdSync, db, Syncable, RightBank
    <3>2. CASE ConfirmHouseholdSync(r)
      <4>1. /\ req'[r].pc = "tan" /\ req'[r].kind = "confirm"
            /\ req'[r].conn = pending.conn /\ req'[r].dlg = pending.dlg
            /\ req'[r].todo = {} /\ req'[r].wpin = {}
        BY <3>2 DEF ConfirmHouseholdSync, NoRequest
      <4>2. QED
        BY <3>2, <4>1
           DEF ConfirmHouseholdSync, db, bank, BankInv, MemoryInv, RightBank
    <3>3. ASSUME NEW d \in Dialogs, SubmitTan(r, d)
          PROVE  req'[r].wpin = {} /\ RightBank(req[r])'
      <4>1. /\ req'[r].pc = "tan" /\ req'[r].kind = "tan" /\ req'[r].dlg = d
            /\ req'[r].bank = sessions[d] /\ req'[r].conn = NoConn
            /\ req'[r].todo = {} /\ req'[r].wpin = {}
        BY <3>3 DEF SubmitTan, NoRequest
      <4>2. login[d] = sessions[d]
        BY <3>3 DEF SubmitTan, BankInv, MemoryInv
      <4>3. QED
        BY <3>3, <4>1, <4>2 DEF SubmitTan, db, bank, RightBank, RowOfBank
    <3>4. QED
      BY <1>16, <3>1, <3>2, <3>3
  <2>2. QED
    BY <1>16, <2>1, RightQuiet
       DEF StartHouseholdSync, ConfirmHouseholdSync, SubmitTan, db, bank
<1>17. ASSUME NEW r \in Requests, NEW b \in Banks, NEW d \in Dialogs,
              NEW tan \in BOOLEAN, LinkConnect(r, b, d, tan)
       PROVE  BankInv'
  <2>1. PICK c \in IF Linked(r, b) = {} THEN {NoConn} ELSE Linked(r, b) :
          \E s : req' = [req EXCEPT ![r] =
            [NoRequest EXCEPT !.pc = "store", !.kind = "link", !.bank = b,
               !.dlg = d, !.tan = tan, !.conn = c, !.seen = s]]
    BY <1>17 DEF LinkConnect
  <2>2. /\ req'[r].pc = "store" /\ req'[r].kind = "link" /\ req'[r].bank = b
        /\ req'[r].dlg = d /\ req'[r].conn = c
        /\ req'[r].todo = {} /\ req'[r].wpin = {}
    BY <2>1 DEF NoRequest
  <2>3. login'[d] = b
    BY <1>17 DEF LinkConnect, Open, TypeInv, TypeOK
  <2>4. c = NoConn \/ (c \in rows /\ blz[c] = b)
    <3>1. req[r].wpin = {}
      BY <1>17 DEF LinkConnect, RightBank
    <3>2. QED
      BY <2>1, <3>1 DEF Linked
  <2>5. RightBank(req[r])'
    BY <1>17, <2>2, <2>3, <2>4 DEF LinkConnect, db, RightBank, RowOfBank
  <2>6. QED
    BY <1>17, <2>2, <2>5, RightOpen DEF LinkConnect, db
<1>18. CASE Restart
  <2>1. \A r \in Requests : req'[r] = NoRequest
    BY <1>18 DEF Restart
  <2>2. \A r \in Requests : RightBank(req[r])' /\ req'[r].wpin = {}
    BY <2>1 DEF RightBank, NoRequest
  <2>3. MemoryInv'
    BY <1>18 DEF Restart, MemoryInv
  <2>4. QED
    BY <2>2, <2>3 DEF BankInv
<1>19. ASSUME UNCHANGED <<rows, blz, pin, pending, sessions, req, login>>
       PROVE  BankInv'
  BY <1>19 DEF BankInv, RightBank, RowOfBank, MemoryInv
<1>20. QED
  <2>1. ASSUME NEW c \in Conns, HourPasses(c) \/ MonthPasses(c)
        PROVE  UNCHANGED <<rows, blz, pin, pending, sessions, req, login>>
    BY <2>1 DEF HourPasses, MonthPasses, db, bank
  <2>2. ASSUME NEW d \in Dialogs, Approve(d) \/ Expire(d)
        PROVE  UNCHANGED <<rows, blz, pin, pending, sessions, req, login>>
    BY <2>2 DEF Approve, Expire, Close, db
  <2>3. StaleScan \/ StaleMark \/ RedisFails \/ RedisRecovers \/ UNCHANGED vars
          => UNCHANGED <<rows, blz, pin, pending, sessions, req, login>>
    BY DEF StaleScan, StaleMark, RedisFails, RedisRecovers, vars, db, bank
  <2>4. QED
    BY <1>1, <1>2, <1>3, <1>4, <1>5, <1>6, <1>7, <1>8, <1>9, <1>10, <1>11, <1>12,
       <1>13, <1>14, <1>15, <1>16, <1>17, <1>18, <1>19, <2>1, <2>2, <2>3
       DEF Next, Proceed, Interfere, World

LEMMA InitBank == Init => BankInv
<1> SUFFICES ASSUME Init PROVE BankInv
  OBVIOUS
<1>1. \A r \in Requests : RightBank(req[r]) /\ req[r].wpin = {}
  BY DEF Init, NoRequest, RightBank
<1>2. MemoryInv
  BY DEF Init, MemoryInv
<1>3. QED
  BY <1>1, <1>2 DEF BankInv

\* A dialog is used for the bank it was opened with, whatever the number of banks,
\* links and requests: no two requests hold the credentials of one row, so the row a
\* request works on stays a row of its bank until it commits, and what the app
\* remembers between two requests names such a pair.
THEOREM ImportsKeepToTheirBank == Spec => []ImportsIntoItsBank
<1>1. Init => BankInv
  BY InitBank
<1>2. Spec => []TypeInv
  BY InitType, NextType, PTL DEF Spec
<1>3. Spec => []BankInv
  BY <1>1, <1>2, NextBank, PTL DEF Spec
<1>4. TypeInv /\ BankInv => ImportsIntoItsBank
  <2> SUFFICES ASSUME TypeInv, BankInv PROVE ImportsIntoItsBank
    OBVIOUS
  <2>1. ASSUME NEW r \in Requests, req[r].pc \in {"upsert", "booking"},
               req[r].conn \in rows
        PROVE  login[req[r].dlg] = blz[req[r].conn]
    <3>1. login[req[r].dlg] = req[r].bank /\ RowOfBank(req[r])
      BY <2>1 DEF BankInv, RightBank
    <3>2. req[r].conn # NoConn
      BY <2>1 DEF TypeInv, TypeOK, Conns, NoConn
    <3>3. QED
      BY <2>1, <3>1, <3>2 DEF RowOfBank
  <2>2. QED
    BY <2>1 DEF BankInv, RightBank, MemoryInv, ImportsIntoItsBank
<1>5. QED
  BY <1>2, <1>3, <1>4, PTL

-----------------------------------------------------------------------------
(* Row locks, and what a commit makes visible *)

\* The loop of start_household_sync has left the row at hand.
LoopOK(q) ==
  /\ q.kind = "sync" => q.pc \in {"rate", "incr", "connect", "import", "fetch", "commit"}
  /\ q.pc \in {"rate", "incr", "connect"} => q.kind = "sync"
  /\ q.kind = "sync" /\ q.pc \in {"incr", "connect", "import", "fetch"} => q.conn \in q.todo
  /\ q.kind # "sync" => q.todo = {}
  /\ q.pc = "store" => q.kind = "link"
  /\ q.pc \in {"import", "fetch"} => q.kind \in {"sync", "confirm"}

\* What it has written of the status, all being the rows that exist.
StatusOK(q, all) ==
  /\ \A c \in Conns : q.wrote[c] # Keep => c \in all \cup q.wpin
  /\ \A c \in Conns : q.wrote[c] = "syncing" =>
       (q.pc = "fetch" /\ c = q.conn) \/ (q.pc = "commit" /\ q.kind = "link" /\ q.tan)
  /\ q.pc = "fetch" =>
       q.wrote[q.conn] = "syncing" \/ (q.wrote[q.conn] = Keep /\ q.seen[q.conn] = "syncing")
  /\ q.todo \subseteq all
  /\ q.pc \in {"mark", "import", "fetch"} => q.conn \in all
  /\ q.pc = "tan" /\ q.kind = "confirm" => q.conn \in all

\* What it has imported.
SyncOK(q) ==
  /\ \A c \in q.wsync : q.wrote[c] = "idle" /\ c \in q.booked
  /\ q.wsync \cap q.todo = {}
  /\ q.kind # "sync" /\ q.pc # "commit" => q.wsync = {}

WriteOK(q, all) == LoopOK(q) /\ StatusOK(q, all) /\ SyncOK(q)

\* A flush takes row locks, and no two requests hold the same one.
LockInv ==
  /\ \A r \in Requests : WriteOK(req[r], rows)
  /\ \A r, q \in Requests : r # q => Locks(r) \cap Locks(q) = {}

\* The rows a request in the state q has locked.
Held(q) == {c \in Conns : q.wrote[c] # Keep} \cup q.wpin

LEMMA NoRequestWrites ==
  ASSUME NEW all
  PROVE  WriteOK(NoRequest, all) /\ Held(NoRequest) = {}
BY DEF WriteOK, LoopOK, StatusOK, SyncOK, Held, NoRequest, Keep

LEMMA InitLocks == Init => LockInv
<1> SUFFICES ASSUME Init PROVE LockInv
  OBVIOUS
<1>1. \A r \in Requests : req[r] = NoRequest
  BY DEF Init
<1>2. \A r \in Requests : Locks(r) = Held(req[r])
  BY DEF Locks, Held
<1>3. QED
  BY <1>1, <1>2, NoRequestWrites DEF LockInv

\* A step of r alone that locks no row another request holds.
LEMMA LockStep ==
  ASSUME TypeInv, LockInv, NEW r \in Requests, req' = [req EXCEPT ![r] = req'[r]],
         rows \subseteq rows', WriteOK(req'[r], rows'),
         \A c \in Held(req'[r]) \ Locks(r) : Free(r, c)
  PROVE  LockInv'
<1>1. \A q \in Requests \ {r} : req'[q] = req[q]
  BY DEF TypeInv, TypeOK
<1>2. \A q \in Requests : WriteOK(req'[q], rows')
  <2> SUFFICES ASSUME NEW q \in Requests \ {r} PROVE WriteOK(req[q], rows')
    BY <1>1
  <2>1. WriteOK(req[q], rows)
    BY DEF LockInv
  <2>2. QED
    BY <2>1 DEF WriteOK, StatusOK
<1>3. Locks(r)' = Held(req'[r])
  BY DEF Locks, Held
<1>4. \A q \in Requests \ {r} : Locks(q)' = Locks(q)
  BY <1>1 DEF Locks
<1>5. \A q \in Requests \ {r} : Held(req'[r]) \cap Locks(q) = {}
  BY DEF LockInv, Free
<1>6. \A p, q \in Requests : p # q => (Locks(p) \cap Locks(q) = {})'
  <2> SUFFICES ASSUME NEW p \in Requests, NEW q \in Requests, p # q
               PROVE  Locks(p)' \cap Locks(q)' = {}
    OBVIOUS
  <2>1. CASE p = r
    BY <1>3, <1>4, <1>5, <2>1
  <2>2. CASE q = r
    BY <1>3, <1>4, <1>5, <2>2
  <2>3. CASE p # r /\ q # r
    BY <1>4, <2>3 DEF LockInv
  <2>4. QED
    BY <2>1, <2>2, <2>3
<1>7. QED
  BY <1>2, <1>6 DEF LockInv

\* ... and one that writes nothing at all.
SameWrites(v, q) ==
  v.wrote = q.wrote /\ v.wpin = q.wpin /\ v.wsync = q.wsync /\ v.booked = q.booked

LEMMA QuietLocks ==
  ASSUME TypeInv, LockInv, NEW r \in Requests, req' = [req EXCEPT ![r] = req'[r]],
         rows' = rows, WriteOK(req'[r], rows), SameWrites(req'[r], req[r])
  PROVE  LockInv'
<1>1. Held(req'[r]) = Locks(r)
  BY DEF Held, Locks, SameWrites
<1>2. QED
  BY <1>1, LockStep

\* A step that leaves requests and rows alone.
LEMMA StillLocks ==
  ASSUME LockInv, req' = req, rows' = rows
  PROVE  LockInv'
BY DEF LockInv, Locks

\* A request that ends.
LEMMA EndLocks ==
  ASSUME TypeInv, LockInv, NEW r \in Requests, req' = [req EXCEPT ![r] = NoRequest],
         rows \subseteq rows'
  PROVE  LockInv'
<1>1. req'[r] = NoRequest
  BY DEF TypeInv, TypeOK
<1>2. QED
  BY <1>1, NoRequestWrites, LockStep

\* What assigning sync_status does to the locks of r.
LEMMA StatusLocks ==
  ASSUME TypeInv, NEW r \in Requests, NEW c \in Conns, NEW s \in Statuses,
         CanSetStatus(r, c, s)
  PROVE  LET w == SetStatus(r, c, s)
         IN  /\ w \in [Conns -> Statuses \cup {Keep}]
             /\ \A k \in Conns \ {c} : w[k] = req[r].wrote[k]
             /\ IF w[c] = Keep THEN req[r].wrote[c] = Keep /\ req[r].seen[c] = s ELSE w[c] = s
             /\ Seen(r, c) # s => w[c] = s
             /\ \A k \in Conns : w[k] # Keep => req[r].wrote[k] # Keep \/ Free(r, k)
<1>1. req[r] \in Request
  BY DEF TypeInv, TypeOK
<1>2. SetStatus(r, c, s) \in [Conns -> Statuses \cup {Keep}]
  BY SetStatusType
<1>3. s # Keep
  BY DEF Statuses, Keep
<1>4. CASE Seen(r, c) = s
  <2>1. SetStatus(r, c, s) = req[r].wrote
    BY <1>4 DEF SetStatus
  <2>2. QED
    BY <1>1, <1>2, <1>3, <1>4, <2>1 DEF Seen, Request
<1>5. CASE Seen(r, c) # s
  <2>1. SetStatus(r, c, s) = [req[r].wrote EXCEPT ![c] = s] /\ Free(r, c)
    BY <1>5 DEF SetStatus, CanSetStatus
  <2>2. QED
    BY <1>1, <1>2, <1>3, <1>5, <2>1 DEF Request
<1>6. QED
  BY <1>4, <1>5

\* What r holds and knows.
LEMMA Mine ==
  ASSUME TypeInv, LockInv, NEW r \in Requests
  PROVE  /\ req \in [Requests -> Request] /\ req[r] \in Request /\ PlaceOK(req[r])
         /\ LoopOK(req[r]) /\ StatusOK(req[r], rows) /\ SyncOK(req[r])
         /\ rows \subseteq Conns /\ status \in [Conns -> Statuses]
BY DEF TypeInv, TypeOK, LockInv, WriteOK

LEMMA LoginLocks ==
  ASSUME TypeInv, LockInv, NEW r \in Requests,
         \/ StartHouseholdSync(r) \/ RateLimitCount(r)
         \/ \E c \in Conns : RateLimitRead(r, c)
         \/ \E d \in Dialogs : LoginNeedsApproval(r, d) \/ LoginOpens(r, d)
  PROVE  LockInv'
<1> USE Mine
<1>1. CASE StartHouseholdSync(r)
  <2> DEFINE v == [NoRequest EXCEPT !.pc = "rate", !.kind = "sync", !.todo = Syncable,
                     !.seen = [k \in Conns |-> IF k \in rows THEN status[k] ELSE "idle"]]
  <2>1. req' = [req EXCEPT ![r] = v] /\ rows' = rows /\ req[r].pc = "idle"
    BY <1>1 DEF StartHouseholdSync, db
  <2>2. /\ v.pc = "rate" /\ v.kind = "sync" /\ v.todo = Syncable
        /\ v.wrote = NoRequest.wrote /\ v.wpin = {} /\ v.wsync = {} /\ v.booked = {}
    BY DEF NoRequest
  <2> HIDE DEF v
  <2>3. WriteOK(v, rows)
    BY <2>2, NoRequestWrites DEF WriteOK, LoopOK, StatusOK, SyncOK, Syncable, NoRequest
  <2>4. Held(v) = {}
    BY <2>2, NoRequestWrites DEF Held, NoRequest
  <2>5. req'[r] = v
    BY <2>1
  <2>6. QED
    BY <2>1, <2>3, <2>4, <2>5, LockStep
<1>2. ASSUME NEW c \in Conns, RateLimitRead(r, c) PROVE LockInv'
  <2>1. CASE redisUp /\ c \in limited
    <3>1. /\ req' = [req EXCEPT ![r] = LoopOn(r, c)] /\ rows' = rows
          /\ req[r].pc = "rate" /\ c \in req[r].todo
      BY <1>2, <2>1 DEF RateLimitRead, IsNext, db
    <3> DEFINE v == LoopOn(r, c)
    <3>2. /\ v.pc \in {"rate", "commit"} /\ v.kind = req[r].kind
          /\ v.todo = req[r].todo \ {c} /\ SameWrites(v, req[r])
      BY DEF LoopOn, Request, SameWrites
    <3>3. req'[r] = v
      BY <3>1
    <3> HIDE DEF v
    <3>4. WriteOK(v, rows)
      BY <3>1, <3>2 DEF WriteOK, LoopOK, StatusOK, SyncOK, SameWrites
    <3>5. QED
      BY <3>1, <3>2, <3>3, <3>4, QuietLocks
  <2>2. CASE ~(redisUp /\ c \in limited)
    <3>1. PICK p \in {"incr", "connect"} :
            req' = [req EXCEPT ![r] = [req[r] EXCEPT !.conn = c, !.pc = p]]
      BY <1>2, <2>2 DEF RateLimitRead
    <3> DEFINE v == [req[r] EXCEPT !.conn = c, !.pc = p]
    <3>2. /\ v.pc = p /\ v.kind = req[r].kind /\ v.conn = c
          /\ v.todo = req[r].todo /\ SameWrites(v, req[r])
      BY DEF Request, SameWrites
    <3>3. req'[r] = v /\ req' = [req EXCEPT ![r] = v]
      BY <3>1
    <3>4. rows' = rows /\ req[r].pc = "rate" /\ c \in req[r].todo
      BY <1>2 DEF RateLimitRead, IsNext, db
    <3> HIDE DEF v
    <3>5. WriteOK(v, rows)
      BY <3>2, <3>4 DEF WriteOK, LoopOK, StatusOK, SyncOK, SameWrites
    <3>6. QED
      BY <3>2, <3>3, <3>4, <3>5, QuietLocks
  <2>3. QED
    BY <2>1, <2>2
<1>3. CASE RateLimitCount(r)
  <2> DEFINE v == [req[r] EXCEPT !.pc = "connect"]
  <2>1. req' = [req EXCEPT ![r] = v] /\ rows' = rows /\ req[r].pc = "incr"
    BY <1>3 DEF RateLimitCount, db
  <2>2. /\ v.pc = "connect" /\ v.kind = req[r].kind /\ v.conn = req[r].conn
        /\ v.todo = req[r].todo /\ SameWrites(v, req[r])
    BY DEF Request, SameWrites
  <2>3. req'[r] = v
    BY <2>1
  <2> HIDE DEF v
  <2>4. WriteOK(v, rows)
    BY <2>1, <2>2 DEF WriteOK, LoopOK, StatusOK, SyncOK, SameWrites
  <2>5. QED
    BY <2>1, <2>2, <2>3, <2>4, QuietLocks
<1>4. ASSUME NEW d \in Dialogs, LoginNeedsApproval(r, d) PROVE LockInv'
  <2> DEFINE v == [req[r] EXCEPT !.todo = {}, !.conn = NoConn, !.pc = "commit"]
  <2>1. req' = [req EXCEPT ![r] = v] /\ rows' = rows /\ req[r].pc = "connect"
    BY <1>4 DEF LoginNeedsApproval, db
  <2>2. /\ v.pc = "commit" /\ v.kind = req[r].kind
        /\ v.todo = {} /\ SameWrites(v, req[r])
    BY DEF Request, SameWrites
  <2>3. req'[r] = v
    BY <2>1
  <2> HIDE DEF v
  <2>4. WriteOK(v, rows)
    BY <2>1, <2>2 DEF WriteOK, LoopOK, StatusOK, SyncOK, SameWrites
  <2>5. QED
    BY <2>1, <2>2, <2>3, <2>4, QuietLocks
<1>5. ASSUME NEW d \in Dialogs, LoginOpens(r, d) PROVE LockInv'
  <2> DEFINE v == [req[r] EXCEPT !.dlg = d, !.pc = "import"]
  <2>1. req' = [req EXCEPT ![r] = v] /\ rows' = rows /\ req[r].pc = "connect"
    BY <1>5 DEF LoginOpens, db
  <2>2. /\ v.pc = "import" /\ v.kind = req[r].kind /\ v.conn = req[r].conn
        /\ v.todo = req[r].todo /\ SameWrites(v, req[r])
    BY DEF Request, SameWrites
  <2>3. req'[r] = v
    BY <2>1
  <2> HIDE DEF v
  <2>4. WriteOK(v, rows)
    BY <2>1, <2>2 DEF WriteOK, LoopOK, StatusOK, SyncOK, SameWrites
  <2>5. QED
    BY <2>1, <2>2, <2>3, <2>4, QuietLocks
<1>6. QED
  BY <1>1, <1>2, <1>3, <1>4, <1>5

LEMMA RefusedLocks ==
  ASSUME TypeInv, LockInv, NEW r \in Requests, LoginRefused(r)
  PROVE  LockInv'
<1> USE Mine
<1> DEFINE c == req[r].conn
           w == SetStatus(r, c, "error")
           v == [LoopOn(r, c) EXCEPT !.wrote = w]
<1>1. /\ req' = [req EXCEPT ![r] = v] /\ rows' = rows /\ req[r].pc = "connect"
      /\ CanSetStatus(r, c, "error") /\ c \in Conns
  BY DEF LoginRefused, db, PlaceOK
<1>2. /\ v.pc \in {"rate", "commit"} /\ v.kind = req[r].kind /\ v.todo = req[r].todo \ {c}
      /\ v.wrote = w /\ v.wpin = req[r].wpin /\ v.wsync = req[r].wsync
      /\ v.booked = req[r].booked /\ req'[r] = v
  BY <1>1 DEF LoopOn, Request
<1>3. /\ w \in [Conns -> Statuses \cup {Keep}]
      /\ \A k \in Conns \ {c} : w[k] = req[r].wrote[k]
      /\ w[c] \in {Keep, "error"} /\ (w[c] = Keep => req[r].wrote[c] = Keep)
      /\ \A k \in Conns : w[k] # Keep => req[r].wrote[k] # Keep \/ Free(r, k)
  BY <1>1, StatusLocks, Names
<1>4. req[r].kind = "sync" /\ c \in req[r].todo /\ c \in rows
  BY <1>1 DEF LoopOK, StatusOK
<1> HIDE DEF v, w
<1>5. LoopOK(v)
  BY <1>1, <1>2, <1>4 DEF LoopOK
<1>6. StatusOK(v, rows)
  <2>1. \A k \in Conns : req[r].wrote[k] # "syncing"
    BY <1>1 DEF StatusOK
  <2>2. \A k \in Conns : w[k] # "syncing"
    BY <1>3, <2>1 DEF Keep
  <2>3. \A k \in Conns : w[k] # Keep => k \in rows \cup req[r].wpin
    BY <1>3, <1>4 DEF StatusOK
  <2>4. QED
    BY <1>1, <1>2, <1>4, <2>2, <2>3 DEF StatusOK
<1>7. SyncOK(v)
  <2>1. c \notin req[r].wsync
    BY <1>4 DEF SyncOK
  <2>2. req[r].wsync \subseteq Conns
    BY DEF Request
  <2>3. QED
    BY <1>2, <1>3, <1>4, <2>1, <2>2 DEF SyncOK
<1>8. \A k \in Held(v) \ Locks(r) : Free(r, k)
  BY <1>2, <1>3 DEF Held, Locks
<1>9. QED
  BY <1>1, <1>2, <1>5, <1>6, <1>7, <1>8, LockStep DEF WriteOK

\* What a failed handle_tan leaves in the request.
Refused(r, p, c, s) ==
  /\ req' = [req EXCEPT ![r] = req'[r]]
  /\ req'[r] = [req[r] EXCEPT !.pc = p, !.conn = c, !.seen = s]
  /\ p = "mark" => c \in rows

LEMMA RefusedShape ==
  ASSUME TypeInv, LockInv, NEW r \in Requests, TanRefused(r)
  PROVE  \E p \in {"mark", "commit"}, c \in Conns \cup {NoConn}, s \in [Conns -> Statuses] :
           Refused(r, p, c, s)
<1> USE Mine
<1>1. CASE req[r].kind = "confirm"
  <2>1. /\ req' = [req EXCEPT ![r] = req'[r]]
        /\ req'[r] = [req[r] EXCEPT !.pc = "mark"]
    BY <1>1 DEF TanRefused
  <2>2. [req[r] EXCEPT !.pc = "mark"]
          = [req[r] EXCEPT !.pc = "mark", !.conn = req[r].conn, !.seen = req[r].seen]
    BY DEF Request
  <2>3. req[r].conn \in rows
    BY <1>1 DEF TanRefused, StatusOK
  <2>4. req[r].seen \in [Conns -> Statuses]
    BY DEF Request
  <2>5. QED
    BY <2>1, <2>2, <2>3, <2>4 DEF Refused
<1>2. CASE req' = [req EXCEPT ![r].pc = "commit"]
  <2>1. /\ req' = [req EXCEPT ![r] = req'[r]]
        /\ req'[r] = [req[r] EXCEPT !.pc = "commit"]
    BY <1>2
  <2>2. [req[r] EXCEPT !.pc = "commit"]
          = [req[r] EXCEPT !.pc = "commit", !.conn = req[r].conn, !.seen = req[r].seen]
    BY DEF Request
  <2>3. req[r].seen \in [Conns -> Statuses] /\ req[r].conn \in Conns \cup {NoConn}
    BY DEF Request
  <2>4. QED
    BY <2>1, <2>2, <2>3 DEF Refused
<1>3. CASE \E c \in rows :
             req' = [req EXCEPT ![r].pc = "mark", ![r].conn = c,
                       ![r].seen = [@ EXCEPT ![c] = status[c]]]
  <2>1. PICK c \in rows :
             req' = [req EXCEPT ![r].pc = "mark", ![r].conn = c,
                       ![r].seen = [@ EXCEPT ![c] = status[c]]]
    BY <1>3
  <2> DEFINE s == [req[r].seen EXCEPT ![c] = status[c]]
  <2>2. /\ req' = [req EXCEPT ![r] = req'[r]]
        /\ req'[r] = [req[r] EXCEPT !.pc = "mark", !.conn = c, !.seen = s]
    BY <2>1
  <2>3. s \in [Conns -> Statuses] /\ c \in Conns
    BY DEF Request
  <2> HIDE DEF s
  <2>4. Refused(r, "mark", c, s)
    BY <2>2 DEF Refused
  <2>5. QED
    BY <2>3, <2>4
<1>4. QED
  BY <1>1, <1>2, <1>3 DEF TanRefused

LEMMA TanLocks ==
  ASSUME TypeInv, LockInv, NEW r \in Requests,
         \/ ConfirmHouseholdSync(r) \/ TanAccepted(r) \/ TanRefused(r)
         \/ \E d \in Dialogs : SubmitTan(r, d)
  PROVE  LockInv'
<1> USE Mine
<1>1. CASE ConfirmHouseholdSync(r)
  <2> DEFINE s == [NoRequest.seen EXCEPT ![pending.conn] = status[pending.conn]]
             v == [NoRequest EXCEPT !.pc = "tan", !.kind = "confirm", !.conn = pending.conn,
                     !.dlg = pending.dlg, !.seen = s]
  <2>1. req' = [req EXCEPT ![r] = v] /\ rows' = rows /\ pending.conn \in rows
    BY <1>1 DEF ConfirmHouseholdSync, db
  <2>2. /\ v.pc = "tan" /\ v.kind = "confirm" /\ v.todo = {} /\ v.conn = pending.conn
        /\ v.wrote = NoRequest.wrote /\ v.wpin = {} /\ v.wsync = {} /\ v.booked = {}
    BY DEF NoRequest
  <2>3. req'[r] = v
    BY <2>1
  <2> HIDE DEF v
  <2>4. WriteOK(v, rows)
    BY <2>1, <2>2, NoRequestWrites DEF WriteOK, LoopOK, StatusOK, SyncOK, NoRequest
  <2>5. Held(v) = {}
    BY <2>2, NoRequestWrites DEF Held, NoRequest
  <2>6. QED
    BY <2>1, <2>3, <2>4, <2>5, LockStep
<1>2. ASSUME NEW d \in Dialogs, SubmitTan(r, d) PROVE LockInv'
  <2> DEFINE v == [NoRequest EXCEPT !.pc = "tan", !.kind = "tan", !.dlg = d,
                                    !.bank = sessions[d]]
  <2>1. req' = [req EXCEPT ![r] = v] /\ rows' = rows
    BY <1>2 DEF SubmitTan, db
  <2>2. /\ v.pc = "tan" /\ v.kind = "tan" /\ v.todo = {}
        /\ v.wrote = NoRequest.wrote /\ v.wpin = {} /\ v.wsync = {} /\ v.booked = {}
    BY DEF NoRequest
  <2>3. req'[r] = v
    BY <2>1
  <2> HIDE DEF v
  <2>4. WriteOK(v, rows)
    BY <2>2, NoRequestWrites DEF WriteOK, LoopOK, StatusOK, SyncOK, NoRequest
  <2>5. Held(v) = {}
    BY <2>2, NoRequestWrites DEF Held, NoRequest
  <2>6. QED
    BY <2>1, <2>3, <2>4, <2>5, LockStep
<1>3. CASE TanAccepted(r)
  <2>1. PICK p \in {"import", "accounts", "commit"} :
          /\ req' = [req EXCEPT ![r] = [req[r] EXCEPT !.pc = p]]
          /\ p = "import" <=> req[r].kind = "confirm"
    BY <1>3 DEF TanAccepted
  <2> DEFINE v == [req[r] EXCEPT !.pc = p]
  <2>2. req' = [req EXCEPT ![r] = v] /\ req'[r] = v /\ rows' = rows /\ req[r].pc = "tan"
    BY <1>3, <2>1 DEF TanAccepted, db
  <2>3. /\ v.pc = p /\ v.kind = req[r].kind /\ v.conn = req[r].conn
        /\ v.todo = req[r].todo /\ SameWrites(v, req[r])
    BY DEF Request, SameWrites
  <2> HIDE DEF v
  <2>4. WriteOK(v, rows)
    BY <2>1, <2>2, <2>3 DEF WriteOK, LoopOK, StatusOK, SyncOK, SameWrites
  <2>5. QED
    BY <2>2, <2>3, <2>4, QuietLocks
<1>4. CASE TanRefused(r)
  <2>1. PICK p \in {"mark", "commit"}, c \in Conns \cup {NoConn}, s \in [Conns -> Statuses] :
          Refused(r, p, c, s)
    BY <1>4, RefusedShape
  <2> DEFINE v == [req[r] EXCEPT !.pc = p, !.conn = c, !.seen = s]
  <2>2. req'[r] = v /\ rows' = rows /\ req[r].pc = "tan"
    BY <1>4, <2>1 DEF TanRefused, Refused, db
  <2>3. /\ v.pc = p /\ v.kind = req[r].kind /\ v.conn = c
        /\ v.todo = req[r].todo /\ SameWrites(v, req[r])
    BY DEF Request, SameWrites
  <2> HIDE DEF v
  <2>4. WriteOK(v, rows)
    BY <2>1, <2>2, <2>3 DEF WriteOK, LoopOK, StatusOK, SyncOK, SameWrites, Refused
  <2>5. QED
    BY <2>1, <2>2, <2>3, <2>4, QuietLocks DEF Refused
<1>5. QED
  BY <1>1, <1>2, <1>3, <1>4

LEMMA ImportLocks ==
  ASSUME TypeInv, LockInv, NEW r \in Requests, MarkError(r) \/ ImportBegin(r)
  PROVE  LockInv'
<1> USE Mine
<1> DEFINE c == req[r].conn
<1>1. PICK s \in {"error", "syncing"}, p \in {"commit", "fetch"} :
        /\ req' = [req EXCEPT ![r] = [req[r] EXCEPT !.wrote = SetStatus(r, c, s), !.pc = p]]
        /\ CanSetStatus(r, c, s)
        /\ (s = "error" /\ p = "commit" /\ req[r].pc = "mark")
             \/ (s = "syncing" /\ p = "fetch" /\ req[r].pc = "import")
  BY DEF MarkError, ImportBegin
<1> DEFINE w == SetStatus(r, c, s)
           v == [req[r] EXCEPT !.wrote = w, !.pc = p]
<1>2. /\ v.pc = p /\ v.kind = req[r].kind /\ v.todo = req[r].todo /\ v.conn = c
      /\ v.wrote = w /\ v.wpin = req[r].wpin /\ v.wsync = req[r].wsync
      /\ v.booked = req[r].booked /\ v.seen = req[r].seen /\ v.tan = req[r].tan
  BY DEF Request
<1>3. c \in Conns /\ s \in Statuses /\ c \in rows
  BY <1>1, Names DEF PlaceOK, StatusOK
<1>4. /\ w \in [Conns -> Statuses \cup {Keep}]
      /\ \A k \in Conns \ {c} : w[k] = req[r].wrote[k]
      /\ IF w[c] = Keep THEN req[r].wrote[c] = Keep /\ req[r].seen[c] = s ELSE w[c] = s
      /\ \A k \in Conns : w[k] # Keep => req[r].wrote[k] # Keep \/ Free(r, k)
  BY <1>1, <1>3, StatusLocks
<1>5. req'[r] = v /\ req' = [req EXCEPT ![r] = v] /\ rows' = rows
  BY <1>1 DEF MarkError, ImportBegin, db
<1> HIDE DEF v, w
<1>6. LoopOK(v)
  BY <1>1, <1>2 DEF LoopOK
<1>7. StatusOK(v, rows)
  <2>1. \A k \in Conns : req[r].wrote[k] # "syncing"
    BY <1>1 DEF StatusOK
  <2>2. \A k \in Conns : w[k] = "syncing" => k = c /\ p = "fetch"
    BY <1>1, <1>4, <2>1 DEF Keep
  <2>3. \A k \in Conns : w[k] # Keep => k \in rows \cup req[r].wpin
    BY <1>3, <1>4 DEF StatusOK
  <2>4. p = "fetch" => w[c] = "syncing" \/ (w[c] = Keep /\ req[r].seen[c] = "syncing")
    BY <1>1, <1>4
  <2>5. QED
    BY <1>1, <1>2, <1>3, <2>2, <2>3, <2>4 DEF StatusOK
<1>8. SyncOK(v)
  <2>1. req[r].wsync \subseteq Conns
    BY DEF Request
  <2>2. c \notin req[r].wsync
    BY <1>1 DEF SyncOK, LoopOK
  <2>3. QED
    BY <1>1, <1>2, <1>4, <2>1, <2>2 DEF SyncOK, LoopOK
<1>9. \A k \in Held(v) \ Locks(r) : Free(r, k)
  BY <1>2, <1>4 DEF Held, Locks
<1>10. QED
  BY <1>5, <1>6, <1>7, <1>8, <1>9, LockStep DEF WriteOK

LEMMA ImportEndLocks ==
  ASSUME TypeInv, LockInv, NEW r \in Requests, ImportEnd(r)
  PROVE  LockInv'
<1> USE Mine
<1> DEFINE c == req[r].conn
           w == SetStatus(r, c, "idle")
           q == IF req[r].kind = "sync" THEN LoopOn(r, c) ELSE [req[r] EXCEPT !.pc = "commit"]
           v == Imported(q, c, w)
<1>1. /\ req' = [req EXCEPT ![r] = v] /\ rows' = rows /\ req[r].pc = "fetch"
      /\ CanSetStatus(r, c, "idle") /\ c \in Conns
  BY DEF ImportEnd, db, PlaceOK
<1>2. /\ q.pc \in {"rate", "commit"} /\ q.kind = req[r].kind
      /\ q.kind # "sync" => q.pc = "commit"
      /\ q.todo = req[r].todo \ {c}
      /\ q.wpin = req[r].wpin /\ q.wsync = req[r].wsync /\ q.booked = req[r].booked
      /\ q \in Request
  <2>1. CASE req[r].kind = "sync"
    <3>1. q = LoopOn(r, c)
      BY <2>1
    <3>2. q \in Request /\ q.pc \in {"commit", "rate"}
      BY <1>1, <3>1, LoopOnType
    <3>3. /\ q.kind = req[r].kind /\ q.todo = req[r].todo \ {c}
          /\ q.wpin = req[r].wpin /\ q.wsync = req[r].wsync /\ q.booked = req[r].booked
      BY <3>1 DEF LoopOn, Request
    <3> HIDE DEF q
    <3>4. QED
      BY <2>1, <3>2, <3>3
  <2>2. CASE req[r].kind # "sync"
    <3>1. req[r].todo = {}
      BY <2>2 DEF LoopOK
    <3>2. q = [req[r] EXCEPT !.pc = "commit"]
      BY <2>2
    <3>3. QED
      BY <2>2, <3>1, <3>2 DEF Request, Places
  <2>3. QED
    BY <2>1, <2>2
<1> HIDE DEF q
<1>3. /\ v.pc = q.pc /\ v.kind = q.kind /\ v.todo = q.todo /\ v.wrote = w /\ v.wpin = q.wpin
      /\ v.wsync = q.wsync \cup {c} /\ v.booked = q.booked \cup {c}
  BY <1>2 DEF Imported, Request
<1>4. /\ w \in [Conns -> Statuses \cup {Keep}]
      /\ \A k \in Conns \ {c} : w[k] = req[r].wrote[k]
      /\ Seen(r, c) # "idle" => w[c] = "idle"
      /\ \A k \in Conns : w[k] # Keep => req[r].wrote[k] # Keep \/ Free(r, k)
  BY <1>1, StatusLocks, Names
<1>5. Seen(r, c) = "syncing"
  BY <1>1 DEF Seen, StatusOK, Keep
<1>6. w[c] = "idle" /\ c \in rows /\ req'[r] = v
  BY <1>1, <1>4, <1>5 DEF StatusOK
<1> HIDE DEF v, w
<1>7. LoopOK(v)
  BY <1>1, <1>2, <1>3 DEF LoopOK
<1>8. StatusOK(v, rows)
  <2>1. \A k \in Conns : req[r].wrote[k] = "syncing" => k = c
    BY <1>1 DEF StatusOK
  <2>2. \A k \in Conns : w[k] # "syncing"
    BY <1>4, <1>6, <2>1
  <2>3. \A k \in Conns : w[k] # Keep => k \in rows \cup req[r].wpin
    BY <1>4, <1>6 DEF StatusOK
  <2>4. req[r].todo \subseteq rows
    BY DEF StatusOK
  <2>5. QED
    BY <1>2, <1>3, <2>2, <2>3, <2>4 DEF StatusOK
<1>9. SyncOK(v)
  <2>1. req[r].wsync \subseteq Conns
    BY DEF Request
  <2>2. QED
    BY <1>2, <1>3, <1>4, <1>6, <2>1 DEF SyncOK
<1>10. \A k \in Held(v) \ Locks(r) : Free(r, k)
  BY <1>2, <1>3, <1>4 DEF Held, Locks
<1>11. QED
  BY <1>1, <1>6, <1>7, <1>8, <1>9, <1>10, LockStep DEF WriteOK

\* upsert_bank_connection takes the lock of the row it finds, or makes a row no one
\* else has written.
LEMMA UpsertLocks ==
  ASSUME TypeInv, LockInv, NEW r \in Requests, NEW s \in Statuses, NEW next \in Places,
         Upsert(r, s, next), rows' = rows,
         req[r].pc \in {"store", "upsert"}, next \in {"commit", "accounts", "booking"},
         s = "idle" \/ (s = "syncing" /\ next = "commit" /\ req[r].kind = "link" /\ req[r].tan)
  PROVE  LockInv'
<1> USE Mine
<1>1. PICK c \in Conns, w \in [Conns -> Statuses \cup {Keep}] : Upserted(r, s, next, c, w)
  BY UpsertShape
<1> DEFINE v == [req[r] EXCEPT !.conn = c, !.pc = next,
                               !.wpin = req[r].wpin \cup {c}, !.wrote = w]
<1>2. req' = [req EXCEPT ![r] = v] /\ req'[r] = v
  BY <1>1 DEF Upserted
<1>3. /\ v.pc = next /\ v.kind = req[r].kind /\ v.todo = req[r].todo /\ v.tan = req[r].tan
      /\ v.wpin = req[r].wpin \cup {c} /\ v.wrote = w
      /\ v.wsync = req[r].wsync /\ v.booked = req[r].booked
  BY DEF Request
<1>4. Free(r, c)
  <2>1. CASE req[r].conn = NoConn
    <3>1. c \notin rows /\ \A q \in Requests : c \notin req[q].wpin
      BY <1>1, <2>1 DEF Upserted, NextRow
    <3>2. \A q \in Requests : req[q].wrote[c] = Keep
      BY <3>1 DEF LockInv, WriteOK, StatusOK
    <3>3. QED
      BY <3>1, <3>2 DEF Free, Locks
  <2>2. CASE req[r].conn # NoConn
    BY <1>1, <2>2 DEF Upserted
  <2>3. QED
    BY <2>1, <2>2
<1>5. \A k \in Conns \ {c} : w[k] = req[r].wrote[k]
  <2>1. CASE w = [req[r].wrote EXCEPT ![c] = s]
    BY <2>1 DEF Request
  <2>2. CASE w = SetStatus(r, c, s)
    BY <2>2 DEF SetStatus, Request
  <2>3. QED
    BY <1>1, <2>1, <2>2 DEF Upserted
<1>6. w[c] \in {s, Keep} \/ w[c] = req[r].wrote[c]
  <2>1. CASE w = [req[r].wrote EXCEPT ![c] = s]
    BY <2>1 DEF Request
  <2>2. CASE w = SetStatus(r, c, s)
    BY <2>2 DEF SetStatus, Request
  <2>3. QED
    BY <1>1, <2>1, <2>2 DEF Upserted
<1> HIDE DEF v
<1>7. LoopOK(v) /\ SyncOK(v)
  BY <1>3 DEF LoopOK, SyncOK
<1>8. StatusOK(v, rows)
  <2>1. \A k \in Conns : req[r].wrote[k] # "syncing"
    BY DEF StatusOK
  <2>2. \A k \in Conns : w[k] = "syncing" => s = "syncing"
    BY <1>5, <1>6, <2>1 DEF Keep
  <2>3. \A k \in Conns : w[k] # Keep => k \in rows \cup v.wpin
    BY <1>3, <1>5 DEF StatusOK
  <2>4. QED
    BY <1>3, <2>2, <2>3 DEF StatusOK
<1>9. \A k \in Held(v) \ Locks(r) : Free(r, k)
  BY <1>3, <1>4, <1>5 DEF Held, Locks
<1>10. QED
  BY <1>2, <1>7, <1>8, <1>9, LockStep DEF WriteOK

LEMMA LinkLocks ==
  ASSUME TypeInv, LockInv, NEW r \in Requests,
         \/ LinkStore(r) \/ FetchAccounts(r) \/ StoreAccounts(r) \/ LinkEnd(r)
         \/ \E b \in Banks, d \in Dialogs, tan \in BOOLEAN : LinkConnect(r, b, d, tan)
  PROVE  LockInv'
<1> USE Mine
<1>1. ASSUME NEW b \in Banks, NEW d \in Dialogs, NEW tan \in BOOLEAN, LinkConnect(r, b, d, tan)
      PROVE  LockInv'
  <2>1. PICK c, s :
          req' = [req EXCEPT ![r] =
                   [NoRequest EXCEPT !.pc = "store", !.kind = "link", !.bank = b,
                      !.dlg = d, !.tan = tan, !.conn = c, !.seen = s]]
    BY <1>1 DEF LinkConnect
  <2> DEFINE v == [NoRequest EXCEPT !.pc = "store", !.kind = "link", !.bank = b,
                     !.dlg = d, !.tan = tan, !.conn = c, !.seen = s]
  <2>2. req' = [req EXCEPT ![r] = v] /\ req'[r] = v /\ rows' = rows
    BY <1>1, <2>1 DEF LinkConnect, db
  <2>3. /\ v.pc = "store" /\ v.kind = "link" /\ v.todo = {}
        /\ v.wrote = NoRequest.wrote /\ v.wpin = {} /\ v.wsync = {} /\ v.booked = {}
    BY DEF NoRequest
  <2> HIDE DEF v
  <2>4. WriteOK(v, rows)
    BY <2>3, NoRequestWrites DEF WriteOK, LoopOK, StatusOK, SyncOK, NoRequest
  <2>5. Held(v) = {}
    BY <2>3, NoRequestWrites DEF Held, NoRequest
  <2>6. QED
    BY <2>2, <2>4, <2>5, LockStep
<1>2. CASE LinkStore(r)
  <2>1. req[r].kind = "link" /\ req[r].pc = "store" /\ rows' = rows
    BY <1>2 DEF LinkStore, db, LoopOK
  <2>2. CASE req[r].tan
    BY <1>2, <2>1, <2>2, UpsertLocks, Names DEF LinkStore
  <2>3. CASE ~req[r].tan
    BY <1>2, <2>1, <2>3, UpsertLocks, Names DEF LinkStore
  <2>4. QED
    BY <2>2, <2>3
<1>3. CASE FetchAccounts(r)
  <2>1. PICK c \in Conns \cup {NoConn}, s \in [Conns -> Statuses] : Fetched(r, c, s)
    BY <1>3, FetchShape
  <2> DEFINE v == [req[r] EXCEPT !.pc = "upsert", !.conn = c, !.seen = s]
  <2>2. /\ req' = [req EXCEPT ![r] = v] /\ req'[r] = v
        /\ rows' = rows /\ req[r].pc = "accounts"
    BY <1>3, <2>1 DEF FetchAccounts, Fetched, db
  <2>3. /\ v.pc = "upsert" /\ v.kind = req[r].kind /\ v.conn = c
        /\ v.todo = req[r].todo /\ SameWrites(v, req[r])
    BY DEF Request, SameWrites
  <2> HIDE DEF v
  <2>4. WriteOK(v, rows)
    BY <2>1, <2>2, <2>3 DEF WriteOK, LoopOK, StatusOK, SyncOK, SameWrites
  <2>5. QED
    BY <2>2, <2>3, <2>4, QuietLocks
<1>4. CASE StoreAccounts(r)
  BY <1>4, UpsertLocks, Names DEF StoreAccounts, db
<1>5. CASE LinkEnd(r)
  <2>1. PICK k \in SUBSET Conns :
          req' = [req EXCEPT ![r] = [req[r] EXCEPT !.pc = "commit", !.booked = k]]
    BY <1>5, LinkEndShape
  <2> DEFINE v == [req[r] EXCEPT !.pc = "commit", !.booked = k]
  <2>2. /\ req' = [req EXCEPT ![r] = v] /\ req'[r] = v
        /\ rows' = rows /\ req[r].pc \in {"accounts", "booking"}
    BY <1>5, <2>1 DEF LinkEnd, db
  <2>3. /\ v.pc = "commit" /\ v.kind = req[r].kind /\ v.todo = req[r].todo
        /\ v.wrote = req[r].wrote /\ v.wpin = req[r].wpin /\ v.wsync = req[r].wsync
    BY DEF Request
  <2> HIDE DEF v
  <2>4. WriteOK(v, rows)
    BY <2>2, <2>3 DEF WriteOK, LoopOK, StatusOK, SyncOK
  <2>5. Held(v) = Locks(r)
    BY <2>3 DEF Held, Locks
  <2>6. QED
    BY <2>2, <2>4, <2>5, LockStep
<1>6. QED
  BY <1>1, <1>2, <1>3, <1>4, <1>5

LEMMA NextLocks == TypeInv /\ LockInv /\ [Next]_vars => LockInv'
<1> SUFFICES ASSUME TypeInv, LockInv, [Next]_vars PROVE LockInv'
  OBVIOUS
<1>1. CASE UNCHANGED vars
  BY <1>1, StillLocks DEF vars, db
<1>2. ASSUME NEW r \in Requests, Proceed(r) \/ Interfere(r)
      PROVE  LockInv'
  <2>1. CASE Commit(r)
    BY <2>1, EndLocks DEF Commit
  <2>2. CASE ImportRaises(r) \/ LinkRaises(r) \/ RollBack(r)
    BY <2>2, EndLocks DEF ImportRaises, LinkRaises, RollBack, db
  <2>3. QED
    BY <1>2, <2>1, <2>2, LoginLocks, RefusedLocks, TanLocks, ImportLocks, ImportEndLocks,
       LinkLocks DEF Proceed, Interfere
<1>3. CASE World
  <2>1. CASE Restart
    <3>1. rows' = rows /\ \A r \in Requests : req'[r] = NoRequest
      BY <2>1 DEF Restart, db
    <3>2. \A r \in Requests : Locks(r)' = Held(req'[r])
      BY DEF Locks, Held
    <3>3. QED
      BY <3>1, <3>2, NoRequestWrites DEF LockInv
  <2>2. CASE ~Restart
    BY <1>3, <2>2, StillLocks
       DEF World, StaleScan, StaleMark, Approve, Expire, HourPasses, MonthPasses,
           RedisFails, RedisRecovers, db
  <2>3. QED
    BY <2>1, <2>2
<1>4. QED
  BY <1>1, <1>2, <1>3 DEF Next

\* A second import of a row waits for the first: at most one of two requests that fetch
\* for a row can be without its lock, and only one that loaded it as "syncing".
LEMMA OverlapOK == TypeInv /\ LockInv => ImportsOverlapOnlyAfterUnfinishedLink
<1> SUFFICES ASSUME TypeInv, LockInv, NEW r \in Requests, NEW q \in Requests, r # q,
                    req[r].pc = "fetch", req[q].pc = "fetch", req[r].conn = req[q].conn
             PROVE  "syncing" \in {req[r].seen[req[r].conn], req[q].seen[req[q].conn]}
  BY DEF ImportsOverlapOnlyAfterUnfinishedLink
<1> DEFINE c == req[r].conn
<1>1. c \in Conns
  BY Mine DEF PlaceOK
<1>2. /\ req[r].wrote[c] # Keep \/ req[r].seen[c] = "syncing"
      /\ req[q].wrote[c] # Keep \/ req[q].seen[c] = "syncing"
  BY Mine DEF StatusOK, Keep
<1>3. Locks(r) \cap Locks(q) = {}
  BY DEF LockInv
<1>4. QED
  BY <1>1, <1>2, <1>3 DEF Locks

\* A second import of a row into which another one is fetching waits, unless one of them
\* found it "syncing", for any number of requests and rows.
THEOREM ImportsTakeTurns == Spec => []ImportsOverlapOnlyAfterUnfinishedLink
<1>1. Init => TypeInv /\ LockInv
  BY InitType, InitLocks
<1>2. TypeInv /\ LockInv /\ [Next]_vars => (TypeInv /\ LockInv)'
  BY NextType, NextLocks
<1>3. QED
  BY <1>1, <1>2, OverlapOK, PTL DEF Spec

\* What a request commits of an import is all of it, and "syncing" is left over by a link
\* that waits for its approval only.
LEMMA CommitOK ==
  TypeInv /\ LockInv /\ [Next]_vars =>
    [/\ \A c \in synced' \ synced : status'[c] = "idle" /\ c \in fresh'
     /\ \A c \in Conns :
          status[c] # "syncing" /\ status'[c] = "syncing"
            => \E r \in Requests : /\ req[r].pc = "commit" /\ req[r].kind = "link"
                                   /\ req[r].tan]_vars
<1> SUFFICES ASSUME TypeInv, LockInv, Next
             PROVE  /\ \A c \in synced' \ synced : status'[c] = "idle" /\ c \in fresh'
                    /\ \A c \in Conns :
                         status[c] # "syncing" /\ status'[c] = "syncing"
                           => \E r \in Requests : /\ req[r].pc = "commit"
                                                  /\ req[r].kind = "link" /\ req[r].tan
  OBVIOUS
<1>1. CASE \E r \in Requests : Commit(r)
  <2>1. PICK r \in Requests : Commit(r)
    BY <1>1
  <2>2. req[r].wsync \subseteq Conns /\ req[r].wrote \in [Conns -> Statuses \cup {Keep}]
    BY Mine DEF Request
  <2>3. /\ \A c \in req[r].wsync : req[r].wrote[c] = "idle" /\ c \in req[r].booked
        /\ \A c \in Conns : req[r].wrote[c] = "syncing" => req[r].kind = "link" /\ req[r].tan
    BY <2>1, Mine DEF Commit, StatusOK, SyncOK
  <2>4. /\ \A c \in Conns : status'[c] = IF req[r].wrote[c] = Keep THEN status[c]
                                         ELSE req[r].wrote[c]
        /\ synced' = synced \cup req[r].wsync /\ fresh' = fresh \cup req[r].booked
        /\ req[r].pc = "commit"
    BY <2>1 DEF Commit
  <2>5. \A c \in req[r].wsync : status'[c] = "idle" /\ c \in fresh'
    BY <2>2, <2>3, <2>4 DEF Keep
  <2>6. QED
    BY <2>3, <2>4, <2>5
<1>2. CASE StaleMark
  <2>1. \A c \in Conns : status'[c] = "stale" \/ status'[c] = status[c]
    BY <1>2 DEF StaleMark
  <2>2. QED
    BY <1>2, <2>1 DEF StaleMark
<1>3. CASE \E r \in Requests : (Proceed(r) \/ Interfere(r)) /\ ~Commit(r)
  <2>1. status' = status /\ synced' = synced
    BY <1>3 DEF Proceed, Interfere, StartHouseholdSync, RateLimitRead, RateLimitCount,
         LoginRefused, LoginNeedsApproval, LoginOpens, ConfirmHouseholdSync, TanAccepted,
         TanRefused, MarkError, ImportBegin, ImportEnd, ImportRaises, LinkConnect, LinkStore,
         SubmitTan, FetchAccounts, StoreAccounts, LinkEnd, LinkRaises, RollBack, db
  <2>2. QED
    BY <2>1
<1>4. CASE World /\ ~StaleMark
  <2>1. status' = status /\ synced' \subseteq synced
    BY <1>4 DEF World, StaleScan, Approve, Expire, HourPasses, MonthPasses,
         RedisFails, RedisRecovers, Restart, db
  <2>2. QED
    BY <2>1
<1>5. QED
  BY <1>1, <1>2, <1>3, <1>4 DEF Next

\* No commit of any request shows a part of an import, whatever fails or restarts.
THEOREM SyncsAreAtomic == Spec => SyncIsAtomic
<1>1. Init => TypeInv /\ LockInv
  BY InitType, InitLocks
<1>2. TypeInv /\ LockInv /\ [Next]_vars => (TypeInv /\ LockInv)'
  BY NextType, NextLocks
<1>3. QED
  BY <1>1, <1>2, CommitOK, PTL DEF Spec, SyncIsAtomic

-----------------------------------------------------------------------------
(* What holds as long as requests do not overlap *)

OneRequest == \A r, q \in Requests : r = q

\* A sync finds no pending login, and a confirm has the dialog of the pending one.
PendingInv ==
  \A r \in Requests :
    /\ req[r].kind = "sync" /\ req[r].pc # "commit" => pending = NoPending
    /\ req[r].kind = "confirm" /\ req[r].pc \in {"tan", "import", "fetch"} =>
         pending # NoPending /\ req[r].dlg = pending.dlg

\* A step of r that keeps its kind, its dialog and what is pending.
GoesOn(r) ==
  /\ req'[r].kind = req[r].kind /\ req[r].pc # "commit" /\ pending' = pending
  /\ req'[r].kind = "confirm" /\ req'[r].pc \in {"tan", "import", "fetch"} =>
       req[r].pc \in {"tan", "import"} /\ req'[r].dlg = req[r].dlg
  /\ req'[r].pc \in {"incr", "connect"} => req[r].pc \in {"rate", "incr"}

LEMMA ProceedGoesOn ==
  ASSUME TypeInv, LockInv, NEW r \in Requests, Proceed(r), ~Commit(r), ~ImportEnd(r),
         \A d \in Dialogs : ~LoginNeedsApproval(r, d)
  PROVE  GoesOn(r)
<1> USE Mine
<1>1. ASSUME NEW c \in Conns, RateLimitRead(r, c) PROVE GoesOn(r)
  <2>1. CASE redisUp /\ c \in limited
    BY <1>1, <2>1 DEF RateLimitRead, LoopOn, Request, GoesOn
  <2>2. CASE ~(redisUp /\ c \in limited)
    BY <1>1, <2>2 DEF RateLimitRead, Request, GoesOn
  <2>3. QED
    BY <2>1, <2>2
<1>2. CASE RateLimitCount(r)
  BY <1>2 DEF RateLimitCount, Request, GoesOn
<1>3. CASE LoginRefused(r)
  <2>1. /\ req'[r].kind = req[r].kind /\ req'[r].pc \in {"rate", "commit"}
        /\ req[r].pc = "connect" /\ pending' = pending
    BY <1>3 DEF LoginRefused, LoopOn, Request
  <2>2. QED
    BY <2>1 DEF GoesOn
<1>4. ASSUME NEW d \in Dialogs, LoginOpens(r, d) PROVE GoesOn(r)
  <2>1. /\ req'[r].kind = req[r].kind /\ req[r].pc = "connect" /\ req'[r].pc = "import"
        /\ pending' = pending
    BY <1>4 DEF LoginOpens, Request
  <2>2. QED
    BY <2>1 DEF GoesOn, LoopOK
<1>5. CASE TanAccepted(r)
  BY <1>5 DEF TanAccepted, Request, GoesOn
<1>6. CASE TanRefused(r)
  <2>1. PICK p \in {"mark", "commit"}, c \in Conns \cup {NoConn}, s \in [Conns -> Statuses] :
          Refused(r, p, c, s)
    BY <1>6, RefusedShape
  <2>2. /\ req'[r].kind = req[r].kind /\ req'[r].pc = p
        /\ req[r].pc = "tan" /\ pending' = pending
    BY <1>6, <2>1 DEF TanRefused, Refused, Request
  <2>3. QED
    BY <2>2 DEF GoesOn
<1>7. CASE MarkError(r) \/ ImportBegin(r)
  BY <1>7 DEF MarkError, ImportBegin, Request, GoesOn
<1>8. CASE LinkStore(r)
  <2>1. CASE req[r].tan
    BY <1>8, <2>1, UpsertFields, Names DEF LinkStore, GoesOn
  <2>2. CASE ~req[r].tan
    BY <1>8, <2>2, UpsertFields, Names DEF LinkStore, GoesOn
  <2>3. QED
    BY <2>1, <2>2
<1>9. CASE FetchAccounts(r)
  <2>1. PICK c \in Conns \cup {NoConn}, s \in [Conns -> Statuses] : Fetched(r, c, s)
    BY <1>9, FetchShape
  <2>2. /\ req'[r].kind = req[r].kind /\ req'[r].pc = "upsert"
        /\ req[r].pc = "accounts" /\ pending' = pending
    BY <1>9, <2>1 DEF FetchAccounts, Fetched, Request
  <2>3. QED
    BY <2>2 DEF GoesOn
<1>10. CASE StoreAccounts(r)
  BY <1>10, UpsertFields, Names DEF StoreAccounts, GoesOn
<1>11. CASE LinkEnd(r)
  <2>1. /\ req'[r].kind = req[r].kind /\ req'[r].pc = "commit"
        /\ req[r].pc \in {"accounts", "booking"} /\ pending' = pending
    BY <1>11 DEF LinkEnd, Request
  <2>2. QED
    BY <2>1 DEF GoesOn
<1>12. QED
  BY <1>1, <1>2, <1>3, <1>4, <1>5, <1>6, <1>7, <1>8, <1>9, <1>10, <1>11 DEF Proceed

\* What the end of an import leaves: the loop goes on, or nothing is pending.
LEMMA ImportEndPending ==
  ASSUME TypeInv, LockInv, NEW r \in Requests, ImportEnd(r)
  PROVE  /\ req[r].pc = "fetch" /\ req'[r].kind = req[r].kind
         /\ req'[r].pc \in {"rate", "commit"}
         /\ req[r].kind = "sync" => pending' = pending
         /\ req[r].kind # "sync" => req[r].kind = "confirm" /\ req'[r].pc = "commit"
<1> USE Mine
<1>1. req[r].pc = "fetch" /\ req[r].kind \in {"sync", "confirm"} /\ req[r].conn \in Conns
  BY DEF ImportEnd, LoopOK, PlaceOK
<1> DEFINE q == IF req[r].kind = "sync" THEN LoopOn(r, req[r].conn)
                ELSE [req[r] EXCEPT !.pc = "commit"]
           v == Imported(q, req[r].conn, SetStatus(r, req[r].conn, "idle"))
<1>2. /\ q \in Request /\ q.kind = req[r].kind /\ q.pc \in {"rate", "commit"}
      /\ q.kind # "sync" => q.pc = "commit"
  <2>1. CASE req[r].kind = "sync"
    <3>1. q = LoopOn(r, req[r].conn)
      BY <2>1
    <3>2. q \in Request /\ q.pc \in {"commit", "rate"}
      BY <1>1, <3>1, LoopOnType
    <3>3. q.kind = req[r].kind
      BY <3>1 DEF LoopOn, Request
    <3> HIDE DEF q
    <3>4. QED
      BY <2>1, <3>2, <3>3
  <2>2. CASE req[r].kind # "sync"
    <3>1. q = [req[r] EXCEPT !.pc = "commit"]
      BY <2>2
    <3>2. QED
      BY <2>2, <3>1 DEF Request, Places
  <2>3. QED
    BY <2>1, <2>2
<1>3. req'[r] = v
  BY DEF ImportEnd
<1> HIDE DEF q
<1>4. v.kind = q.kind /\ v.pc = q.pc
  BY <1>2 DEF Imported, Request
<1>5. QED
  BY <1>1, <1>2, <1>3, <1>4 DEF ImportEnd

LEMMA NextPending ==
  ASSUME OneRequest
  PROVE  TypeInv /\ LockInv /\ PendingInv /\ [Next]_vars => PendingInv'
<1> SUFFICES ASSUME TypeInv, LockInv, PendingInv, [Next]_vars PROVE PendingInv'
  OBVIOUS
<1>1. CASE UNCHANGED vars
  BY <1>1 DEF vars, PendingInv
<1>2. ASSUME NEW r \in Requests, Proceed(r) \/ Interfere(r) PROVE PendingInv'
  <2>1. \A q \in Requests : q = r
    BY DEF OneRequest
  <2>2. CASE Proceed(r) /\ GoesOn(r)
    BY <2>1, <2>2 DEF PendingInv, GoesOn
  <2>3. CASE Commit(r) \/ ImportRaises(r) \/ LinkRaises(r) \/ RollBack(r)
    <3>1. req'[r].kind = "none"
      BY <2>3, Mine DEF Commit, ImportRaises, LinkRaises, RollBack, NoRequest
    <3>2. QED
      BY <2>1, <3>1 DEF PendingInv
  <2>4. CASE ImportEnd(r)
    <3>1. req'[r].kind = "sync" => pending' = NoPending
      BY <2>4, ImportEndPending DEF PendingInv
    <3>2. req'[r].kind = "confirm" => req'[r].pc = "commit"
      BY <2>4, ImportEndPending
    <3>3. QED
      BY <2>1, <3>1, <3>2 DEF PendingInv
  <2>5. ASSUME NEW d \in Dialogs, LoginNeedsApproval(r, d) PROVE PendingInv'
    <3>1. req'[r].pc = "commit"
      BY <2>5, Mine DEF LoginNeedsApproval, Request
    <3>2. QED
      BY <2>1, <3>1 DEF PendingInv
  <2>6. CASE StartHouseholdSync(r)
    <3>1. req'[r].kind = "sync" /\ pending' = NoPending
      BY <2>6, Mine DEF StartHouseholdSync, NoLoginWaits, NoRequest
    <3>2. QED
      BY <2>1, <3>1 DEF PendingInv
  <2>7. CASE ConfirmHouseholdSync(r)
    <3>1. /\ req'[r].kind = "confirm" /\ pending' # NoPending
          /\ req'[r].dlg = pending'.dlg
      BY <2>7, Mine DEF ConfirmHouseholdSync, NoRequest
    <3>2. QED
      BY <2>1, <3>1 DEF PendingInv
  <2>8. CASE \/ \E d \in Dialogs : SubmitTan(r, d)
             \/ \E b \in Banks, d \in Dialogs, tan \in BOOLEAN : LinkConnect(r, b, d, tan)
    <3>1. ASSUME NEW d \in Dialogs, SubmitTan(r, d) PROVE req'[r].kind = "tan"
      BY <3>1, Mine DEF SubmitTan, NoRequest
    <3>2. ASSUME NEW b \in Banks, NEW d \in Dialogs, NEW tan \in BOOLEAN,
                 LinkConnect(r, b, d, tan)
          PROVE  req'[r].kind = "link"
      <4>1. PICK c, s :
              req' = [req EXCEPT ![r] =
                       [NoRequest EXCEPT !.pc = "store", !.kind = "link", !.bank = b,
                          !.dlg = d, !.tan = tan, !.conn = c, !.seen = s]]
        BY <3>2 DEF LinkConnect
      <4>2. QED
        BY <4>1, Mine DEF NoRequest
    <3>3. QED
      BY <2>1, <2>8, <3>1, <3>2 DEF PendingInv
  <2>9. QED
    BY <1>2, <2>2, <2>3, <2>4, <2>5, <2>6, <2>7, <2>8, ProceedGoesOn DEF Interfere
<1>3. CASE World
  <2>1. CASE Restart
    BY <2>1 DEF Restart, PendingInv, NoRequest
  <2>2. CASE ~Restart
    BY <1>3, <2>2
       DEF World, StaleScan, StaleMark, Approve, Expire, HourPasses, MonthPasses,
           RedisFails, RedisRecovers, PendingInv
  <2>3. QED
    BY <2>1, <2>2
<1>4. QED
  BY <1>1, <1>2, <1>3 DEF Next

\* Only a confirm that has imported and a restart take a pending login away.
LEMMA PromptOK ==
  ASSUME OneRequest
  PROVE  TypeInv /\ LockInv /\ PendingInv /\ [Next]_vars =>
           [ pending # NoPending /\ pending' # pending
             => \/ \E r \in Requests : req[r].pc = "fetch" /\ req[r].dlg = pending.dlg
                                       /\ req'[r].pc = "commit"
                \/ \A r \in Requests : req'[r] = NoRequest ]_vars
<1> SUFFICES ASSUME TypeInv, LockInv, PendingInv, Next,
                    pending # NoPending, pending' # pending
             PROVE  \/ \E r \in Requests : req[r].pc = "fetch" /\ req[r].dlg = pending.dlg
                                           /\ req'[r].pc = "commit"
                    \/ \A r \in Requests : req'[r] = NoRequest
  OBVIOUS
<1>1. ASSUME NEW r \in Requests, ImportEnd(r)
      PROVE  req[r].pc = "fetch" /\ req[r].dlg = pending.dlg /\ req'[r].pc = "commit"
  BY <1>1, ImportEndPending DEF PendingInv
<1>2. ASSUME NEW r \in Requests, NEW d \in Dialogs, LoginNeedsApproval(r, d) PROVE FALSE
  <2>1. req[r].pc = "connect" /\ req[r].kind = "sync"
    BY <1>2, Mine DEF LoginNeedsApproval, LoopOK
  <2>2. QED
    BY <2>1 DEF PendingInv
<1>3. ASSUME NEW r \in Requests, Proceed(r) \/ Interfere(r) PROVE ImportEnd(r)
  <2>1. CASE Proceed(r) /\ ~Commit(r)
    BY <1>2, <2>1, ProceedGoesOn DEF GoesOn
  <2>2. CASE Commit(r) \/ Interfere(r)
    BY <2>2 DEF Commit, Interfere, StartHouseholdSync, ConfirmHouseholdSync, LinkConnect,
         SubmitTan, ImportRaises, LinkRaises, RollBack
  <2>3. QED
    BY <1>3, <2>1, <2>2
<1>4. CASE World
  BY <1>4 DEF World, StaleScan, StaleMark, Approve, Expire, HourPasses, MonthPasses,
       RedisFails, RedisRecovers, Restart
<1>5. QED
  BY <1>1, <1>3, <1>4 DEF Next

\* As long as requests do not overlap a login the user was asked to approve stays pending
\* until a confirm has imported from it, for any number of rows, banks and dialogs.
THEOREM PromptsStay ==
  ASSUME OneRequest
  PROVE  Spec => PromptedLoginStaysPending
<1>1. Init => TypeInv /\ LockInv /\ PendingInv
  <2> SUFFICES ASSUME Init PROVE TypeInv /\ LockInv /\ PendingInv
    OBVIOUS
  <2>1. \A r \in Requests : req[r] = NoRequest
    BY DEF Init
  <2>2. QED
    BY <2>1, InitType, InitLocks DEF PendingInv, NoRequest
<1>2. TypeInv /\ LockInv /\ PendingInv /\ [Next]_vars => (TypeInv /\ LockInv /\ PendingInv)'
  BY NextType, NextLocks, NextPending
<1>3. TypeInv /\ LockInv /\ PendingInv /\ [Next]_vars =>
           [ pending # NoPending /\ pending' # pending
             => \/ \E r \in Requests : req[r].pc = "fetch" /\ req[r].dlg = pending.dlg
                                       /\ req'[r].pc = "commit"
                \/ \A r \in Requests : req'[r] = NoRequest ]_vars
  BY PromptOK
<1>4. QED
  BY <1>1, <1>2, <1>3, PTL DEF Spec, PromptedLoginStaysPending

\* The Redis counter is there all the time.
RedisStays == {"redis", "no redis"} \cap Events = {}

\* A login that is counted is limited, and one that is about to be made is the first.
HourInv ==
  /\ redisUp
  /\ \A c \in Conns : starts[c] # 0 => c \in limited /\ starts[c] = 1
  /\ \A r \in Requests :
       /\ req[r].pc \in {"incr", "connect"} => starts[req[r].conn] = 0
       /\ req[r].pc = "connect" => req[r].conn \in limited

LEMMA InitHour ==
  ASSUME RedisStays
  PROVE  Init => HourInv
<1> SUFFICES ASSUME Init PROVE HourInv
  OBVIOUS
<1>1. redisUp
  BY Zenon DEF Init, RedisStays
<1>2. \A r \in Requests : req[r].pc = "idle"
  BY DEF Init, NoRequest
<1>3. \A c \in Conns : starts[c] = 0
  BY DEF Init
<1>4. QED
  BY <1>1, <1>2, <1>3 DEF HourInv

LEMMA NoRedisFails ==
  ASSUME RedisStays
  PROVE  ~RedisFails
BY Zenon DEF RedisStays, RedisFails

\* A login of r is counted.
LEMMA CountHour ==
  ASSUME TypeInv, LockInv, HourInv, OneRequest, NEW r \in Requests, req[r].pc = "connect",
         CountStart(req[r].conn), limited' = limited, redisUp' = redisUp,
         req'[r].pc \notin {"incr", "connect"}
  PROVE  HourInv'
<1>1. req[r].conn \in Conns /\ starts \in [Conns -> 0..2]
  BY DEF TypeInv, TypeOK, PlaceOK
<1>2. starts[req[r].conn] = 0 /\ req[r].conn \in limited
  BY DEF HourInv
<1>3. starts' = [starts EXCEPT ![req[r].conn] = 1]
  BY <1>1, <1>2 DEF CountStart
<1>4. \A q \in Requests : q = r
  BY DEF OneRequest
<1>5. QED
  BY <1>1, <1>2, <1>3, <1>4 DEF HourInv

LEMMA RequestHour ==
  ASSUME TypeInv, LockInv, HourInv, OneRequest, NEW r \in Requests, Proceed(r) \/ Interfere(r)
  PROVE  HourInv'
<1> USE Mine
<1>1. \A q \in Requests : q = r
  BY DEF OneRequest
<1>2. ASSUME NEW c \in Conns, RateLimitRead(r, c) PROVE HourInv'
  <2>1. UNCHANGED <<redisUp, limited, starts>> /\ redisUp
    BY <1>2 DEF RateLimitRead, redis, history, HourInv
  <2>2. CASE c \in limited
    <3>1. req'[r].pc \in {"rate", "commit"}
      BY <1>2, <2>1, <2>2 DEF RateLimitRead, LoopOn, Request
    <3>2. QED
      BY <1>1, <2>1, <3>1 DEF HourInv
  <2>3. CASE c \notin limited
    <3>1. req'[r].pc = "incr" /\ req'[r].conn = c
      BY <1>2, <2>1, <2>3 DEF RateLimitRead, Request
    <3>2. starts[c] = 0
      BY <2>3 DEF HourInv
    <3>3. QED
      BY <1>1, <2>1, <3>1, <3>2 DEF HourInv
  <2>4. QED
    BY <2>2, <2>3
<1>3. CASE RateLimitCount(r)
  <2>1. /\ req'[r].pc = "connect" /\ req'[r].conn = req[r].conn /\ req[r].pc = "incr"
        /\ limited' = limited \cup {req[r].conn} /\ redisUp' = redisUp /\ starts' = starts
    BY <1>3 DEF RateLimitCount, history, HourInv, Request
  <2>2. QED
    BY <1>1, <2>1 DEF HourInv
<1>4. ASSUME NEW d \in Dialogs, LoginNeedsApproval(r, d) \/ LoginOpens(r, d) PROVE HourInv'
  <2>1. req'[r].pc \in {"commit", "import"}
    BY <1>4 DEF LoginNeedsApproval, LoginOpens, Request
  <2>2. QED
    BY <1>4, <2>1, CountHour DEF LoginNeedsApproval, LoginOpens, redis
<1>5. ASSUME UNCHANGED <<redisUp, limited, starts>>, req'[r].pc \notin {"incr", "connect"}
      PROVE  HourInv'
  BY <1>1, <1>5 DEF HourInv
<1>6. CASE ImportEnd(r)
  <2>1. UNCHANGED <<redisUp, limited, starts>>
    BY <1>6 DEF ImportEnd, redis, history
  <2>2. QED
    BY <1>5, <1>6, <2>1, ImportEndPending
<1>7. CASE Commit(r) \/ ImportRaises(r) \/ LinkRaises(r) \/ RollBack(r)
  <2>1. UNCHANGED <<redisUp, limited, starts>> /\ req'[r].pc = "idle"
    BY <1>7 DEF Commit, ImportRaises, LinkRaises, RollBack, redis, history, NoRequest
  <2>2. QED
    BY <1>5, <2>1
<1>8. CASE StartHouseholdSync(r) \/ ConfirmHouseholdSync(r)
  <2>1. UNCHANGED <<redisUp, limited, starts>>
    BY <1>8 DEF StartHouseholdSync, ConfirmHouseholdSync, redis, history
  <2>2. req'[r].pc \in {"rate", "tan"}
    BY <1>8 DEF StartHouseholdSync, ConfirmHouseholdSync, NoRequest
  <2>3. QED
    BY <1>5, <2>1, <2>2
<1>9. ASSUME NEW d \in Dialogs, SubmitTan(r, d) PROVE HourInv'
  <2>1. UNCHANGED <<redisUp, limited, starts>> /\ req'[r].pc = "tan"
    BY <1>9 DEF SubmitTan, redis, history, NoRequest
  <2>2. QED
    BY <1>5, <2>1
<1>10. ASSUME NEW b \in Banks, NEW d \in Dialogs, NEW tan \in BOOLEAN, LinkConnect(r, b, d, tan)
       PROVE  HourInv'
  <2>1. PICK c, s :
          req' = [req EXCEPT ![r] =
                   [NoRequest EXCEPT !.pc = "store", !.kind = "link", !.bank = b,
                      !.dlg = d, !.tan = tan, !.conn = c, !.seen = s]]
    BY <1>10 DEF LinkConnect
  <2>2. req'[r].pc = "store"
    BY <2>1 DEF NoRequest
  <2>3. UNCHANGED <<redisUp, limited, starts>>
    BY <1>10 DEF LinkConnect, redis
  <2>4. QED
    BY <1>5, <2>2, <2>3
<1>11. CASE \/ LoginRefused(r) \/ TanAccepted(r) \/ TanRefused(r) \/ MarkError(r)
            \/ ImportBegin(r) \/ LinkStore(r) \/ FetchAccounts(r) \/ StoreAccounts(r)
            \/ LinkEnd(r)
  <2>1. req[r].pc \notin {"rate", "incr", "commit"}
    BY <1>11 DEF LoginRefused, TanAccepted, TanRefused, MarkError, ImportBegin, LinkStore,
         FetchAccounts, StoreAccounts, LinkEnd
  <2>2. UNCHANGED <<redisUp, limited, starts>>
    BY <1>11 DEF LoginRefused, TanAccepted, TanRefused, MarkError, ImportBegin, LinkStore,
         FetchAccounts, StoreAccounts, LinkEnd, redis, history
  <2>3. Proceed(r) /\ ~Commit(r)
    BY <1>11, <2>1 DEF Proceed, Commit
  <2>4. CASE ImportEnd(r) \/ \E d \in Dialogs : LoginNeedsApproval(r, d)
    BY <1>4, <1>6, <2>4
  <2>5. CASE ~ImportEnd(r) /\ \A d \in Dialogs : ~LoginNeedsApproval(r, d)
    BY <1>5, <2>1, <2>2, <2>3, <2>5, ProceedGoesOn DEF GoesOn
  <2>6. QED
    BY <2>4, <2>5
<1>12. QED
  BY <1>2, <1>3, <1>4, <1>6, <1>7, <1>8, <1>9, <1>10, <1>11 DEF Proceed, Interfere

LEMMA NextHour ==
  ASSUME OneRequest, RedisStays
  PROVE  TypeInv /\ LockInv /\ HourInv /\ [Next]_vars => HourInv'
<1> SUFFICES ASSUME TypeInv, LockInv, HourInv, [Next]_vars PROVE HourInv'
  OBVIOUS
<1>1. CASE UNCHANGED vars
  BY <1>1 DEF vars, redis, history, HourInv
<1>2. CASE \E r \in Requests : Proceed(r) \/ Interfere(r)
  BY <1>2, RequestHour
<1>3. CASE World
  <2>1. CASE Restart
    BY <2>1 DEF Restart, HourInv, NoRequest, redis, history
  <2>2. ASSUME NEW c \in Conns, HourPasses(c) PROVE HourInv'
    <3>1. starts \in [Conns -> 0..2]
      BY DEF TypeInv, TypeOK
    <3>2. starts' = [starts EXCEPT ![c] = 0] /\ limited' = limited \ {c} /\ req' = req
          /\ redisUp' = redisUp
      BY <2>2 DEF HourPasses
    <3>3. \A r \in Requests : req[r].pc = "connect" => req[r].conn # c
      BY <2>2 DEF HourPasses
    <3>4. \A r \in Requests : req[r].pc \in {"incr", "connect"} => req[r].conn \in Conns
      BY Mine DEF PlaceOK
    <3>5. QED
      BY <3>1, <3>2, <3>3, <3>4 DEF HourInv
  <2>3. CASE RedisRecovers
    BY <2>3 DEF RedisRecovers, HourInv
  <2>4. CASE UNCHANGED <<redisUp, limited, starts, req>>
    BY <2>4 DEF HourInv
  <2>5. QED
    BY <1>3, <2>1, <2>2, <2>3, <2>4, NoRedisFails
       DEF World, StaleScan, StaleMark, Approve, Expire, MonthPasses, redis, history
<1>4. QED
  BY <1>1, <1>2, <1>3 DEF Next

-----------------------------------------------------------------------------
(* One row per bank *)

OneRowPerBank == \A c, k \in rows : blz[c] = blz[k] => c = k

OnePerBankAtFirst == \A c, k \in DOMAIN InitialBlz : InitialBlz[c] = InitialBlz[k] => c = k

\* No stored row is of the bank of the request.
Lone(q) == \A c \in rows : blz[c] # q.bank

\* A request writes at most the row at hand, and a new one only if its bank has none.
FirstOK(q) ==
  /\ q.wpin \subseteq {q.conn}
  /\ q.pc \in {"idle", "rate", "incr", "connect", "tan", "mark", "import", "fetch", "store"}
       => q.wpin = {}
  /\ q.wpin \ rows # {} \/ (q.pc \in {"store", "upsert"} /\ q.conn = NoConn) => Lone(q)

RowInv == OneRowPerBank /\ \A r \in Requests : FirstOK(req[r])

LEMMA NoRequestFirst == FirstOK(NoRequest)
BY DEF FirstOK, NoRequest

\* A step that stores no row.
LEMMA RowStep ==
  ASSUME OneRequest, RowInv, NEW r \in Requests, UNCHANGED <<rows, blz>>, FirstOK(req[r])'
  PROVE  RowInv'
<1>1. \A q \in Requests : q = r
  BY DEF OneRequest
<1>2. \A q \in Requests : FirstOK(req[q])'
  BY <1>1
<1>3. OneRowPerBank'
  BY DEF RowInv, OneRowPerBank
<1>4. QED
  BY <1>2, <1>3 DEF RowInv

\* One of a request that writes no credentials and is not to look for a row.
LEMMA NothingWritten ==
  ASSUME NEW r \in Requests, req'[r].wpin = {}, req'[r].pc \notin {"store", "upsert"}
  PROVE  FirstOK(req[r])'
BY DEF FirstOK

\* upsert_bank_connection makes a row only if the bank has none.
LEMMA UpsertFirst ==
  ASSUME TypeInv, BankInv, RowInv, NEW r \in Requests, NEW s \in Statuses, NEW next \in Places,
         req[r].pc \in {"store", "upsert"}, Upsert(r, s, next),
         next \in {"commit", "accounts", "booking"}, UNCHANGED <<rows, blz>>
  PROVE  FirstOK(req[r])'
<1>1. PICK c \in Conns, w \in [Conns -> Statuses \cup {Keep}] : Upserted(r, s, next, c, w)
  BY UpsertShape
<1>2. req[r] \in Request /\ FirstOK(req[r]) /\ RowOfBank(req[r])
  BY DEF TypeInv, TypeOK, RowInv, BankInv, RightBank
<1>3. /\ req'[r].conn = c /\ req'[r].wpin = req[r].wpin \cup {c} /\ req'[r].pc = next
      /\ req'[r].bank = req[r].bank /\ req'[r].kind = req[r].kind
  BY <1>1, <1>2 DEF Upserted, Request
<1>4. req'[r].wpin = {c}
  <2>1. CASE req[r].conn = NoConn
    <3>1. NoConn \notin Conns
      BY DEF NoConn, Conns
    <3>2. req[r].wpin \subseteq Conns /\ req[r].wpin \subseteq {NoConn}
      BY <1>2, <2>1 DEF FirstOK, Request
    <3>3. QED
      BY <1>3, <3>1, <3>2
  <2>2. CASE req[r].conn # NoConn
    <3>1. c = req[r].conn
      BY <1>1, <2>2 DEF Upserted
    <3>2. QED
      BY <1>2, <1>3, <3>1 DEF FirstOK
  <2>3. QED
    BY <2>1, <2>2
<1>5. c \notin rows => Lone(req[r])
  <2>1. CASE req[r].conn = NoConn
    BY <1>2, <2>1 DEF FirstOK
  <2>2. CASE req[r].conn # NoConn
    <3>1. c = req[r].conn
      BY <1>1, <2>2 DEF Upserted
    <3>2. QED
      BY <1>2, <2>2, <3>1 DEF FirstOK, RowOfBank
  <2>3. QED
    BY <2>1, <2>2
<1>6. Lone(req[r])' = Lone(req[r])
  BY <1>3 DEF Lone
<1>7. QED
  BY <1>3, <1>4, <1>5, <1>6 DEF FirstOK

\* Once the request has written its row, the second query finds that row again, and no
\* other one.
LEMMA FetchedRow ==
  ASSUME TypeInv, BankInv, RowInv, NEW r \in Requests, req[r].wpin # {},
         req[r].pc = "accounts"
  PROVE  Linked(r, req[r].bank) = {req[r].conn}
<1>1. /\ RowOfBank(req[r]) /\ FirstOK(req[r]) /\ OneRowPerBank
  BY DEF BankInv, RightBank, RowInv
<1>2. req[r].wpin = {req[r].conn}
  BY <1>1 DEF FirstOK
<1>3. CASE req[r].conn \in rows
  <2>1. blz[req[r].conn] = req[r].bank
    <3>1. rows \subseteq Conns
      BY DEF TypeInv, TypeOK
    <3>2. req[r].conn # NoConn
      BY <1>3, <3>1 DEF NoConn, Conns
    <3>3. QED
      BY <1>1, <1>3, <3>2 DEF RowOfBank
  <2>2. \A c \in rows : blz[c] = req[r].bank => c = req[r].conn
    BY <1>1, <1>3, <2>1 DEF OneRowPerBank
  <2>3. req[r].wpin \ rows = {}
    BY <1>2, <1>3
  <2>4. QED
    BY <1>3, <2>1, <2>2, <2>3 DEF Linked
<1>4. CASE req[r].conn \notin rows
  BY <1>1, <1>2, <1>4 DEF FirstOK, Lone, Linked
<1>5. QED
  BY <1>3, <1>4

LEMMA ProceedFirst ==
  ASSUME TypeInv, BankInv, LockInv, RowInv, NEW r \in Requests, Proceed(r), ~Commit(r)
  PROVE  FirstOK(req[r])' /\ UNCHANGED <<rows, blz>>
<1>0. FirstOK(req[r])
  BY DEF RowInv
<1>a. req \in [Requests -> Request] /\ req[r] \in Request /\ PlaceOK(req[r])
  BY Mine
<1> USE <1>a
<1>1. ASSUME NEW c \in Conns, RateLimitRead(r, c) PROVE FirstOK(req[r])' /\ UNCHANGED <<rows, blz>>
  <2>1. /\ req'[r].pc \in {"commit", "rate", "incr", "connect"}
        /\ req'[r].wpin = req[r].wpin /\ req[r].pc = "rate"
    BY <1>1 DEF RateLimitRead, IsNext, LoopOn, Request
  <2>2. QED
    BY <1>0, <1>1, <2>1, NothingWritten DEF FirstOK, RateLimitRead, db
<1>2. CASE RateLimitCount(r)
  <2>1. req'[r].pc = "connect" /\ req'[r].wpin = req[r].wpin /\ req[r].pc = "incr"
    BY <1>2 DEF RateLimitCount, Request
  <2>2. QED
    BY <1>0, <1>2, <2>1, NothingWritten DEF FirstOK, RateLimitCount, db
<1>3. CASE LoginRefused(r)
  <2>1. /\ req'[r].pc \in {"commit", "rate"} /\ req'[r].wpin = req[r].wpin
        /\ req[r].pc = "connect"
    BY <1>3 DEF LoginRefused, LoopOn, Request
  <2>2. QED
    BY <1>0, <1>3, <2>1, NothingWritten DEF FirstOK, LoginRefused, db
<1>4. ASSUME NEW d \in Dialogs, LoginNeedsApproval(r, d) \/ LoginOpens(r, d)
      PROVE  FirstOK(req[r])' /\ UNCHANGED <<rows, blz>>
  <2>1. /\ req'[r].pc \in {"commit", "import"} /\ req'[r].wpin = req[r].wpin
        /\ req[r].pc = "connect" /\ UNCHANGED <<rows, blz>>
    <3>1. CASE LoginNeedsApproval(r, d)
      BY <3>1 DEF LoginNeedsApproval, Request, db
    <3>2. CASE LoginOpens(r, d)
      BY <3>2 DEF LoginOpens, Request, db
    <3>3. QED
      BY <1>4, <3>1, <3>2
  <2>2. QED
    BY <1>0, <2>1, NothingWritten DEF FirstOK
<1>5. CASE TanAccepted(r)
  <2>1. /\ req'[r].pc \in {"import", "accounts", "commit"} /\ req'[r].wpin = req[r].wpin
        /\ req[r].pc = "tan"
    BY <1>5 DEF TanAccepted, Request
  <2>2. QED
    BY <1>0, <1>5, <2>1, NothingWritten DEF FirstOK, TanAccepted, db
<1>6. CASE TanRefused(r)
  <2>1. PICK p \in {"mark", "commit"}, c \in Conns \cup {NoConn}, s \in [Conns -> Statuses] :
          Refused(r, p, c, s)
    BY <1>6, RefusedShape
  <2>2. req'[r].pc = p /\ req'[r].wpin = req[r].wpin
    BY <2>1 DEF Refused, Request
  <2>3. req[r].pc = "tan" /\ UNCHANGED <<rows, blz>>
    BY <1>6, Zenon DEF TanRefused, db
  <2>4. QED
    BY <1>0, <2>2, <2>3, NothingWritten DEF FirstOK
<1>7. CASE MarkError(r) \/ ImportBegin(r)
  <2>1. /\ req'[r].pc \in {"commit", "fetch"} /\ req'[r].wpin = req[r].wpin
        /\ req[r].pc \in {"mark", "import"}
    BY <1>7 DEF MarkError, ImportBegin, Request
  <2>2. QED
    BY <1>0, <1>7, <2>1, NothingWritten DEF FirstOK, MarkError, ImportBegin, db
<1>8. CASE ImportEnd(r)
  <2>1. PICK q \in Request :
          /\ q.pc \in {"commit", "rate"} /\ q.wpin = req[r].wpin
          /\ req'[r] = [q EXCEPT !.wrote  = SetStatus(r, req[r].conn, "idle"),
                                 !.wsync  = @ \cup {req[r].conn},
                                 !.booked = @ \cup {req[r].conn}]
    <3>1. LET q == [req[r] EXCEPT !.pc = "commit"]
          IN  q \in Request /\ q.pc = "commit" /\ q.wpin = req[r].wpin
      BY DEF Request, Places
    <3>2. req[r].conn \in Conns
      BY <1>8 DEF ImportEnd, PlaceOK
    <3>3. LoopOn(r, req[r].conn).wpin = req[r].wpin
      BY DEF LoopOn, Request
    <3>4. QED
      BY <1>8, <3>1, <3>2, <3>3, LoopOnType DEF ImportEnd, Imported
  <2>2. req'[r].pc \in {"commit", "rate"} /\ req'[r].wpin = req[r].wpin /\ req[r].pc = "fetch"
    BY <1>8, <2>1 DEF ImportEnd, Request
  <2>3. QED
    BY <1>0, <1>8, <2>2, NothingWritten DEF FirstOK, ImportEnd, db
<1>9. CASE LinkStore(r)
  <2>1. PICK s \in {"syncing", "idle"}, next \in {"commit", "accounts"} : Upsert(r, s, next)
    BY <1>9 DEF LinkStore
  <2>2. req[r].pc = "store" /\ UNCHANGED <<rows, blz>>
    BY <1>9 DEF LinkStore, db
  <2>3. QED
    BY <2>1, <2>2, UpsertFirst, Names
<1>10. CASE FetchAccounts(r)
  <2>1. PICK c \in Conns \cup {NoConn}, s \in [Conns -> Statuses] : Fetched(r, c, s)
    BY <1>10, FetchShape
  <2>2. /\ req'[r].pc = "upsert" /\ req'[r].conn = c /\ req'[r].wpin = req[r].wpin
        /\ req'[r].bank = req[r].bank
    BY <2>1 DEF Fetched, Request
  <2>3. req[r].pc = "accounts" /\ UNCHANGED <<rows, blz>>
    BY <1>10, Zenon DEF FetchAccounts, db
  <2>4. Lone(req[r])' = Lone(req[r])
    BY <2>2, <2>3 DEF Lone
  <2>5. c = NoConn => Lone(req[r])
    <3>1. NoConn \notin Conns /\ Linked(r, req[r].bank) \subseteq Conns
      <4>1. req[r].wpin \subseteq Conns /\ rows \subseteq Conns
        BY DEF Request, TypeInv, TypeOK
      <4>2. Linked(r, req[r].bank) \subseteq Conns
        BY <4>1 DEF Linked
      <4>3. QED
        BY <4>2 DEF NoConn, Conns
    <3>2. c = NoConn => Linked(r, req[r].bank) = {}
      BY <2>1, <3>1 DEF Fetched
    <3>3. QED
      BY <3>2 DEF Linked, Lone
  <2>6. CASE req[r].wpin = {}
    BY <2>2, <2>3, <2>4, <2>5, <2>6 DEF FirstOK
  <2>7. CASE req[r].wpin # {}
    <3>1. c = req[r].conn
      BY <2>1, <2>3, <2>7, FetchedRow DEF Fetched
    <3>2. QED
      BY <1>0, <2>2, <2>3, <2>4, <2>5, <3>1 DEF FirstOK
  <2>8. QED
    BY <2>3, <2>6, <2>7
<1>11. CASE StoreAccounts(r)
  BY <1>11, UpsertFirst, Names DEF StoreAccounts, db
<1>12. CASE LinkEnd(r)
  <2>1. /\ req'[r].pc = "commit" /\ req'[r].conn = req[r].conn /\ req'[r].wpin = req[r].wpin
        /\ req'[r].bank = req[r].bank
    <3>1. \E w : req' = [req EXCEPT ![r] = [req[r] EXCEPT !.pc = "commit", !.booked = w]]
      BY <1>12, LinkEndShape
    <3>2. QED
      BY <3>1 DEF Request
  <2>2. UNCHANGED <<rows, blz>>
    BY <1>12 DEF LinkEnd, db
  <2>3. Lone(req[r])' = Lone(req[r])
    BY <2>1, <2>2 DEF Lone
  <2>4. QED
    BY <1>0, <2>1, <2>2, <2>3 DEF FirstOK
<1>13. QED
  BY <1>1, <1>2, <1>3, <1>4, <1>5, <1>6, <1>7, <1>8, <1>9, <1>10, <1>11, <1>12 DEF Proceed

LEMMA InterfereFirst ==
  ASSUME TypeInv, BankInv, LockInv, RowInv, NEW r \in Requests, Interfere(r)
  PROVE  FirstOK(req[r])' /\ UNCHANGED <<rows, blz>>
<1>a. req \in [Requests -> Request] /\ req[r] \in Request /\ rows \subseteq Conns
  BY Mine
<1> USE <1>a
<1>1. CASE StartHouseholdSync(r)
  <2>1. req'[r].pc = "rate" /\ req'[r].wpin = {}
    BY <1>1 DEF StartHouseholdSync, NoRequest
  <2>2. QED
    <3>1. UNCHANGED <<rows, blz>>
      BY <1>1, Zenon DEF StartHouseholdSync, db
    <3>2. QED
      BY <2>1, <3>1, NothingWritten
<1>2. CASE ConfirmHouseholdSync(r)
  <2>1. req'[r].pc = "tan" /\ req'[r].wpin = {}
    BY <1>2 DEF ConfirmHouseholdSync, NoRequest
  <2>2. QED
    BY <1>2, <2>1, NothingWritten DEF ConfirmHouseholdSync, db
<1>3. ASSUME NEW d \in Dialogs, SubmitTan(r, d) PROVE FirstOK(req[r])' /\ UNCHANGED <<rows, blz>>
  <2>1. req'[r].pc = "tan" /\ req'[r].wpin = {}
    BY <1>3 DEF SubmitTan, NoRequest
  <2>2. QED
    BY <1>3, <2>1, NothingWritten DEF SubmitTan, db
<1>4. CASE ImportRaises(r) \/ LinkRaises(r) \/ RollBack(r)
  <2>1. req'[r] = NoRequest /\ UNCHANGED <<rows, blz>>
    BY <1>4 DEF ImportRaises, LinkRaises, RollBack, db
  <2>2. QED
    BY <2>1, NothingWritten DEF NoRequest
<1>5. ASSUME NEW b \in Banks, NEW d \in Dialogs, NEW tan \in BOOLEAN, LinkConnect(r, b, d, tan)
      PROVE  FirstOK(req[r])' /\ UNCHANGED <<rows, blz>>
  <2>1. PICK c \in IF Linked(r, b) = {} THEN {NoConn} ELSE Linked(r, b) :
          \E s : req' = [req EXCEPT ![r] =
            [NoRequest EXCEPT !.pc = "store", !.kind = "link", !.bank = b,
               !.dlg = d, !.tan = tan, !.conn = c, !.seen = s]]
    BY <1>5 DEF LinkConnect
  <2>2. /\ req'[r].pc = "store" /\ req'[r].kind = "link" /\ req'[r].bank = b
        /\ req'[r].conn = c /\ req'[r].wpin = {}
    BY <2>1 DEF NoRequest
  <2>3. UNCHANGED <<rows, blz>>
    BY <1>5, Zenon DEF LinkConnect, db
  <2>4. NoConn \notin Conns /\ Linked(r, b) \subseteq Conns
    <3>1. req[r].wpin \subseteq Conns
      BY DEF Request
    <3>2. Linked(r, b) \subseteq Conns
      BY <3>1 DEF Linked
    <3>3. QED
      BY <3>2 DEF NoConn, Conns
  <2>5. c = NoConn => \A k \in rows : blz[k] # b
    BY <2>1, <2>4 DEF Linked
  <2>6. QED
    BY <2>2, <2>3, <2>5 DEF FirstOK, Lone
<1>6. QED
  BY <1>1, <1>2, <1>3, <1>4, <1>5 DEF Interfere

LEMMA CommitFirst ==
  ASSUME OneRequest, TypeInv, RowInv, NEW r \in Requests, Commit(r)
  PROVE  RowInv'
<1>1. /\ rows' = rows \cup req[r].wpin /\ req'[r] = NoRequest
      /\ \A c \in Conns : blz'[c] = IF c \in req[r].wpin \ rows THEN req[r].bank ELSE blz[c]
  BY DEF Commit, TypeInv, TypeOK
<1>2. /\ rows \subseteq Conns /\ req[r].wpin \subseteq Conns
      /\ req[r].wpin \subseteq {req[r].conn} /\ OneRowPerBank
      /\ req[r].wpin \ rows # {} => Lone(req[r])
  BY DEF TypeInv, TypeOK, Request, RowInv, FirstOK
<1>3. ASSUME NEW c \in rows', NEW k \in rows', blz'[c] = blz'[k] PROVE c = k
  <2>1. CASE c \in rows /\ k \in rows
    BY <1>1, <1>2, <1>3, <2>1 DEF OneRowPerBank
  <2>2. CASE c \notin rows /\ k \notin rows
    BY <1>1, <1>2, <2>2
  <2>3. CASE c \in rows /\ k \notin rows
    BY <1>1, <1>2, <1>3, <2>3 DEF Lone
  <2>4. CASE c \notin rows /\ k \in rows
    BY <1>1, <1>2, <1>3, <2>4 DEF Lone
  <2>5. QED
    BY <2>1, <2>2, <2>3, <2>4
<1>4. OneRowPerBank'
  BY <1>3 DEF OneRowPerBank
<1>5. \A q \in Requests : FirstOK(req[q])'
  <2>1. \A q \in Requests : q = r
    BY DEF OneRequest
  <2>2. FirstOK(req[r])'
    BY <1>1, NothingWritten DEF NoRequest
  <2>3. QED
    BY <2>1, <2>2
<1>6. QED
  BY <1>4, <1>5 DEF RowInv

LEMMA NextRows ==
  ASSUME OneRequest
  PROVE  TypeInv /\ BankInv /\ LockInv /\ RowInv /\ [Next]_vars => RowInv'
<1> SUFFICES ASSUME TypeInv, BankInv, LockInv, RowInv, [Next]_vars PROVE RowInv'
  OBVIOUS
<1>1. ASSUME NEW r \in Requests, Proceed(r) \/ Interfere(r) PROVE RowInv'
  BY <1>1, ProceedFirst, InterfereFirst, CommitFirst, RowStep
<1>2. ASSUME UNCHANGED <<rows, blz>>,
             req' = req \/ \A r \in Requests : req'[r] = NoRequest
      PROVE  RowInv'
  <2>1. OneRowPerBank'
    BY <1>2 DEF RowInv, OneRowPerBank
  <2>2. ASSUME NEW r \in Requests PROVE FirstOK(req[r])'
    <3>1. CASE req' = req
      BY <1>2, <3>1 DEF RowInv, FirstOK, Lone
    <3>2. CASE \A q \in Requests : req'[q] = NoRequest
      BY <3>2, NothingWritten DEF NoRequest
    <3>3. QED
      BY <1>2, <3>1, <3>2
  <2>3. QED
    BY <2>1, <2>2 DEF RowInv
<1>3. CASE World
  <2>1. CASE Restart
    BY <1>2, <2>1 DEF Restart, db
  <2>2. CASE ~Restart
    BY <1>2, <1>3, <2>2
       DEF World, StaleScan, StaleMark, Approve, Expire, Close, HourPasses, MonthPasses,
           RedisFails, RedisRecovers, db
  <2>3. QED
    BY <2>1, <2>2
<1>4. CASE UNCHANGED vars
  BY <1>2, <1>4 DEF vars, db
<1>5. QED
  BY <1>1, <1>3, <1>4 DEF Next

\* As long as requests do not overlap a bank has one row, however many dialogs of it are
\* open and however they end, for any number of banks, rows and dialogs.
THEOREM OneRowStays ==
  ASSUME OneRequest, OnePerBankAtFirst
  PROVE  Spec => []OneRowPerBank
<1>1. Init => TypeInv /\ BankInv /\ LockInv /\ RowInv
  <2> SUFFICES ASSUME Init PROVE TypeInv /\ BankInv /\ LockInv /\ RowInv
    OBVIOUS
  <2>1. OneRowPerBank
    <3>1. rows \subseteq Conns
      BY InitType DEF TypeInv, TypeOK
    <3>2. \A c \in rows : c \in DOMAIN InitialBlz /\ blz[c] = InitialBlz[c]
      BY <3>1 DEF Init
    <3>3. QED
      BY <3>2 DEF OneRowPerBank, OnePerBankAtFirst
  <2>2. \A r \in Requests : req[r] = NoRequest
    BY DEF Init
  <2>3. QED
    BY <2>1, <2>2, InitType, InitBank, InitLocks, NoRequestFirst DEF RowInv
<1>2. TypeInv /\ BankInv /\ LockInv /\ RowInv /\ [Next]_vars
        => (TypeInv /\ BankInv /\ LockInv /\ RowInv)'
  BY NextType, NextBank, NextLocks, NextRows
<1>3. RowInv => OneRowPerBank
  BY DEF RowInv
<1>4. QED
  BY <1>1, <1>2, <1>3, PTL DEF Spec

\* The hourly limit is kept as long as requests do not overlap and Redis is there, for any
\* number of rows and banks: a second login of a row within its hour finds it counted, and
\* a bank has no second row.
THEOREM OneStartAnHour ==
  ASSUME OneRequest, RedisStays, OnePerBankAtFirst
  PROVE  Spec => []OneStartPerHour
<1>1. Init => TypeInv /\ LockInv /\ HourInv
  BY InitType, InitLocks, InitHour
<1>2. TypeInv /\ LockInv /\ HourInv /\ [Next]_vars => (TypeInv /\ LockInv /\ HourInv)'
  BY NextType, NextLocks, NextHour
<1>3. TypeInv /\ HourInv /\ OneRowPerBank => OneStartPerHour
  BY DEF HourInv, OneStartPerHour, OneRowPerBank, TypeInv, TypeOK
<1>4. Spec => []OneRowPerBank
  BY OneRowStays
<1>5. QED
  BY <1>1, <1>2, <1>3, <1>4, PTL DEF Spec
=============================================================================
