------------------------- MODULE ImportLedgerProofs -------------------------
(***************************************************************************)
(* Theorems about ImportLedger, for any number of sessions, bookings and   *)
(* accounts, any amounts and any order of what the bank posts.             *)
(***************************************************************************)
EXTENDS ImportLedger, SequenceTheorems, TLAPS

-----------------------------------------------------------------------------
(* Types *)

\* The fields of a session that are set at each place of it.
PlaceOK(w) ==
  /\ w.pc \in {"idle", "lock", "lock only", "accounts", "find", "create", "done"}
       => w.acc = NoAccount
  /\ w.pc \in {"bookings", "look", "insert", "flush"} => w.acc \in Accounts
  /\ w.acc = NoAccount => w.new = {} /\ w.got = {} /\ w.opening = Keep
  /\ w.pc = "bookings" => w.new = {} /\ w.got = {}
  /\ w.pc = "insert" => w.todo # <<>>
  /\ w.pc \in {"flush", "commit"} /\ w.acc # NoAccount => w.todo = <<>>
  /\ w.pc = "flush" => w.at # None
  /\ w.pc = "create" => w.makes
  /\ w.makes => w.pc = "create" \/ w.acc # NoAccount
  /\ w.makes /\ w.acc # NoAccount => w.opening # Keep
  /\ ~w.makes /\ w.opening # Keep => w.at # None /\ w.pc \in {"flush", "commit"}
  /\ w.pc \notin {"flush", "commit"} \/ w.acc = NoAccount => w.late = 0

TypeInv == TypeOK /\ \A s \in Sessions : PlaceOK(work[s])

LEMMA TotalType ==
  /\ \A A \in SUBSET Keys : Total[A] \in Int
  /\ \A A, B \in SUBSET Keys :
       A \cap B = {} => Total[A \cup B] = Total[A] + Total[B]
BY TotalAssumption

LEMMA NoSessionType ==
  /\ NoSession \in Session /\ PlaceOK(NoSession)
  /\ Ended \in Session /\ PlaceOK(Ended)
<1>1. NoSession \in Session
  BY DEF NoSession, Session, Places
<1>2. Ended \in Session
  BY <1>1 DEF Ended, Session, Places
<1>3. PlaceOK(NoSession) /\ PlaceOK(Ended)
  BY DEF NoSession, Ended, PlaceOK
<1> QED
  BY <1>1, <1>2, <1>3

LEMMA InitType == Init => TypeInv
<1> SUFFICES ASSUME Init PROVE TypeInv
  OBVIOUS
<1>1. 1 \in Accounts
  BY BankAssumption DEF Accounts
<1>2. 0 \in Postings /\ Len(List) \in Nat
  BY BankAssumption DEF Postings
<1>3. opening \in [Accounts -> Int]
  BY BankAssumption DEF Init
<1>4. QED
  BY <1>1, <1>2, <1>3, NoSessionType, BankAssumption DEF Init, TypeInv, TypeOK

\* A step that replaces one session by a well-formed one keeps the types.
LEMMA SessionStep ==
  ASSUME TypeInv, NEW s \in Sessions, NEW w \in Session, PlaceOK(w),
         work' = [work EXCEPT ![s] = w],
         UNCHANGED <<accounts, opening, booked, posted, known, asOf, unsent>>,
         overlapped' \in BOOLEAN
  PROVE  TypeInv'
BY DEF TypeInv, TypeOK

LEMMA BeginImportType ==
  ASSUME TypeInv, NEW s \in Sessions, BeginImport(s)
  PROVE  TypeInv'
<1> DEFINE w == [NoSession EXCEPT !.pc = IF s \in Links THEN "accounts" ELSE "lock"]
<1>1. w \in Session
  BY NoSessionType DEF Session, Places
<1>2. PlaceOK(w)
  BY DEF NoSession, PlaceOK
<1>3. work' = [work EXCEPT ![s] = w]
  BY DEF BeginImport
<1> QED
  BY <1>1, <1>2, <1>3, SessionStep DEF BeginImport, history, TypeInv, TypeOK

LEMMA LockType ==
  ASSUME TypeInv, NEW s \in Sessions, LockConnection(s)
  PROVE  TypeInv'
<1> DEFINE w == [work[s] EXCEPT !.pc =
                   IF work[s].pc = "lock only" THEN "commit"
                   ELSE IF s \in Links THEN "find" ELSE "accounts"]
<1>0. /\ work[s] \in Session /\ PlaceOK(work[s])
      /\ work[s].pc \in {"lock", "lock only"}
  BY DEF LockConnection, TypeInv, TypeOK
<1>1. w \in Session
  BY <1>0 DEF Session, Places
<1>2. PlaceOK(w)
  BY <1>0 DEF Session, PlaceOK
<1>3. work' = [work EXCEPT ![s] = w]
  BY DEF LockConnection
<1> QED
  BY <1>1, <1>2, <1>3, SessionStep DEF LockConnection, history, TypeInv, TypeOK

LEMMA FetchAccountsType ==
  ASSUME TypeInv, NEW s \in Sessions, FetchAccounts(s)
  PROVE  TypeInv'
<1>0. work[s] \in Session /\ PlaceOK(work[s]) /\ work[s].pc = "accounts"
  BY DEF FetchAccounts, TypeInv, TypeOK
<1>1. CASE work' = [work EXCEPT ![s].pc =
                      IF s \in Links THEN "lock only" ELSE "commit"]
  <2> DEFINE w == [work[s] EXCEPT !.pc = IF s \in Links THEN "lock only" ELSE "commit"]
  <2>1. w \in Session
    BY <1>0 DEF Session, Places
  <2>2. PlaceOK(w)
    BY <1>0 DEF Session, PlaceOK
  <2>3. work' = [work EXCEPT ![s] = w]
    BY <1>1
  <2> QED
    BY <2>1, <2>2, <2>3, SessionStep DEF FetchAccounts, history, TypeInv, TypeOK
<1>2. ASSUME NEW at \in {posted, None},
             work' = [work EXCEPT ![s].at = at,
                        ![s].pc = IF s \in Links THEN "lock" ELSE "find"]
      PROVE  TypeInv'
  <2> DEFINE w == [work[s] EXCEPT !.at = at,
                     !.pc = IF s \in Links THEN "lock" ELSE "find"]
  <2>1. w \in Session
    BY <1>0 DEF Session, Places, TypeInv, TypeOK
  <2>2. PlaceOK(w)
    BY <1>0 DEF Session, PlaceOK
  <2>3. work' = [work EXCEPT ![s] = w]
    BY <1>2
  <2> QED
    BY <2>1, <2>2, <2>3, SessionStep DEF FetchAccounts, history, TypeInv, TypeOK
<1> QED
  BY <1>1, <1>2 DEF FetchAccounts

LEMMA FindAccountType ==
  ASSUME TypeInv, NEW s \in Sessions, FindAccount(s)
  PROVE  TypeInv'
<1>0. work[s] \in Session /\ PlaceOK(work[s]) /\ work[s].pc = "find"
  BY DEF FindAccount, TypeInv, TypeOK
<1>1. CASE accounts = {}
  <2> DEFINE w == [work[s] EXCEPT !.makes = TRUE, !.pc = "create"]
  <2>1. w \in Session
    BY <1>0 DEF Session, Places
  <2>2. PlaceOK(w)
    BY <1>0 DEF Session, PlaceOK
  <2>3. work' = [work EXCEPT ![s] = w]
    BY <1>1 DEF FindAccount
  <2>4. overlapped' \in BOOLEAN
    BY <1>1 DEF FindAccount, TypeInv, TypeOK
  <2> QED
    BY <2>1, <2>2, <2>3, <2>4, SessionStep DEF FindAccount
<1>2. CASE accounts # {}
  <2>1. PICK a \in accounts :
          work' = [work EXCEPT ![s].acc = a, ![s].loaded = opening[a],
                               ![s].pc = "bookings"]
    BY <1>2 DEF FindAccount
  <2> DEFINE w == [work[s] EXCEPT !.acc = a, !.loaded = opening[a], !.pc = "bookings"]
  <2>2. a \in Accounts /\ opening[a] \in Int /\ a # NoAccount
    BY NoValueAssumption DEF TypeInv, TypeOK
  <2>3. w \in Session
    BY <1>0, <2>2 DEF Session, Places
  <2>4. PlaceOK(w)
    BY <1>0, <2>2 DEF Session, PlaceOK
  <2>5. work' = [work EXCEPT ![s] = w]
    BY <2>1
  <2>6. overlapped' \in BOOLEAN
    BY <1>2 DEF FindAccount, TypeInv, TypeOK
  <2> QED
    BY <2>3, <2>4, <2>5, <2>6, SessionStep DEF FindAccount
<1> QED
  BY <1>1, <1>2

LEMMA CreateAccountType ==
  ASSUME TypeInv, NEW s \in Sessions, CreateAccount(s)
  PROVE  TypeInv'
<1>0. work[s] \in Session /\ PlaceOK(work[s]) /\ work[s].pc = "create"
  BY DEF CreateAccount, TypeInv, TypeOK
<1> DEFINE first == IF work[s].at = None THEN 0 ELSE Balance[work[s].at]
<1>1. PICK a \in Accounts \ accounts :
        work' = [work EXCEPT ![s].acc = a, ![s].loaded = first,
                             ![s].opening = first, ![s].pc = "bookings"]
  BY DEF CreateAccount
<1>2. first \in Int /\ first # Keep
  BY <1>0, BankAssumption, NoValueAssumption DEF Session
<1> HIDE DEF first
<1> DEFINE w == [work[s] EXCEPT !.acc = a, !.loaded = first, !.opening = first,
                                !.pc = "bookings"]
<1>3. a # NoAccount
  BY NoValueAssumption
<1>4. w \in Session
  BY <1>0, <1>2 DEF Session, Places
<1>5. work' = [work EXCEPT ![s] = w]
  BY <1>1
<1>6. PlaceOK(w)
  BY <1>0, <1>2, <1>3 DEF Session, PlaceOK
<1> QED
  BY <1>4, <1>5, <1>6, SessionStep DEF CreateAccount, history, TypeInv, TypeOK

LEMMA Fetched ==
  ASSUME TypeInv, NEW raw \in {<<>>, SubSeq(List, Old + 1, posted)}
  PROVE  raw \in Seq(Keys) /\ {raw[i] : i \in DOMAIN raw} \subseteq Keys
<1>1. \A i \in (Old + 1)..posted : List[i] \in Keys
  <2>1. List \in Seq(Keys) /\ Old \in Nat /\ posted \in 0..Len(List)
    BY BankAssumption DEF TypeInv, TypeOK, Postings
  <2>2. \A i \in 1..Len(List) : List[i] \in Keys
    BY <2>1
  <2> QED
    BY <2>1, <2>2
<1>2. SubSeq(List, Old + 1, posted) \in Seq(Keys)
  <2>1. Old + 1 \in Int /\ posted \in Int
    BY BankAssumption DEF TypeInv, TypeOK, Postings
  <2> QED
    BY <1>1, <2>1, SubSeqProperties
<1>3. raw \in Seq(Keys)
  <2>1. <<>> \in Seq(Keys)
    OBVIOUS
  <2> QED
    BY <1>2, <2>1
<1> QED
  BY <1>3

LEMMA FetchBookingsType ==
  ASSUME TypeInv, NEW s \in Sessions, FetchBookings(s)
  PROVE  TypeInv'
<1>0. work[s] \in Session /\ PlaceOK(work[s]) /\ work[s].pc = "bookings"
  BY DEF FetchBookings, TypeInv, TypeOK
<1>1. PICK raw \in {<<>>, SubSeq(List, Old + 1, posted)} :
        work' = [work EXCEPT ![s].todo = raw, ![s].pc = "look",
                             ![s].got = {raw[i] : i \in DOMAIN raw}]
  BY DEF FetchBookings
<1> DEFINE got == {raw[i] : i \in DOMAIN raw}
<1>2. raw \in Seq(Keys) /\ got \in SUBSET Keys
  BY Fetched
<1> HIDE DEF got
<1> DEFINE w == [work[s] EXCEPT !.todo = raw, !.pc = "look", !.got = got]
<1>3. w \in Session
  BY <1>0, <1>2 DEF Session, Places
<1>4. work' = [work EXCEPT ![s] = w]
  BY <1>1 DEF got
<1>5. PlaceOK(w)
  BY <1>0, NoValueAssumption DEF Session, PlaceOK
<1> QED
  BY <1>3, <1>4, <1>5, SessionStep DEF FetchBookings, history, TypeInv, TypeOK

LEMMA AddByHandType ==
  ASSUME TypeInv, NEW s \in Sessions, AddByHand(s)
  PROVE  TypeInv'
<1>1. PICK a \in accounts, k \in Keys :
        work' = [work EXCEPT ![s] =
                   [NoSession EXCEPT !.pc = "look", !.acc = a, !.todo = <<k>>]]
  BY DEF AddByHand
<1> DEFINE w == [NoSession EXCEPT !.pc = "look", !.acc = a, !.todo = <<k>>]
<1>2. a \in Accounts /\ a # NoAccount
  BY NoValueAssumption DEF TypeInv, TypeOK
<1>3. w \in Session
  <2>1. <<k>> \in Seq(Keys)
    OBVIOUS
  <2> QED
    BY <1>2, <2>1, NoSessionType DEF Session, Places
<1>4. PlaceOK(w)
  BY <1>2 DEF NoSession, PlaceOK
<1> QED
  BY <1>1, <1>3, <1>4, SessionStep DEF AddByHand, history, TypeInv, TypeOK

LEMMA LookType ==
  ASSUME TypeInv, NEW s \in Sessions, LookForDuplicate(s)
  PROVE  TypeInv'
<1>0. /\ work[s] \in Session /\ PlaceOK(work[s])
      /\ work[s].pc = "look" /\ work[s].todo # <<>>
  BY DEF LookForDuplicate, TypeInv, TypeOK
<1> DEFINE w == IF Head(work[s].todo) \in Visible(s)
                THEN [work[s] EXCEPT !.todo = Tail(work[s].todo)]
                ELSE [work[s] EXCEPT !.pc = "insert"]
<1>1. Tail(work[s].todo) \in Seq(Keys)
  BY <1>0, HeadTailProperties DEF Session
<1>2. w \in Session
  BY <1>0, <1>1 DEF Session, Places
<1>3. PlaceOK(w)
  BY <1>0 DEF Session, PlaceOK
<1>4. work' = [work EXCEPT ![s] = w]
  BY DEF LookForDuplicate
<1> QED
  BY <1>2, <1>3, <1>4, SessionStep DEF LookForDuplicate, history, TypeInv, TypeOK

LEMMA InsertType ==
  ASSUME TypeInv, NEW s \in Sessions, Insert(s)
  PROVE  TypeInv'
<1>0. /\ work[s] \in Session /\ PlaceOK(work[s])
      /\ work[s].pc = "insert" /\ work[s].todo # <<>>
  BY DEF Insert, TypeInv, TypeOK, PlaceOK
<1> DEFINE k == Head(work[s].todo)
           v == [work[s] EXCEPT !.new = work[s].new \cup {k},
                               !.todo = Tail(work[s].todo), !.pc = "look"]
           w == IF k \in booked[work[s].acc] THEN Ended ELSE v
<1>1. Tail(work[s].todo) \in Seq(Keys) /\ k \in Keys
  BY <1>0, HeadTailProperties DEF Session
<1>2. v \in Session
  BY <1>0, <1>1 DEF Session, Places
<1>3. PlaceOK(v)
  BY <1>0, NoValueAssumption DEF Session, PlaceOK
<1>4. work' = [work EXCEPT ![s] = w]
  BY DEF Insert
<1>5. w \in Session /\ PlaceOK(w)
  BY <1>2, <1>3, NoSessionType
<1> QED
  BY <1>4, <1>5, SessionStep DEF Insert, history, TypeInv, TypeOK

LEMMA VisibleType ==
  ASSUME TypeInv, NEW s \in Sessions, work[s].acc \in Accounts
  PROVE  Visible(s) \in SUBSET Keys
BY DEF Visible, TypeInv, TypeOK, Session

LEMMA SumUpType ==
  ASSUME TypeInv, NEW s \in Sessions, SumUp(s)
  PROVE  TypeInv'
<1>0. /\ work[s] \in Session /\ PlaceOK(work[s])
      /\ work[s].pc = "look" /\ work[s].todo = <<>>
  BY DEF SumUp, TypeInv, TypeOK
<1> DEFINE first == Balance[work[s].at] - Total[Visible(s)]
           v == [work[s] EXCEPT !.pc = "commit"]
           u == [work[s] EXCEPT !.opening = first, !.pc = "flush"]
           w == IF work[s].at = None \/ first = work[s].loaded THEN v ELSE u
<1>1. work[s].at # None => first \in Int
  <2>1. Visible(s) \in SUBSET Keys
    BY <1>0, VisibleType DEF PlaceOK
  <2>2. Total[Visible(s)] \in Int
    BY <2>1, TotalType
  <2>3. work[s].at # None => Balance[work[s].at] \in Int
    BY <1>0, BankAssumption DEF Session
  <2> QED
    BY <2>2, <2>3
<1> HIDE DEF first
<1>2. v \in Session /\ PlaceOK(v)
  <2>1. v \in Session
    BY <1>0 DEF Session, Places
  <2> QED
    BY <1>0, <2>1, NoValueAssumption DEF Session, PlaceOK
<1>3. ASSUME work[s].at # None
      PROVE  u \in Session /\ PlaceOK(u)
  <2>1. u \in Session
    BY <1>0, <1>1, <1>3 DEF Session, Places
  <2> QED
    BY <1>0, <1>1, <1>3, <2>1, NoValueAssumption DEF Session, PlaceOK
<1>4. w \in Session /\ PlaceOK(w)
  BY <1>2, <1>3
<1>5. work' = [work EXCEPT ![s] = w]
  BY DEF SumUp, first
<1> QED
  BY <1>4, <1>5, SessionStep DEF SumUp, history, TypeInv, TypeOK

LEMMA FlushType ==
  ASSUME TypeInv, NEW s \in Sessions, FlushOpening(s)
  PROVE  TypeInv'
<1> DEFINE w == [work[s] EXCEPT !.pc = "commit"]
<1>0. work[s] \in Session /\ PlaceOK(work[s]) /\ work[s].pc = "flush"
  BY DEF FlushOpening, TypeInv, TypeOK
<1>1. w \in Session
  BY <1>0 DEF Session, Places
<1>2. PlaceOK(w)
  BY <1>0 DEF Session, PlaceOK
<1>3. work' = [work EXCEPT ![s] = w]
  BY DEF FlushOpening
<1> QED
  BY <1>1, <1>2, <1>3, SessionStep DEF FlushOpening, history, TypeInv, TypeOK

LEMMA FailType ==
  ASSUME TypeInv, NEW s \in Sessions, Fail(s)
  PROVE  TypeInv'
BY NoSessionType, SessionStep DEF Fail, history, TypeInv, TypeOK

\* What a commit makes of another session.
LEMMA OutdatedSession ==
  ASSUME TypeInv, NEW s \in Sessions, work[s].acc \in Accounts,
         NEW t \in Sessions, t # s
  PROVE  /\ Outdated(s)[t] \in Session
         /\ PlaceOK(Outdated(s)[t])
         /\ \A f \in {"pc", "acc", "makes", "at", "loaded", "opening", "got",
                       "todo", "new"} : Outdated(s)[t][f] = work[t][f]
<1>0. work[s] \in Session /\ work[t] \in Session /\ PlaceOK(work[t])
  BY DEF TypeInv, TypeOK
<1> DEFINE v == [work[t] EXCEPT !.late = @ + Total[work[s].new]]
<1>1. Outdated(s)[t] = IF work[t].acc = work[s].acc /\ work[t].pc \in {"flush", "commit"}
                       THEN v ELSE work[t]
  BY DEF Outdated
<1>2. work[t].late + Total[work[s].new] \in Int
  BY <1>0, TotalType DEF Session
<1>3. v \in Session
  BY <1>0, <1>2 DEF Session
<1>4. work[t].acc = work[s].acc /\ work[t].pc \in {"flush", "commit"} => PlaceOK(v)
  BY <1>0, NoValueAssumption DEF Session, PlaceOK
<1>5. \A f \in {"pc", "acc", "makes", "at", "loaded", "opening", "got",
                "todo", "new"} : v[f] = work[t][f]
  BY <1>0 DEF Session
<1> QED
  BY <1>0, <1>1, <1>3, <1>4, <1>5

LEMMA ShownType ==
  ASSUME TypeInv, NEW s \in Sessions, work[s].acc \in Accounts
  PROVE  Shown(s) \in Int \cup {Unknown}
<1>0. work[s] \in Session
  BY DEF TypeInv, TypeOK
<1>1. work[s].at # None => Balance[work[s].at] \in Int
  BY <1>0, BankAssumption DEF Session
<1>2. Total[work[s].new] \in Int /\ work[s].late \in Int
  BY <1>0, TotalType DEF Session
<1>3. known[work[s].acc] \in Int \cup {Unknown}
  BY DEF TypeInv, TypeOK
<1> QED
  BY <1>1, <1>2, <1>3 DEF Shown

LEMMA CommitType ==
  ASSUME TypeInv, NEW s \in Sessions, Commit(s)
  PROVE  TypeInv'
<1>0. work[s] \in Session
  BY DEF TypeInv, TypeOK
<1>1. CASE work[s].acc = NoAccount
  <2>1. /\ work' = [work EXCEPT ![s] = Ended]
        /\ UNCHANGED <<accounts, opening, booked, posted, known, asOf, overlapped, unsent>>
    BY <1>1 DEF Commit
  <2> QED
    BY <2>1, NoSessionType, SessionStep DEF TypeInv, TypeOK
<1>2. CASE work[s].acc # NoAccount
  <2>1. work[s].acc \in Accounts
    BY <1>0, <1>2 DEF Session
  <2>2. /\ work' = Outdated(s)
        /\ accounts' = accounts \cup {work[s].acc}
        /\ opening' = IF work[s].opening = Keep THEN opening
                      ELSE [opening EXCEPT ![work[s].acc] = work[s].opening]
        /\ booked' = [booked EXCEPT ![work[s].acc] = @ \cup work[s].new]
        /\ known' = [known EXCEPT ![work[s].acc] = Shown(s)]
        /\ asOf' = IF work[s].at = None THEN asOf
                   ELSE [asOf EXCEPT ![work[s].acc] = work[s].at]
        /\ unsent' \subseteq unsent \cup {work[s].acc}
        /\ UNCHANGED <<posted, overlapped>>
    BY <1>2 DEF Commit
  <2>3. \A t \in Sessions : Outdated(s)[t] \in Session /\ PlaceOK(Outdated(s)[t])
    <3>1. Outdated(s)[s] = Ended
      BY DEF Outdated
    <3> QED
      BY <2>1, <3>1, OutdatedSession, NoSessionType
  <2>4. work' \in [Sessions -> Session] /\ \A t \in Sessions : PlaceOK(work'[t])
    BY <2>2, <2>3 DEF Outdated
  <2>5. /\ accounts' \subseteq Accounts
        /\ opening' \in [Accounts -> Int]
        /\ booked' \in [Accounts -> SUBSET Keys]
        /\ asOf' \in [Accounts -> Postings]
    BY <1>0, <2>1, <2>2 DEF TypeInv, TypeOK, Session
  <2>6. known' \in [Accounts -> Int \cup {Unknown}]
    BY <2>1, <2>2, ShownType DEF TypeInv, TypeOK
  <2> QED
    BY <2>2, <2>4, <2>5, <2>6 DEF TypeInv, TypeOK
<1> QED
  BY <1>1, <1>2

LEMMA NextType == TypeInv /\ [Next]_vars => TypeInv'
<1> SUFFICES ASSUME TypeInv, [Next]_vars PROVE TypeInv'
  OBVIOUS
<1>1. CASE UNCHANGED vars
  BY <1>1 DEF vars, history, TypeInv, TypeOK
<1>2. CASE Post
  BY <1>2, BankAssumption DEF Post, history, TypeInv, TypeOK, Postings
<1>3. ASSUME NEW s \in Sessions, BeginImport(s) \/ AddByHand(s) \/ Step(s) \/ Fail(s)
      PROVE  TypeInv'
  BY <1>3, BeginImportType, AddByHandType, FailType, LockType, FetchAccountsType,
     FindAccountType, CreateAccountType, FetchBookingsType, LookType, InsertType,
     SumUpType, FlushType, CommitType DEF Step
<1> QED
  BY <1>1, <1>2, <1>3 DEF Next

LEMMA TypeInvariant == Spec => []TypeInv
BY InitType, NextType, PTL DEF Spec

\* Every variable keeps its type; sums and balances stay numbers.
THEOREM LedgerTypeCorrect == Spec => []TypeOK
BY TypeInvariant, PTL DEF TypeInv

-----------------------------------------------------------------------------
(* What a step other than a commit does to its session *)

Others(s) ==
  /\ \A t \in Sessions \ {s} : work'[t] = work[t]
  /\ UNCHANGED <<accounts, opening, booked, known, unsent>>

\* The bookings and the account of a session change only in these ways.
Shift(s) ==
  LET w == work[s]
      v == work'[s]
  IN  \/ /\ v.acc = NoAccount /\ v.new = {} /\ v.late = 0
         /\ v.makes => w.makes \/ (accounts = {} /\ overlapped' =
              (overlapped \/ \E t \in Sessions \ {s} : work[t].makes))
      \/ /\ v.acc = w.acc /\ v.makes = w.makes /\ v.acc # NoAccount
         /\ \/ v.new = w.new
            \/ \E k \in Keys : /\ v.new = w.new \cup {k}
                              /\ k \notin booked[w.acc]
                              /\ KeyIsFree(s, k)
      \/ /\ v.acc \in accounts /\ ~v.makes /\ v.new = {} /\ v.late = 0
         /\ v.pc \notin {"flush", "commit"}
         /\ v.at # None => v.loaded = opening[v.acc]
      \/ /\ w.makes /\ v.makes /\ v.new = {} /\ v.late = w.late
         /\ v.pc \notin {"flush", "commit"} /\ v.opening = v.loaded
         /\ v.acc \in Accounts \ accounts
         /\ \A t \in Sessions : work[t].acc # v.acc

SmallStep(s) ==
  BeginImport(s) \/ AddByHand(s) \/ LockConnection(s) \/ FetchAccounts(s)
  \/ FindAccount(s) \/ CreateAccount(s) \/ FetchBookings(s)
  \/ LookForDuplicate(s) \/ Insert(s) \/ SumUp(s) \/ FlushOpening(s) \/ Fail(s)

LEMMA OthersStep ==
  ASSUME TypeInv, NEW s \in Sessions, SmallStep(s)
  PROVE  Others(s)
<1>1. work \in [Sessions -> Session]
  BY DEF TypeInv, TypeOK
<1>2. UNCHANGED <<accounts, opening, booked, known, unsent>>
  BY DEF SmallStep, BeginImport, AddByHand, LockConnection, FetchAccounts,
     FindAccount, CreateAccount, FetchBookings, LookForDuplicate, Insert, SumUp,
     FlushOpening, Fail, history
<1>3. ASSUME NEW t \in Sessions \ {s} PROVE work'[t] = work[t]
  BY <1>1, <1>3 DEF SmallStep, BeginImport, AddByHand, LockConnection,
     FetchAccounts, FindAccount, CreateAccount, FetchBookings, LookForDuplicate,
     Insert, SumUp, FlushOpening, Fail
<1> QED
  BY <1>2, <1>3 DEF Others

LEMMA ShiftStep ==
  ASSUME TypeInv, NEW s \in Sessions, SmallStep(s)
  PROVE  Shift(s)
<1>0. /\ work \in [Sessions -> Session] /\ work[s] \in Session
      /\ PlaceOK(work[s]) /\ accounts \subseteq Accounts
  BY DEF TypeInv, TypeOK
<1>1. CASE BeginImport(s)
  BY <1>0, <1>1 DEF BeginImport, NoSession, Shift
<1>2. CASE AddByHand(s)
  <2>1. PICK a \in accounts, k \in Keys :
          work' = [work EXCEPT ![s] =
                     [NoSession EXCEPT !.pc = "look", !.acc = a, !.todo = <<k>>]]
    BY <1>2 DEF AddByHand
  <2>2. /\ work'[s].acc = a /\ ~work'[s].makes /\ work'[s].new = {}
        /\ work'[s].late = 0 /\ work'[s].pc = "look" /\ work'[s].at = None
    BY <1>0, <2>1 DEF NoSession
  <2> QED
    BY <2>2 DEF Shift
<1>3. CASE LockConnection(s) \/ FetchAccounts(s)
  <2>1. /\ work'[s].acc = NoAccount /\ work'[s].new = {} /\ work'[s].late = 0
        /\ work'[s].makes = work[s].makes
    <3>1. work[s].pc \in {"lock", "lock only", "accounts"}
      BY <1>3 DEF LockConnection, FetchAccounts
    <3>2. work[s].acc = NoAccount /\ work[s].new = {} /\ work[s].late = 0
      BY <1>0, <3>1 DEF PlaceOK
    <3>3. CASE LockConnection(s)
      BY <1>0, <3>2, <3>3 DEF LockConnection, Session
    <3>4. CASE FetchAccounts(s)
      <4>1. CASE work' = [work EXCEPT ![s].pc =
                            IF s \in Links THEN "lock only" ELSE "commit"]
        BY <1>0, <3>2, <4>1 DEF Session
      <4>2. ASSUME NEW at \in {posted, None},
                   work' = [work EXCEPT ![s].at = at,
                              ![s].pc = IF s \in Links THEN "lock" ELSE "find"]
            PROVE  /\ work'[s].acc = NoAccount /\ work'[s].new = {}
                   /\ work'[s].late = 0 /\ work'[s].makes = work[s].makes
        BY <1>0, <3>2, <4>2 DEF Session
      <4> QED
        BY <3>4, <4>1, <4>2 DEF FetchAccounts
    <3> QED
      BY <1>3, <3>3, <3>4
  <2> QED
    BY <2>1 DEF Shift
<1>4. CASE FindAccount(s)
  <2>0. /\ work[s].pc = "find" /\ work[s].acc = NoAccount /\ work[s].new = {}
        /\ work[s].late = 0 /\ ~work[s].makes
    BY <1>0, <1>4 DEF FindAccount, PlaceOK, Session
  <2>1. CASE accounts = {}
    <3>1. /\ work'[s].acc = NoAccount /\ work'[s].new = {} /\ work'[s].late = 0
          /\ overlapped' = (overlapped \/ \E t \in Sessions \ {s} : work[t].makes)
      BY <1>0, <1>4, <2>0, <2>1 DEF FindAccount, Session
    <3> QED
      BY <2>1, <3>1 DEF Shift
  <2>2. CASE accounts # {}
    <3>1. PICK a \in accounts :
            work' = [work EXCEPT ![s].acc = a, ![s].loaded = opening[a],
                                 ![s].pc = "bookings"]
      BY <1>4, <2>2 DEF FindAccount
    <3>2. /\ work'[s].acc = a /\ ~work'[s].makes /\ work'[s].new = {}
          /\ work'[s].late = 0 /\ work'[s].pc = "bookings"
          /\ work'[s].loaded = opening[a]
      BY <1>0, <2>0, <3>1 DEF Session
    <3> QED
      BY <3>2 DEF Shift
  <2> QED
    BY <2>1, <2>2
<1>5. CASE CreateAccount(s)
  <2>0. /\ work[s].pc = "create" /\ work[s].new = {} /\ work[s].makes
    BY <1>0, <1>5 DEF CreateAccount, PlaceOK
  <2> DEFINE first == IF work[s].at = None THEN 0 ELSE Balance[work[s].at]
  <2>1. PICK a \in Accounts \ accounts :
          /\ \A t \in Sessions : work[t].acc # a
          /\ work' = [work EXCEPT ![s].acc = a, ![s].loaded = first,
                                  ![s].opening = first, ![s].pc = "bookings"]
    BY <1>5 DEF CreateAccount
  <2> HIDE DEF first
  <2>2. /\ work'[s].acc = a /\ work'[s].makes /\ work'[s].new = {}
        /\ work'[s].late = work[s].late /\ work'[s].pc = "bookings"
        /\ work'[s].opening = work'[s].loaded
    BY <1>0, <2>0, <2>1 DEF Session
  <2> QED
    BY <2>0, <2>1, <2>2 DEF Shift
<1>6. CASE FetchBookings(s) \/ LookForDuplicate(s) \/ SumUp(s) \/ FlushOpening(s)
  <2>1. work[s].acc # NoAccount
    BY <1>0, <1>6, NoValueAssumption
    DEF PlaceOK, FetchBookings, LookForDuplicate, SumUp, FlushOpening
  <2>2. /\ work'[s].acc = work[s].acc /\ work'[s].makes = work[s].makes
        /\ work'[s].new = work[s].new
    <3>1. CASE FetchBookings(s)
      <4>1. PICK raw \in {<<>>, SubSeq(List, Old + 1, posted)} :
              work' = [work EXCEPT ![s].todo = raw, ![s].pc = "look",
                                   ![s].got = {raw[i] : i \in DOMAIN raw}]
        BY <3>1 DEF FetchBookings
      <4> QED
        BY <1>0, <4>1 DEF Session
    <3>2. CASE LookForDuplicate(s)
      BY <1>0, <3>2 DEF LookForDuplicate, Session
    <3>3. CASE SumUp(s)
      BY <1>0, <3>3 DEF SumUp, Session
    <3>4. CASE FlushOpening(s)
      BY <1>0, <3>4 DEF FlushOpening, Session
    <3> QED
      BY <1>6, <3>1, <3>2, <3>3, <3>4
  <2> QED
    BY <2>1, <2>2 DEF Shift
<1>7. CASE Insert(s)
  <2> DEFINE k == Head(work[s].todo)
  <2>0. /\ work[s].acc # NoAccount /\ k \in Keys
    BY <1>0, <1>7, NoValueAssumption, HeadTailProperties DEF PlaceOK, Insert, Session
  <2>1. CASE k \in booked[work[s].acc]
    <3>1. work'[s] = Ended
      BY <1>0, <1>7, <2>1 DEF Insert
    <3>2. /\ work'[s].acc = NoAccount /\ work'[s].new = {}
          /\ work'[s].late = 0 /\ ~work'[s].makes
      BY <3>1 DEF Ended, NoSession
    <3> QED
      BY <3>2 DEF Shift
  <2>2. CASE k \notin booked[work[s].acc]
    <3>1. /\ work'[s].acc = work[s].acc /\ work'[s].makes = work[s].makes
          /\ work'[s].new = work[s].new \cup {k}
          /\ KeyIsFree(s, k)
      BY <1>0, <1>7, <2>2 DEF Insert, Session
    <3> HIDE DEF k
    <3> QED
      BY <2>0, <2>2, <3>1 DEF Shift
  <2> QED
    BY <2>1, <2>2
<1>8. CASE Fail(s)
  <2>1. work'[s] = Ended
    BY <1>0, <1>8 DEF Fail
  <2>2. /\ work'[s].acc = NoAccount /\ work'[s].new = {}
        /\ work'[s].late = 0 /\ ~work'[s].makes
    BY <2>1 DEF Ended, NoSession
  <2> QED
    BY <2>2 DEF Shift
<1> QED
  BY <1>1, <1>2, <1>3, <1>4, <1>5, <1>6, <1>7, <1>8 DEF SmallStep

\* A commit on an account: what it does to the tables, its session and the others.
Committed(s) ==
  /\ work[s].pc = "commit" /\ work[s].acc \in Accounts
  /\ accounts' = accounts \cup {work[s].acc}
  /\ opening' = IF work[s].opening = Keep THEN opening
                ELSE [opening EXCEPT ![work[s].acc] = work[s].opening]
  /\ booked' = [booked EXCEPT ![work[s].acc] = @ \cup work[s].new]
  /\ known' = [known EXCEPT ![work[s].acc] = Shown(s)]
  /\ unsent' = IF work[s].at = None THEN unsent
               ELSE IF SendsNothing(s) THEN unsent \cup {work[s].acc}
               ELSE unsent \ {work[s].acc}
  /\ work'[s] = Ended
  /\ \A t \in Sessions \ {s} :
       /\ work'[t].pc = work[t].pc /\ work'[t].acc = work[t].acc
       /\ work'[t].makes = work[t].makes /\ work'[t].at = work[t].at
       /\ work'[t].loaded = work[t].loaded /\ work'[t].opening = work[t].opening
       /\ work'[t].got = work[t].got /\ work'[t].todo = work[t].todo
       /\ work'[t].new = work[t].new
       /\ work[t].acc # work[s].acc => work'[t].late = work[t].late
       /\ work[t].acc = work[s].acc =>
            work'[t].late = work[t].late +
              IF work[t].pc \in {"flush", "commit"} THEN Total[work[s].new] ELSE 0

LEMMA CommitStep ==
  ASSUME TypeInv, NEW s \in Sessions, Commit(s)
  PROVE  (/\ Others(s) /\ work[s].acc = NoAccount
          /\ work'[s] = Ended /\ UNCHANGED overlapped)
         \/ (Committed(s) /\ UNCHANGED overlapped)
<1>0. work \in [Sessions -> Session] /\ work[s] \in Session /\ PlaceOK(work[s])
  BY DEF TypeInv, TypeOK
<1>1. CASE work[s].acc = NoAccount
  BY <1>0, <1>1 DEF Commit, Others
<1>2. CASE work[s].acc # NoAccount
  <2>1. /\ work[s].acc \in Accounts
        /\ work' = Outdated(s)
    BY <1>0, <1>2 DEF Session, Commit
  <2>2. work'[s] = Ended
    BY <2>1 DEF Outdated
  <2>3. ASSUME NEW t \in Sessions \ {s}
        PROVE  /\ work'[t].pc = work[t].pc /\ work'[t].acc = work[t].acc
               /\ work'[t].makes = work[t].makes /\ work'[t].at = work[t].at
               /\ work'[t].loaded = work[t].loaded
               /\ work'[t].opening = work[t].opening
               /\ work'[t].got = work[t].got /\ work'[t].todo = work[t].todo
               /\ work'[t].new = work[t].new
    BY <2>1, OutdatedSession
  <2>4. ASSUME NEW t \in Sessions \ {s}, work[t].acc # work[s].acc
        PROVE  work'[t] = work[t]
    BY <2>1, <2>4 DEF Outdated
  <2>5. ASSUME NEW t \in Sessions \ {s}, work[t].acc = work[s].acc
        PROVE  work'[t].late = work[t].late +
                 IF work[t].pc \in {"flush", "commit"} THEN Total[work[s].new] ELSE 0
    <3>1. work[t] \in Session
      BY <1>0
    <3>2. work'[t] = IF work[t].pc \in {"flush", "commit"}
                     THEN [work[t] EXCEPT !.late = @ + Total[work[s].new]] ELSE work[t]
      BY <2>1, <2>5 DEF Outdated
    <3>3. work[t].late \in Int /\ Total[work[s].new] \in Int
      BY <1>0, <3>1, TotalType DEF Session
    <3>4. work'[t].late = IF work[t].pc \in {"flush", "commit"}
                          THEN work[t].late + Total[work[s].new] ELSE work[t].late
      BY <3>1, <3>2 DEF Session
    <3> QED
      BY <3>3, <3>4
  <2> QED
    BY <1>2, <2>1, <2>2, <2>3, <2>4, <2>5 DEF Committed, Commit
<1> QED
  BY <1>1, <1>2

\* Every step is one of these.
LEMMA Steps ==
  ASSUME TypeInv, [Next]_vars
  PROVE  \/ UNCHANGED <<accounts, opening, booked, work, known, overlapped, unsent>>
         \/ \E s \in Sessions : SmallStep(s) \/ Commit(s)
BY DEF Next, Step, SmallStep, Post, vars, history

-----------------------------------------------------------------------------
(* A booking is stored once *)

-----------------------------------------------------------------------------
(* A booking is stored once *)

LEMMA BookingStep == TypeInv /\ NoBookingTwice /\ [Next]_vars => NoBookingTwice'
<1> SUFFICES ASSUME TypeInv, NoBookingTwice, [Next]_vars PROVE NoBookingTwice'
  OBVIOUS
<1>1. CASE UNCHANGED <<accounts, opening, booked, work, known, overlapped, unsent>>
  BY <1>1 DEF NoBookingTwice
<1>2. ASSUME NEW s \in Sessions, SmallStep(s) PROVE NoBookingTwice'
  <2>0. Others(s) /\ Shift(s)
    BY <1>2, OthersStep, ShiftStep
  <2>1. CASE work'[s].new = {}
    BY <2>0, <2>1 DEF NoBookingTwice, Others
  <2>2. CASE work'[s].acc = work[s].acc /\ work'[s].new = work[s].new
    BY <2>0, <2>2 DEF NoBookingTwice, Others
  <2>3. ASSUME NEW k \in Keys, work'[s].acc = work[s].acc,
               work'[s].new = work[s].new \cup {k},
               k \notin booked[work[s].acc], KeyIsFree(s, k)
        PROVE  NoBookingTwice'
    BY <2>0, <2>3 DEF NoBookingTwice, Others, KeyIsFree
  <2> QED
    BY <2>0, <2>1, <2>2, <2>3 DEF Shift
<1>3. ASSUME NEW s \in Sessions, Commit(s) PROVE NoBookingTwice'
  <2>1. CASE Others(s) /\ work'[s] = Ended
    BY <2>1 DEF NoBookingTwice, Others, Ended, NoSession
  <2>2. CASE Committed(s)
    <3>1. ASSUME NEW t \in Sessions, work'[t].new # {}
          PROVE  /\ t # s /\ work'[t].acc = work[t].acc /\ work'[t].new = work[t].new
                 /\ work[t].acc \in Accounts
      <4>1. t # s
        BY <2>2, <3>1 DEF Committed, Ended, NoSession
      <4>2. work'[t].acc = work[t].acc /\ work'[t].new = work[t].new
        BY <2>2, <4>1 DEF Committed
      <4>3. work[t].acc \in Accounts
        BY <3>1, <4>2 DEF TypeInv, TypeOK, PlaceOK, Session
      <4> QED
        BY <4>1, <4>2, <4>3
    <3>2. ASSUME NEW t \in Sessions, work'[t].new # {}
          PROVE  work'[t].new \cap booked'[work'[t].acc] = {}
      <4>1. booked'[work[t].acc] \subseteq booked[work[t].acc] \cup
              (IF work[t].acc = work[s].acc THEN work[s].new ELSE {})
        BY <2>2, <3>1, <3>2 DEF Committed, TypeInv, TypeOK
      <4>2. work[t].acc = work[s].acc => work[t].new \cap work[s].new = {}
        BY <3>1, <3>2 DEF NoBookingTwice
      <4> QED
        BY <3>1, <3>2, <4>1, <4>2 DEF NoBookingTwice
    <3>3. ASSUME NEW t \in Sessions, work'[t].new # {},
                 NEW u \in Sessions \ {t}, work'[u].acc = work'[t].acc
          PROVE  work'[t].new \cap work'[u].new = {}
      BY <3>1, <3>3 DEF NoBookingTwice
    <3> QED
      BY <3>2, <3>3 DEF NoBookingTwice
  <2> QED
    BY <1>3, <2>1, <2>2, CommitStep
<1> QED
  BY <1>1, <1>2, <1>3, Steps

LEMMA InitBooking == Init => NoBookingTwice
BY DEF Init, NoBookingTwice, NoSession

\* The unique index keeps a booking from being stored twice on an account, however
\* many sessions pass the duplicate check with it at the same time.
THEOREM StoredOnce == Spec => []NoBookingTwice
BY InitBooking, BookingStep, TypeInvariant, PTL DEF Spec

-----------------------------------------------------------------------------
(* The account of an IBAN *)

\* A session is on a committed account or on one that only it knows.
AccountInv ==
  /\ \A a \in Accounts \ accounts : booked[a] = {} /\ known[a] = Unknown
  /\ \A s \in Sessions : work[s].acc # NoAccount =>
       IF work[s].makes
       THEN /\ work[s].acc \notin accounts
            /\ \A t \in Sessions \ {s} : work[t].acc # work[s].acc
       ELSE work[s].acc \in accounts

LEMMA AccountStep == TypeInv /\ AccountInv /\ [Next]_vars => AccountInv'
<1> SUFFICES ASSUME TypeInv, AccountInv, [Next]_vars PROVE AccountInv'
  OBVIOUS
<1>1. CASE UNCHANGED <<accounts, opening, booked, work, known, overlapped, unsent>>
  BY <1>1 DEF AccountInv
<1>2. ASSUME NEW s \in Sessions, SmallStep(s) PROVE AccountInv'
  <2>0. Others(s) /\ Shift(s)
    BY <1>2, OthersStep, ShiftStep
  <2>1. CASE work'[s].acc = NoAccount
    BY <2>0, <2>1 DEF AccountInv, Others
  <2>2. CASE work'[s].acc = work[s].acc /\ work'[s].makes = work[s].makes
    BY <2>0, <2>2 DEF AccountInv, Others
  <2>3. CASE work'[s].acc \in accounts /\ ~work'[s].makes
    BY <2>0, <2>3 DEF AccountInv, Others
  <2>4. CASE /\ work'[s].makes /\ work'[s].acc \in Accounts \ accounts
             /\ \A t \in Sessions : work[t].acc # work'[s].acc
    BY <2>0, <2>4 DEF AccountInv, Others
  <2> QED
    BY <2>0, <2>1, <2>2, <2>3, <2>4 DEF Shift
<1>3. ASSUME NEW s \in Sessions, Commit(s) PROVE AccountInv'
  <2>1. CASE Others(s) /\ work'[s] = Ended
    BY <2>1 DEF AccountInv, Others, Ended, NoSession
  <2>2. CASE Committed(s)
    <3>1. \A a \in Accounts \ accounts' : booked'[a] = {} /\ known'[a] = Unknown
      BY <2>2 DEF Committed, AccountInv, TypeInv, TypeOK
    <3>2. ASSUME NEW t \in Sessions, work'[t].acc # NoAccount
          PROVE  IF work'[t].makes
                 THEN /\ work'[t].acc \notin accounts'
                      /\ \A u \in Sessions \ {t} : work'[u].acc # work'[t].acc
                 ELSE work'[t].acc \in accounts'
      <4>1. t # s
        BY <2>2, <3>2 DEF Committed, Ended, NoSession
      <4>2. work'[t].acc = work[t].acc /\ work'[t].makes = work[t].makes
        BY <2>2, <4>1 DEF Committed
      <4>3. \A u \in Sessions : work'[u].acc \in {work[u].acc, NoAccount}
        BY <2>2 DEF Committed, Ended, NoSession
      <4>4. accounts' = accounts \cup {work[s].acc}
        BY <2>2 DEF Committed
      <4> QED
        BY <3>2, <4>1, <4>2, <4>3, <4>4 DEF AccountInv
    <3> QED
      BY <3>1, <3>2 DEF AccountInv
  <2> QED
    BY <1>3, <2>1, <2>2, CommitStep
<1> QED
  BY <1>1, <1>2, <1>3, Steps

LEMMA InitAccount == Init => AccountInv
BY DEF Init, AccountInv, NoSession

LEMMA AccountInvariant == Spec => []AccountInv
BY InitAccount, AccountStep, TypeInvariant, PTL DEF Spec

\* While no two imports have found no account, at most one of them makes one, and
\* only while there is none.
OverlapInv ==
  ~overlapped =>
    /\ \A a, b \in accounts : a = b
    /\ \A s \in Sessions : work[s].makes =>
         /\ accounts = {}
         /\ \A t \in Sessions \ {s} : ~work[t].makes

\* overlapped changes only when an import finds no account.
LEMMA OverlapStays ==
  ASSUME TypeInv, NEW s \in Sessions, SmallStep(s)
  PROVE  overlapped => overlapped'
BY DEF SmallStep, BeginImport, AddByHand, LockConnection, FetchAccounts,
   FindAccount, CreateAccount, FetchBookings, LookForDuplicate, Insert, SumUp,
   FlushOpening, Fail, history

LEMMA OverlapStep == TypeInv /\ AccountInv /\ OverlapInv /\ [Next]_vars => OverlapInv'
<1> SUFFICES ASSUME TypeInv, AccountInv, OverlapInv, [Next]_vars, ~overlapped'
             PROVE  /\ \A a, b \in accounts' : a = b
                    /\ \A s \in Sessions : work'[s].makes =>
                         /\ accounts' = {}
                         /\ \A t \in Sessions \ {s} : ~work'[t].makes
  BY DEF OverlapInv
<1>1. CASE UNCHANGED <<accounts, opening, booked, work, known, overlapped, unsent>>
  BY <1>1 DEF OverlapInv
<1>2. CASE \E s \in Sessions : SmallStep(s)
  <2> PICK s \in Sessions : SmallStep(s)
    BY <1>2
  <2>0. Others(s) /\ Shift(s) /\ ~overlapped
    BY OthersStep, ShiftStep, OverlapStays
  <2>1. CASE work'[s].makes => work[s].makes
    BY <2>0, <2>1 DEF OverlapInv, Others
  <2>2. CASE /\ accounts = {}
             /\ overlapped' = (overlapped \/ \E t \in Sessions \ {s} : work[t].makes)
    BY <2>0, <2>2 DEF OverlapInv, Others
  <2> QED
    BY <2>0, <2>1, <2>2 DEF Shift
<1>3. CASE \E s \in Sessions : Commit(s)
  <2> PICK s \in Sessions : Commit(s)
    BY <1>3
  <2>1. CASE Others(s) /\ work'[s] = Ended /\ UNCHANGED overlapped
    BY <2>1 DEF OverlapInv, Others, Ended, NoSession
  <2>2. CASE Committed(s) /\ UNCHANGED overlapped
    <3>1. /\ ~work'[s].makes
          /\ \A t \in Sessions \ {s} : work'[t].makes = work[t].makes
          /\ accounts' = accounts \cup {work[s].acc} /\ work[s].acc # NoAccount
      BY <2>2, NoValueAssumption DEF Committed, Ended, NoSession
    <3>2. CASE work[s].makes
      BY <2>2, <3>1, <3>2 DEF OverlapInv
    <3>3. CASE ~work[s].makes
      BY <2>2, <3>1, <3>3 DEF OverlapInv, AccountInv
    <3> QED
      BY <3>2, <3>3
  <2> QED
    BY <2>1, <2>2, CommitStep
<1> QED
  BY <1>1, <1>2, <1>3, Steps

LEMMA InitOverlap == Init => OverlapInv
BY DEF Init, OverlapInv, NoSession

LEMMA OverlapOneAccount == OverlapInv => OneAccountPerIban
BY DEF OverlapInv, OneAccountPerIban

\* An IBAN has one account as long as imports that find none do not overlap.
THEOREM OneAccount == Spec => []OneAccountPerIban
BY InitOverlap, OverlapStep, OverlapOneAccount, TypeInvariant, AccountInvariant, PTL
   DEF Spec

-----------------------------------------------------------------------------
(* The balance *)

\* initial_balance as the session leaves it.
Stored(w) == IF w.opening = Keep THEN w.loaded ELSE w.opening

\* An import with the bank's balance: a new account has the initial_balance it was
\* created with until the sum is made, and then the session holds the one that makes
\* up the balance, later bookings of others added.
SumOK(s) ==
  LET w == work[s]
  IN  w.at # None /\ w.acc # NoAccount =>
        /\ w.makes /\ w.pc \notin {"flush", "commit"} => w.opening = w.loaded
        /\ w.pc \in {"flush", "commit"} =>
             Stored(w) + Total[booked[w.acc] \cup w.new] = Balance[w.at] + w.late

SumInv == \A s \in Sessions : SumOK(s)

\* Amounts the session has not seen and others have committed: the sums add up.
LEMMA SumOfTwo ==
  ASSUME NEW A \in SUBSET Keys, NEW B \in SUBSET Keys, NEW C \in SUBSET Keys,
         A \cap B = {}, B \cap C = {}
  PROVE  Total[A \cup B \cup C] = Total[A \cup C] + Total[B]
<1>1. A \cup B \cup C = (A \cup C) \cup B /\ (A \cup C) \cap B = {}
  OBVIOUS
<1> QED
  BY <1>1, TotalType

\* The steps in which the session keeps its account and what it knows of it.
LEMMA KeepsAccount ==
  ASSUME TypeInv, NEW s \in Sessions,
         \/ FetchBookings(s) \/ LookForDuplicate(s) \/ SumUp(s) \/ FlushOpening(s)
         \/ (Insert(s) /\ work'[s] # Ended)
  PROVE  /\ work'[s].acc = work[s].acc /\ work'[s].makes = work[s].makes
         /\ work'[s].at = work[s].at /\ work'[s].loaded = work[s].loaded
         /\ work'[s].late = work[s].late
<1>0. work \in [Sessions -> Session] /\ work[s] \in Session
  BY DEF TypeInv, TypeOK
<1>1. CASE FetchBookings(s)
  <2>1. PICK raw \in {<<>>, SubSeq(List, Old + 1, posted)} :
          work' = [work EXCEPT ![s].todo = raw, ![s].pc = "look",
                               ![s].got = {raw[i] : i \in DOMAIN raw}]
    BY <1>1 DEF FetchBookings
  <2> QED
    BY <1>0, <2>1 DEF Session
<1>2. CASE LookForDuplicate(s)
  BY <1>0, <1>2 DEF LookForDuplicate, Session
<1>3. CASE SumUp(s)
  BY <1>0, <1>3 DEF SumUp, Session
<1>4. CASE FlushOpening(s)
  BY <1>0, <1>4 DEF FlushOpening, Session
<1>5. CASE Insert(s) /\ work'[s] # Ended
  BY <1>0, <1>5 DEF Insert, Session
<1> QED
  BY <1>1, <1>2, <1>3, <1>4, <1>5

\* Other sessions are as before, so their part of SumInv is.
LEMMA OthersKeepSum ==
  ASSUME SumInv, NEW s \in Sessions, Others(s), SumOK(s)'
  PROVE  SumInv'
<1> SUFFICES ASSUME NEW t \in Sessions PROVE SumOK(t)'
  BY DEF SumInv
<1>1. CASE t = s
  BY <1>1
<1>2. CASE t # s
  <2>1. work'[t] = work[t] /\ opening' = opening /\ booked' = booked
    BY <1>2 DEF Others
  <2>2. SumOK(t)
    BY DEF SumInv
  <2> QED
    BY <2>1, <2>2 DEF SumOK, Stored
<1> QED
  BY <1>1, <1>2

LEMMA SumSmallStep ==
  ASSUME TypeInv, AccountInv, SumInv, NEW s \in Sessions, SmallStep(s)
  PROVE  SumInv'
<1>0. /\ work \in [Sessions -> Session] /\ work[s] \in Session
      /\ PlaceOK(work[s]) /\ accounts \subseteq Accounts
      /\ Others(s) /\ Shift(s)
  BY OthersStep, ShiftStep DEF TypeInv, TypeOK
<1>1. SUFFICES SumOK(s)'
  BY <1>0, OthersKeepSum
<1>2. CASE work'[s].acc = NoAccount
  BY <1>2 DEF SumOK
<1>3. CASE /\ work'[s].acc \in accounts /\ ~work'[s].makes
           /\ work'[s].pc \notin {"flush", "commit"}
  BY <1>3 DEF SumOK
<1>4. CASE /\ work'[s].makes /\ work'[s].pc \notin {"flush", "commit"}
           /\ work'[s].opening = work'[s].loaded
  BY <1>4 DEF SumOK
<1>5. CASE work'[s].acc = work[s].acc /\ work'[s].acc # NoAccount
  <2>1. CASE BeginImport(s)
    BY <1>0, <1>5, <2>1 DEF BeginImport, NoSession
  <2>2. CASE AddByHand(s)
    <3>1. work'[s].at = None
      BY <1>0, <2>2 DEF AddByHand, NoSession
    <3> QED
      BY <3>1 DEF SumOK
  <2>3. CASE LockConnection(s) \/ FetchAccounts(s) \/ FindAccount(s) \/ CreateAccount(s)
    BY <1>0, <1>5, <2>3
    DEF LockConnection, FetchAccounts, FindAccount, CreateAccount, PlaceOK
  <2>4. CASE Fail(s) \/ work'[s] = Ended
    BY <1>0, <1>5, <2>4 DEF Fail, Ended, NoSession
  <2>5. CASE FetchBookings(s) \/ LookForDuplicate(s) \/ (Insert(s) /\ work'[s] # Ended)
    <3>1. /\ work'[s].acc = work[s].acc /\ work'[s].makes = work[s].makes
          /\ work'[s].at = work[s].at /\ work'[s].loaded = work[s].loaded
      BY <2>5, KeepsAccount
    <3>2. /\ work'[s].pc \in {"look", "insert"} /\ work'[s].opening = work[s].opening
          /\ work[s].pc \in {"bookings", "look", "insert"}
      <4>1. CASE FetchBookings(s)
        <5>1. PICK raw \in {<<>>, SubSeq(List, Old + 1, posted)} :
                work' = [work EXCEPT ![s].todo = raw, ![s].pc = "look",
                                     ![s].got = {raw[i] : i \in DOMAIN raw}]
          BY <4>1 DEF FetchBookings
        <5> QED
          BY <1>0, <4>1, <5>1 DEF FetchBookings, Session
      <4>2. CASE LookForDuplicate(s)
        BY <1>0, <4>2 DEF LookForDuplicate, Session
      <4>3. CASE Insert(s) /\ work'[s] # Ended
        BY <1>0, <4>3 DEF Insert, Session
      <4> QED
        BY <2>5, <4>1, <4>2, <4>3
    <3> QED
      BY <1>0, <3>1, <3>2 DEF SumInv, SumOK, Others
  <2>6. CASE SumUp(s)
    <3> DEFINE w     == work[s]
               first == Balance[w.at] - Total[Visible(s)]
    <3>1. /\ w.pc = "look" /\ w.acc \in Accounts /\ w.late = 0
          /\ (~w.makes => w.opening = Keep) /\ (w.makes => w.opening # Keep)
      BY <1>0, <2>6, NoValueAssumption DEF SumUp, PlaceOK
    <3>2. CASE w.at = None
      BY <2>6, <3>2, KeepsAccount DEF SumOK
    <3>3. CASE w.at # None
      <4>1. Balance[w.at] \in Int /\ Total[Visible(s)] \in Int /\ first # Keep
        <5>1. Balance[w.at] \in Int
          BY <1>0, <3>3, BankAssumption DEF Session
        <5>2. Visible(s) \in SUBSET Keys
          BY <3>1, VisibleType
        <5>3. Total[Visible(s)] \in Int
          BY <5>2, TotalType
        <5>4. first \in Int
          BY <5>1, <5>3
        <5> QED
          BY <5>1, <5>3, <5>4, NoValueAssumption
      <4> HIDE DEF first
      <4>2. w.makes => w.opening = w.loaded
        BY <3>1, <3>3, NoValueAssumption DEF SumInv, SumOK
      <4>3. /\ work'[s].acc = w.acc /\ work'[s].makes = w.makes
            /\ work'[s].at = w.at /\ work'[s].loaded = w.loaded
            /\ work'[s].late = 0
        BY <2>6, <3>1, KeepsAccount
      <4>4. /\ work'[s].new = w.new
            /\ work'[s].pc \in {"flush", "commit"}
            /\ work'[s].opening = IF first = w.loaded THEN w.opening ELSE first
        BY <1>0, <2>6, <3>3 DEF SumUp, Session, first
      <4>5. Stored(work'[s]) = first
        BY <3>1, <4>1, <4>2, <4>3, <4>4 DEF Stored
      <4>6. first + Total[booked[w.acc] \cup w.new] = Balance[w.at] + 0
        BY <4>1 DEF first, Visible
      <4> QED
        BY <1>0, <4>2, <4>3, <4>4, <4>5, <4>6 DEF SumOK, Others
    <3> QED
      BY <3>2, <3>3
  <2>7. CASE FlushOpening(s)
    <3>1. /\ work[s].pc = "flush" /\ work'[s].pc = "commit"
          /\ work'[s].opening = work[s].opening /\ work'[s].new = work[s].new
      BY <1>0, <2>7 DEF FlushOpening, Session
    <3>2. /\ work'[s].acc = work[s].acc /\ work'[s].makes = work[s].makes
          /\ work'[s].at = work[s].at /\ work'[s].loaded = work[s].loaded
          /\ work'[s].late = work[s].late
      BY <2>7, KeepsAccount
    <3> QED
      BY <1>0, <3>1, <3>2 DEF SumInv, SumOK, Others, Stored
  <2> QED
    BY <2>1, <2>2, <2>3, <2>4, <2>5, <2>6, <2>7 DEF SmallStep
<1> QED
  BY <1>0, <1>2, <1>3, <1>4, <1>5 DEF Shift

LEMMA SumCommitStep ==
  ASSUME TypeInv, NoBookingTwice, AccountInv, SumInv, NEW s \in Sessions, Committed(s)
  PROVE  SumInv'
<1> DEFINE a == work[s].acc
<1>0. /\ work[s] \in Session /\ a \in Accounts /\ a # NoAccount
      /\ booked \in [Accounts -> SUBSET Keys] /\ opening \in [Accounts -> Int]
      /\ booked' = [booked EXCEPT ![a] = booked[a] \cup work[s].new]
  BY NoValueAssumption DEF TypeInv, TypeOK, Committed
<1> SUFFICES ASSUME NEW t \in Sessions, work'[t].at # None, work'[t].acc # NoAccount
             PROVE  SumOK(t)'
  BY DEF SumInv, SumOK
<1> DEFINE w == work[t]
           v == work'[t]
<1>1. t # s
  BY DEF Committed, Ended, NoSession
<1>2. /\ v.pc = w.pc /\ v.acc = w.acc /\ v.makes = w.makes /\ v.at = w.at
      /\ v.loaded = w.loaded /\ v.opening = w.opening /\ v.new = w.new
  BY <1>1 DEF Committed
<1>3. /\ w \in Session /\ w.acc \in Accounts /\ w.at \in Postings
      /\ w.new \in SUBSET Keys
  BY <1>2 DEF TypeInv, TypeOK, Session
<1>4. /\ w.makes /\ w.pc \notin {"flush", "commit"} => w.opening = w.loaded
      /\ w.pc \in {"flush", "commit"} =>
           Stored(w) + Total[booked[w.acc] \cup w.new] = Balance[w.at] + w.late
  BY <1>2 DEF SumInv, SumOK
<1>5. Stored(v) = Stored(w)
  BY <1>2 DEF Stored
<1>6. CASE w.acc # a
  <2>1. v.late = w.late
    BY <1>1, <1>6 DEF Committed
  <2>2. booked'[w.acc] = booked[w.acc] /\ opening'[w.acc] = opening[w.acc]
    BY <1>0, <1>3, <1>6 DEF Committed
  <2> QED
    BY <1>2, <1>4, <1>5, <2>1, <2>2 DEF SumOK
<1>7. CASE w.acc = a
  <2>1. ~w.makes
    BY <1>1, <1>2, <1>7 DEF AccountInv
  <2>2. v.late = w.late + (IF w.pc \in {"flush", "commit"}
                          THEN Total[work[s].new] ELSE 0)
    BY <1>1, <1>7 DEF Committed
  <2>3. ASSUME w.pc \in {"flush", "commit"}
        PROVE  Stored(v) + Total[booked'[a] \cup v.new] = Balance[v.at] + v.late
    <3>1. /\ work[s].new \in SUBSET Keys /\ booked[a] \in SUBSET Keys
          /\ work[s].new \cap booked[a] = {} /\ work[s].new \cap w.new = {}
      BY <1>0, <1>1, <1>7 DEF NoBookingTwice, Session
    <3>2. Total[booked[a] \cup work[s].new \cup w.new] =
            Total[booked[a] \cup w.new] + Total[work[s].new]
      BY <1>3, <3>1, SumOfTwo
    <3>3. booked'[a] = booked[a] \cup work[s].new
      BY <1>0
    <3>4. /\ Total[booked[a] \cup w.new] \in Int /\ Total[work[s].new] \in Int
          /\ Stored(w) \in Int /\ Balance[w.at] \in Int /\ w.late \in Int
      BY <1>3, <3>1, TotalType, BankAssumption DEF Stored, Session
    <3>5. Stored(w) + Total[booked[a] \cup w.new] = Balance[w.at] + w.late
      BY <1>4, <1>7, <2>3
    <3> HIDE DEF a, w, v
    <3> QED
      BY <1>2, <1>5, <2>2, <2>3, <3>2, <3>3, <3>4, <3>5
  <2> QED
    BY <1>2, <1>7, <2>1, <2>3 DEF SumOK
<1> QED
  BY <1>6, <1>7

LEMMA SumStep ==
  TypeInv /\ NoBookingTwice /\ AccountInv /\ SumInv /\ [Next]_vars => SumInv'
<1> SUFFICES ASSUME TypeInv, NoBookingTwice, AccountInv, SumInv, [Next]_vars
             PROVE  SumInv'
  OBVIOUS
<1>1. CASE UNCHANGED <<accounts, opening, booked, work, known, overlapped, unsent>>
  BY <1>1 DEF SumInv, SumOK, Stored
<1>2. ASSUME NEW s \in Sessions, SmallStep(s) PROVE SumInv'
  BY <1>2, SumSmallStep
<1>3. ASSUME NEW s \in Sessions, Commit(s) PROVE SumInv'
  <2>1. CASE Others(s) /\ work'[s] = Ended
    <3>1. SumOK(s)'
      BY <2>1 DEF SumOK, Ended, NoSession
    <3> QED
      BY <2>1, <3>1, OthersKeepSum
  <2>2. CASE Committed(s)
    BY <2>2, SumCommitStep
  <2> QED
    BY <1>3, <2>1, <2>2, CommitStep
<1> QED
  BY <1>1, <1>2, <1>3, Steps

LEMMA InitSum == Init => SumInv
BY DEF Init, SumInv, SumOK, NoSession

LEMMA SumInvariant == Spec => []SumInv
BY InitSum, SumStep, TypeInvariant, StoredOnce, AccountInvariant, PTL DEF Spec

LEMMA LedgerStep ==
  TypeInv /\ NoBookingTwice /\ AccountInv /\ SumInv /\ LedgerMatchesBank /\ [Next]_vars
    => LedgerMatchesBank'
<1> SUFFICES ASSUME TypeInv, NoBookingTwice, AccountInv, SumInv, LedgerMatchesBank,
                    [Next]_vars
             PROVE  LedgerMatchesBank'
  OBVIOUS
<1>1. CASE UNCHANGED <<accounts, opening, booked, known, unsent>>
  BY <1>1 DEF LedgerMatchesBank, ShowsBalance
<1>2. ASSUME NEW s \in Sessions, Committed(s) PROVE LedgerMatchesBank'
  <2> DEFINE w == work[s]
             a == w.acc
  <2>0. /\ w \in Session /\ a \in Accounts /\ a # NoAccount /\ PlaceOK(w)
        /\ w.pc = "commit" /\ w.new \in SUBSET Keys
        /\ booked \in [Accounts -> SUBSET Keys] /\ opening \in [Accounts -> Int]
        /\ known \in [Accounts -> Int \cup {Unknown}]
        /\ accounts' = accounts \cup {a}
        /\ opening' = IF w.opening = Keep THEN opening
                      ELSE [opening EXCEPT ![a] = w.opening]
        /\ booked' = [booked EXCEPT ![a] = booked[a] \cup w.new]
        /\ known' = [known EXCEPT ![a] = Shown(s)]
        /\ unsent' = IF w.at = None THEN unsent
                     ELSE IF SendsNothing(s) THEN unsent \cup {a} ELSE unsent \ {a}
    BY <1>2, NoValueAssumption DEF TypeInv, TypeOK, Committed, Session
  <2>1. ASSUME NEW b \in accounts' \ unsent', b # a, known'[b] # Unknown
        PROVE  opening'[b] + Total[booked'[b]] = known'[b]
    <3>1. /\ b \in accounts \ unsent
          /\ known'[b] = known[b] /\ booked'[b] = booked[b]
          /\ opening'[b] = opening[b]
      BY <2>0, <2>1 DEF TypeInv, TypeOK
    <3> QED
      BY <2>1, <3>1 DEF LedgerMatchesBank, ShowsBalance
  <2>2. ASSUME a \notin unsent', known'[a] # Unknown
        PROVE  opening'[a] + Total[booked'[a]] = known'[a]
    <3>1. /\ known'[a] = Shown(s) /\ booked'[a] = booked[a] \cup w.new
          /\ opening'[a] = IF w.opening = Keep THEN opening[a] ELSE w.opening
      BY <2>0
    <3>2. CASE w.at # None
      <4>1. Stored(w) + Total[booked[a] \cup w.new] = Balance[w.at] + w.late
        BY <2>0, <3>2 DEF SumInv, SumOK
      <4>2. w.opening = Keep => w.loaded = opening[a]
        BY <2>0, <2>2, <3>2 DEF SendsNothing
      <4>3. known'[a] = Balance[w.at] + w.late
        BY <3>1, <3>2 DEF Shown
      <4>4. opening'[a] = Stored(w)
        BY <3>1, <4>2 DEF Stored
      <4> QED
        BY <3>1, <4>1, <4>3, <4>4
    <3>3. CASE w.at = None
      <4>1. /\ known[a] # Unknown /\ known'[a] = known[a] + Total[w.new]
            /\ a \notin unsent
        BY <2>0, <2>2, <3>1, <3>3 DEF Shown
      <4>2. a \in accounts
        BY <2>0, <4>1 DEF AccountInv
      <4>3. ~w.makes /\ w.opening = Keep
        BY <2>0, <3>3, <4>2 DEF AccountInv, PlaceOK
      <4>4. opening[a] + Total[booked[a]] = known[a]
        BY <4>1, <4>2 DEF LedgerMatchesBank, ShowsBalance
      <4>5. booked[a] \cap w.new = {} /\ booked[a] \in SUBSET Keys
        BY <2>0 DEF NoBookingTwice
      <4>6. Total[booked[a] \cup w.new] = Total[booked[a]] + Total[w.new]
        BY <2>0, <4>5, TotalType
      <4>7. /\ Total[booked[a]] \in Int /\ Total[w.new] \in Int /\ opening[a] \in Int
        BY <2>0, <4>5, TotalType
      <4> HIDE DEF w, a
      <4> QED
        BY <3>1, <4>1, <4>3, <4>4, <4>6, <4>7
    <3> QED
      BY <3>2, <3>3
  <2> QED
    BY <2>0, <2>1, <2>2 DEF LedgerMatchesBank, ShowsBalance
<1> QED
  BY <1>1, <1>2, Steps, OthersStep, CommitStep DEF Others

LEMMA InitLedger == Init => LedgerMatchesBank
BY InitType DEF Init, LedgerMatchesBank, ShowsBalance, TypeInv, TypeOK

\* The balance the app shows stays the one the bank reported to the last import and
\* what was booked after it, for any amounts and any interleaving of the sessions,
\* but where an import sent no UPDATE of a value that had been replaced (unsent).
THEOREM BalanceIsRight == Spec => []LedgerMatchesBank
BY InitLedger, LedgerStep, SumInvariant, TypeInvariant, StoredOnce, AccountInvariant,
   PTL DEF Spec

-----------------------------------------------------------------------------
(* What was fetched is booked *)

\* A fetched booking is stored, or still to be added.
Kept(s) ==
  \A k \in work[s].got :
    k \in Visible(s) \/ \E i \in 1..Len(work[s].todo) : work[s].todo[i] = k

FetchedInv ==
  \A s \in Sessions :
    work[s].pc \in {"look", "insert", "flush", "commit"} /\ work[s].acc # NoAccount
      => Kept(s)

\* Taking the first booking off the list leaves the others on it.
LEMMA TailKeeps ==
  ASSUME NEW todo \in Seq(Keys), todo # <<>>, NEW i \in 1..Len(todo)
  PROVE  todo[i] = Head(todo) \/ \E j \in 1..Len(Tail(todo)) : Tail(todo)[j] = todo[i]
<1>1. CASE i = 1
  BY <1>1
<1>2. CASE i # 1
  <2>1. /\ Len(Tail(todo)) = Len(todo) - 1
        /\ \A j \in 1..Len(Tail(todo)) : Tail(todo)[j] = todo[j + 1]
    BY HeadTailProperties
  <2>2. i - 1 \in 1..Len(Tail(todo)) /\ (i - 1) + 1 = i
    BY <1>2, <2>1
  <2> QED
    BY <2>1, <2>2
<1> QED
  BY <1>1, <1>2

LEMMA FetchedSmallStep ==
  ASSUME TypeInv, FetchedInv, NEW s \in Sessions, SmallStep(s)
  PROVE  FetchedInv'
<1>0. /\ work \in [Sessions -> Session] /\ work[s] \in Session
      /\ PlaceOK(work[s]) /\ Others(s)
  BY OthersStep DEF TypeInv, TypeOK
<1> SUFFICES ASSUME work'[s].pc \in {"look", "insert", "flush", "commit"},
                    work'[s].acc # NoAccount
             PROVE  Kept(s)'
  BY <1>0 DEF FetchedInv, Kept, Visible, Others
<1>1. CASE AddByHand(s)
  <2>1. work'[s].got = {}
    BY <1>0, <1>1 DEF AddByHand, NoSession
  <2> QED
    BY <2>1 DEF Kept
<1>2. CASE FetchBookings(s)
  <2>1. PICK raw \in {<<>>, SubSeq(List, Old + 1, posted)} :
          work' = [work EXCEPT ![s].todo = raw, ![s].pc = "look",
                               ![s].got = {raw[i] : i \in DOMAIN raw}]
    BY <1>2 DEF FetchBookings
  <2>2. work'[s].todo = raw /\ work'[s].got = {raw[i] : i \in DOMAIN raw}
    BY <1>0, <2>1 DEF Session
  <2>3. DOMAIN raw = 1..Len(raw)
    BY Fetched
  <2> QED
    BY <2>2, <2>3 DEF Kept
<1>3. CASE LookForDuplicate(s)
  <2>1. /\ Kept(s) /\ work[s].todo # <<>> /\ work[s].todo \in Seq(Keys)
        /\ work'[s].got = work[s].got /\ Visible(s)' = Visible(s)
    <3>1. /\ work[s].pc = "look" /\ work[s].acc # NoAccount /\ work[s].todo # <<>>
      BY <1>0, <1>3, NoValueAssumption DEF LookForDuplicate, PlaceOK
    <3>2. /\ work'[s].got = work[s].got /\ work'[s].new = work[s].new
          /\ work'[s].acc = work[s].acc
      BY <1>0, <1>3 DEF LookForDuplicate, Session
    <3> QED
      BY <1>0, <3>1, <3>2 DEF FetchedInv, Others, Visible, Session
  <2>2. \/ work'[s].todo = work[s].todo
        \/ Head(work[s].todo) \in Visible(s) /\ work'[s].todo = Tail(work[s].todo)
    BY <1>0, <1>3 DEF LookForDuplicate, Session
  <2>3. CASE work'[s].todo = work[s].todo
    BY <2>1, <2>3 DEF Kept
  <2>4. CASE Head(work[s].todo) \in Visible(s) /\ work'[s].todo = Tail(work[s].todo)
    BY <2>1, <2>4, TailKeeps DEF Kept
  <2> QED
    BY <2>2, <2>3, <2>4
<1>4. CASE Insert(s)
  <2>1. work'[s] # Ended
    BY NoValueAssumption DEF Ended, NoSession
  <2>2. /\ Kept(s) /\ work[s].todo # <<>> /\ work[s].todo \in Seq(Keys)
    BY <1>0, <1>4, NoValueAssumption DEF FetchedInv, Insert, PlaceOK, Session
  <2>3. /\ work'[s].got = work[s].got /\ work'[s].acc = work[s].acc
        /\ work'[s].new = work[s].new \cup {Head(work[s].todo)}
        /\ work'[s].todo = Tail(work[s].todo)
    BY <1>0, <1>4, <2>1 DEF Insert, Session
  <2>4. Visible(s)' = Visible(s) \cup {Head(work[s].todo)}
    BY <1>0, <2>3 DEF Visible, Others
  <2> QED
    BY <2>2, <2>3, <2>4, TailKeeps DEF Kept
<1>5. CASE SumUp(s) \/ FlushOpening(s)
  <2>1. Kept(s)
    BY <1>0, <1>5, NoValueAssumption DEF FetchedInv, SumUp, FlushOpening, PlaceOK
  <2>2. /\ work'[s].got = work[s].got /\ work'[s].acc = work[s].acc
        /\ work'[s].new = work[s].new /\ work'[s].todo = work[s].todo
    <3>1. CASE SumUp(s)
      BY <1>0, <3>1 DEF SumUp, Session
    <3>2. CASE FlushOpening(s)
      BY <1>0, <3>2 DEF FlushOpening, Session
    <3> QED
      BY <1>5, <3>1, <3>2
  <2> QED
    BY <1>0, <2>1, <2>2 DEF Kept, Visible, Others
<1>6. CASE BeginImport(s) \/ Fail(s)
  BY <1>0, <1>6 DEF BeginImport, Fail, NoSession, Ended
<1>7. CASE LockConnection(s)
  BY <1>0, <1>7 DEF LockConnection, PlaceOK, Session
<1>8. CASE FetchAccounts(s)
  <2>1. work'[s].acc = work[s].acc
    <3>1. CASE work' = [work EXCEPT ![s].pc =
                          IF s \in Links THEN "lock only" ELSE "commit"]
      BY <1>0, <3>1 DEF Session
    <3>2. ASSUME NEW at \in {posted, None},
                 work' = [work EXCEPT ![s].at = at,
                            ![s].pc = IF s \in Links THEN "lock" ELSE "find"]
          PROVE  work'[s].acc = work[s].acc
      BY <1>0, <3>2 DEF Session
    <3> QED
      BY <1>8, <3>1, <3>2 DEF FetchAccounts
  <2> QED
    BY <1>0, <1>8, <2>1 DEF FetchAccounts, PlaceOK
<1>9. CASE FindAccount(s) \/ CreateAccount(s)
  <2>1. work'[s].pc \in {"create", "bookings"}
    <3>1. CASE FindAccount(s)
      BY <1>0, <3>1 DEF FindAccount, Session
    <3>2. CASE CreateAccount(s)
      BY <1>0, <3>2 DEF CreateAccount, Session
    <3> QED
      BY <1>9, <3>1, <3>2
  <2> QED
    BY <2>1
<1> QED
  BY <1>1, <1>2, <1>3, <1>4, <1>5, <1>6, <1>7, <1>8, <1>9 DEF SmallStep

LEMMA FetchedStep == TypeInv /\ FetchedInv /\ [Next]_vars => FetchedInv'
<1> SUFFICES ASSUME TypeInv, FetchedInv, [Next]_vars PROVE FetchedInv'
  OBVIOUS
<1>1. CASE UNCHANGED <<accounts, opening, booked, work, known, overlapped, unsent>>
  BY <1>1 DEF FetchedInv, Kept, Visible
<1>2. ASSUME NEW s \in Sessions, SmallStep(s) PROVE FetchedInv'
  BY <1>2, FetchedSmallStep
<1>3. ASSUME NEW s \in Sessions, Commit(s) PROVE FetchedInv'
  <2>1. CASE Others(s) /\ work'[s] = Ended
    BY <2>1 DEF FetchedInv, Kept, Visible, Others, Ended, NoSession
  <2>2. CASE Committed(s)
    <3> SUFFICES ASSUME NEW t \in Sessions,
                        work'[t].pc \in {"look", "insert", "flush", "commit"},
                        work'[t].acc # NoAccount
                 PROVE  Kept(t)'
      BY DEF FetchedInv
    <3>1. t # s
      BY <2>2 DEF Committed, Ended, NoSession
    <3>2. /\ work'[t].pc = work[t].pc /\ work'[t].acc = work[t].acc
          /\ work'[t].got = work[t].got /\ work'[t].todo = work[t].todo
          /\ work'[t].new = work[t].new
      BY <2>2, <3>1 DEF Committed
    <3>3. work[t].acc \in Accounts
      BY <3>2 DEF TypeInv, TypeOK, Session
    <3>4. booked[work[t].acc] \subseteq booked'[work[t].acc]
      BY <2>2, <3>3 DEF Committed, TypeInv, TypeOK
    <3> QED
      BY <3>2, <3>4 DEF FetchedInv, Kept, Visible
  <2> QED
    BY <1>3, <2>1, <2>2, CommitStep
<1> QED
  BY <1>1, <1>2, <1>3, Steps

LEMMA InitFetched == Init => FetchedInv
BY DEF Init, FetchedInv, NoSession

LEMMA FetchedCommit ==
  TypeInv /\ FetchedInv /\ [Next]_vars =>
    [\A s \in Imports : Commit(s) /\ work[s].acc # NoAccount =>
       work[s].got \subseteq booked'[work[s].acc]]_vars
<1> SUFFICES ASSUME TypeInv, FetchedInv, NEW s \in Imports, Commit(s),
                    work[s].acc # NoAccount
             PROVE  work[s].got \subseteq booked'[work[s].acc]
  OBVIOUS
<1>1. s \in Sessions
  BY DEF Sessions
<1>2. Committed(s)
  BY <1>1, CommitStep
<1>3. Kept(s) /\ work[s].todo = <<>>
  BY <1>1, <1>2 DEF Committed, FetchedInv, TypeInv, PlaceOK
<1>4. booked'[work[s].acc] = booked[work[s].acc] \cup work[s].new
  BY <1>2 DEF Committed, TypeInv, TypeOK
<1> QED
  BY <1>3, <1>4 DEF Kept, Visible

\* An import that commits has stored everything it fetched, whatever it had to skip
\* as a duplicate on the way.
THEOREM NothingFetchedIsLost == Spec => FetchedIsBooked
BY InitFetched, FetchedStep, FetchedCommit, TypeInvariant, PTL
   DEF Spec, FetchedIsBooked

-----------------------------------------------------------------------------
(* Syncs and the lock of the connection *)

\* One session at a time holds the row of the connection.
LockInv ==
  \A s, t \in Imports : HoldsConnection(s) /\ HoldsConnection(t) => s = t

\* No balance counts postings still to come; bookings by hand have none.
PostedInv ==
  /\ \A a \in Accounts : asOf[a] <= posted
  /\ \A s \in Sessions : work[s].at # None => work[s].at <= posted
  /\ \A s \in Sessions \ Links :
       work[s].pc \in {"lock", "lock only"} => work[s].at = None
  /\ \A s \in Hands : /\ work[s].at = None
                     /\ work[s].pc \in {"idle", "look", "insert", "commit", "done"}

\* No session without the lock has begun.
Quiet == \A t \in Lockless : work[t].pc = "idle"

\* A sync that holds the row has the newest balance.
OrderInv ==
  Quiet => \A s \in Imports \ Links : HoldsConnection(s) /\ work[s].at # None =>
             \A a \in Accounts : asOf[a] <= work[s].at

\* Where a step leaves its session, as far as the lock and the balance go.
LEMMA PlaceStep ==
  ASSUME TypeInv, NEW s \in Sessions, SmallStep(s)
  PROVE  /\ work'[s].pc # "idle"
         /\ s \notin Links /\ work'[s].pc \in {"lock", "lock only"} => work'[s].at = None
         /\ \/ LockConnection(s)
            \/ HoldsConnection(s)' => HoldsConnection(s)
         /\ \/ work'[s].at \in {work[s].at, None}
            \/ FetchAccounts(s) /\ work'[s].at = posted
<1>0. /\ work \in [Sessions -> Session] /\ work[s] \in Session
      /\ Imports \cap Hands = {}
  BY SessionsAssumption DEF TypeInv, TypeOK
<1>1. CASE BeginImport(s)
  <2>1. /\ work'[s].pc = IF s \in Links THEN "accounts" ELSE "lock"
        /\ work'[s].at = None
    BY <1>0, <1>1 DEF BeginImport, NoSession
  <2> QED
    BY <2>1 DEF HoldsConnection
<1>2. CASE AddByHand(s)
  <2>1. work'[s].pc = "look" /\ work'[s].at = None /\ s \notin Imports
    BY <1>0, <1>2 DEF AddByHand, NoSession
  <2> QED
    BY <2>1 DEF HoldsConnection
<1>3. CASE LockConnection(s)
  BY <1>0, <1>3 DEF LockConnection, Session
<1>5. CASE FindAccount(s) \/ CreateAccount(s)
  <2>1. /\ work[s].pc \in {"find", "create"} /\ work'[s].pc \in {"create", "bookings"}
        /\ work'[s].at = work[s].at
    <3>1. CASE FindAccount(s)
      <4>1. CASE accounts = {}
        BY <1>0, <3>1, <4>1 DEF FindAccount, Session
      <4>2. CASE accounts # {}
        <5>1. PICK a \in accounts :
                work' = [work EXCEPT ![s].acc = a, ![s].loaded = opening[a],
                                     ![s].pc = "bookings"]
          BY <3>1, <4>2 DEF FindAccount
        <5> QED
          BY <1>0, <3>1, <5>1 DEF FindAccount, Session
      <4> QED
        BY <4>1, <4>2
    <3>2. CASE CreateAccount(s)
      BY <1>0, <3>2 DEF CreateAccount, Session
    <3> QED
      BY <1>5, <3>1, <3>2
  <2> QED
    BY <2>1 DEF HoldsConnection
<1>6. CASE FetchBookings(s) \/ LookForDuplicate(s) \/ SumUp(s) \/ FlushOpening(s)
           \/ (Insert(s) /\ work'[s] # Ended)
  <2>1. work'[s].at = work[s].at
    BY <1>6, KeepsAccount
  <2>2. /\ work[s].pc \in {"bookings", "look", "insert", "flush"}
        /\ work'[s].pc \in {"look", "insert", "flush", "commit"}
    <3>1. CASE FetchBookings(s)
      <4>1. PICK raw \in {<<>>, SubSeq(List, Old + 1, posted)} :
              work' = [work EXCEPT ![s].todo = raw, ![s].pc = "look",
                                   ![s].got = {raw[i] : i \in DOMAIN raw}]
        BY <3>1 DEF FetchBookings
      <4> QED
        BY <1>0, <3>1, <4>1 DEF FetchBookings, Session
    <3>2. CASE LookForDuplicate(s)
      BY <1>0, <3>2 DEF LookForDuplicate, Session
    <3>3. CASE SumUp(s)
      BY <1>0, <3>3 DEF SumUp, Session
    <3>4. CASE FlushOpening(s)
      BY <1>0, <3>4 DEF FlushOpening, Session
    <3>5. CASE Insert(s) /\ work'[s] # Ended
      BY <1>0, <3>5 DEF Insert, Session
    <3> QED
      BY <1>6, <3>1, <3>2, <3>3, <3>4, <3>5
  <2> QED
    BY <2>1, <2>2 DEF HoldsConnection
<1>7. CASE Fail(s) \/ work'[s] = Ended
  <2>1. work'[s].pc = "done" /\ work'[s].at = None
    BY <1>0, <1>7 DEF Fail, Ended, NoSession
  <2> QED
    BY <2>1 DEF HoldsConnection
<1>8. CASE FetchAccounts(s)
  <2>1. work[s].pc = "accounts"
    BY <1>8 DEF FetchAccounts
  <2>3. ASSUME NEW at \in {posted, None},
               work' = [work EXCEPT ![s].at = at,
                          ![s].pc = IF s \in Links THEN "lock" ELSE "find"]
        PROVE  /\ work'[s].pc # "idle"
               /\ s \notin Links => work'[s].pc \notin {"lock", "lock only"}
               /\ HoldsConnection(s)' => HoldsConnection(s)
               /\ work'[s].at \in {posted, None}
    <3>1. /\ work'[s].pc = IF s \in Links THEN "lock" ELSE "find"
          /\ work'[s].at = at
      BY <1>0, <2>3 DEF Session
    <3> QED
      BY <2>1, <3>1 DEF HoldsConnection
  <2>4. CASE \E at \in {posted, None} :
               work' = [work EXCEPT ![s].at = at,
                          ![s].pc = IF s \in Links THEN "lock" ELSE "find"]
    BY <1>8, <2>3, <2>4
  <2>5. CASE work' = [work EXCEPT ![s].pc =
                        IF s \in Links THEN "lock only" ELSE "commit"]
    <3>1. /\ work'[s].pc = IF s \in Links THEN "lock only" ELSE "commit"
          /\ work'[s].at = work[s].at
      BY <1>0, <2>5 DEF Session
    <3> QED
      BY <2>1, <3>1 DEF HoldsConnection
  <2> QED
    BY <1>8, <2>4, <2>5 DEF FetchAccounts
<1> QED
  BY <1>1, <1>2, <1>3, <1>5, <1>6, <1>7, <1>8 DEF SmallStep

\* A session by hand only looks, inserts and commits.
LEMMA HandStep ==
  ASSUME TypeInv, PostedInv, NEW s \in Hands, SmallStep(s)
  PROVE  /\ work'[s].at = None
         /\ work'[s].pc \in {"idle", "look", "insert", "commit", "done"}
<1>0. /\ work \in [Sessions -> Session] /\ s \in Sessions /\ work[s] \in Session
      /\ work[s].at = None
      /\ work[s].pc \in {"idle", "look", "insert", "commit", "done"}
      /\ s \notin Imports
  BY SessionsAssumption DEF TypeInv, TypeOK, Sessions, PostedInv
<1>1. CASE AddByHand(s)
  BY <1>0, <1>1 DEF AddByHand, NoSession
<1>2. CASE LookForDuplicate(s)
  BY <1>0, <1>2 DEF LookForDuplicate, Session
<1>3. CASE Insert(s)
  <2>1. CASE work'[s] = Ended
    BY <2>1 DEF Ended, NoSession
  <2>2. CASE work'[s] # Ended
    BY <1>0, <1>3, <2>2 DEF Insert, Session
  <2> QED
    BY <2>1, <2>2
<1>4. CASE SumUp(s)
  BY <1>0, <1>4 DEF SumUp, Session
<1>5. CASE Fail(s)
  BY <1>0, <1>5 DEF Fail, Ended, NoSession
<1>6. ~( \/ BeginImport(s) \/ LockConnection(s) \/ FetchAccounts(s) \/ FindAccount(s)
         \/ CreateAccount(s) \/ FetchBookings(s) \/ FlushOpening(s))
  BY <1>0 DEF BeginImport, LockConnection, FetchAccounts, FindAccount, CreateAccount,
     FetchBookings, FlushOpening
<1> QED
  BY <1>1, <1>2, <1>3, <1>4, <1>5, <1>6 DEF SmallStep

\* What a step does to asOf and posted.
Quiescent == UNCHANGED <<work, asOf>> /\ posted' \in Nat /\ posted <= posted'
QuietStep(s) == SmallStep(s) /\ UNCHANGED <<posted, asOf>>
QuietCommit(s) == Commit(s) /\ UNCHANGED posted

LEMMA AsOfStep ==
  ASSUME TypeInv, [Next]_vars
  PROVE  Quiescent \/ \E s \in Sessions : QuietStep(s) \/ QuietCommit(s)
<1>1. posted \in Nat
  BY BankAssumption DEF TypeInv, TypeOK, Postings
<1>2. CASE Post
  BY <1>1, <1>2 DEF Post, history, Quiescent
<1>3. CASE UNCHANGED vars
  BY <1>1, <1>3 DEF vars, history, Quiescent
<1>4. ASSUME NEW s \in Sessions, SmallStep(s)
      PROVE  UNCHANGED <<posted, asOf>>
  BY <1>4 DEF SmallStep, BeginImport, AddByHand, LockConnection, FetchAccounts,
     FindAccount, CreateAccount, FetchBookings, LookForDuplicate, Insert, SumUp,
     FlushOpening, Fail, history
<1>5. ASSUME NEW s \in Sessions, Commit(s) PROVE UNCHANGED posted
  BY <1>5 DEF Commit
<1>6. CASE \E s \in Sessions : SmallStep(s) \/ Commit(s)
  BY <1>4, <1>5, <1>6 DEF QuietStep, QuietCommit
<1> QED
  BY <1>2, <1>3, <1>6 DEF Next, Step, SmallStep, Quiescent

\* A commit stores the balance its session brought, if it brought one.
LEMMA AsOfCommit ==
  ASSUME TypeInv, NEW s \in Sessions, Commit(s)
  PROVE  /\ work[s].at = None => UNCHANGED asOf
         /\ \A a \in Accounts : asOf'[a] \in {asOf[a], work[s].at}
         /\ work'[s] = Ended
         /\ \A t \in Sessions \ {s} : work'[t].pc = work[t].pc /\ work'[t].at = work[t].at
<1>1. /\ work'[s] = Ended
      /\ \A t \in Sessions \ {s} : work'[t].pc = work[t].pc /\ work'[t].at = work[t].at
  BY CommitStep DEF Others, Committed
<1>2. asOf' = asOf \/ (/\ work[s].at # None
                       /\ asOf' = [asOf EXCEPT ![work[s].acc] = work[s].at])
  BY DEF Commit
<1> QED
  BY <1>1, <1>2 DEF TypeInv, TypeOK

LEMMA LockStep == TypeInv /\ LockInv /\ [Next]_vars => LockInv'
<1> SUFFICES ASSUME TypeInv, LockInv, [Next]_vars PROVE LockInv'
  OBVIOUS
<1>0. Imports \subseteq Sessions
  BY DEF Sessions
<1>1. CASE Quiescent
  BY <1>1 DEF Quiescent, LockInv, HoldsConnection
<1>2. ASSUME NEW s \in Sessions, QuietStep(s) PROVE LockInv'
  <2>0. SmallStep(s)
    BY <1>2 DEF QuietStep
  <2>1. \A t \in Sessions \ {s} : HoldsConnection(t)' => HoldsConnection(t)
    BY <2>0, OthersStep DEF Others, HoldsConnection
  <2>2. CASE HoldsConnection(s)' => HoldsConnection(s)
    BY <1>0, <2>1, <2>2 DEF LockInv
  <2>3. CASE LockConnection(s) /\ HoldsConnection(s)'
    <3>1. \A t \in Imports \ {s} : ~HoldsConnection(t)
      BY <2>3 DEF LockConnection, HoldsConnection
    <3> QED
      BY <1>0, <2>1, <3>1 DEF LockInv
  <2> QED
    BY <2>0, <2>2, <2>3, PlaceStep
<1>3. ASSUME NEW s \in Sessions, QuietCommit(s) PROVE LockInv'
  <2>1. \A t \in Sessions : HoldsConnection(t)' => HoldsConnection(t)
    BY <1>3, AsOfCommit DEF QuietCommit, HoldsConnection, Ended, NoSession
  <2> QED
    BY <1>0, <2>1 DEF LockInv
<1> QED
  BY <1>1, <1>2, <1>3, AsOfStep

LEMMA PostedStep == TypeInv /\ PostedInv /\ [Next]_vars => PostedInv'
<1> SUFFICES ASSUME TypeInv, PostedInv, [Next]_vars PROVE PostedInv'
  OBVIOUS
<1>0. /\ posted \in Nat /\ asOf \in [Accounts -> Nat] /\ Hands \subseteq Sessions
      /\ \A s \in Sessions : work[s].at = None \/ work[s].at \in Nat
  BY BankAssumption DEF TypeInv, TypeOK, Postings, Session, Sessions
<1>1. CASE Quiescent
  <2>1. posted' \in Nat /\ posted <= posted' /\ work' = work /\ asOf' = asOf
    BY <1>1 DEF Quiescent
  <2>0. \A n \in Nat : n <= posted => n <= posted'
    BY <1>0, <2>1
  <2>2. ASSUME NEW a \in Accounts PROVE asOf[a] <= posted'
    <3>1. asOf[a] \in Nat /\ asOf[a] <= posted
      BY <1>0 DEF PostedInv
    <3> QED
      BY <2>0, <3>1
  <2>3. ASSUME NEW s \in Sessions, work[s].at # None PROVE work[s].at <= posted'
    <3>1. work[s].at \in Nat /\ work[s].at <= posted
      BY <1>0, <2>3 DEF PostedInv
    <3> QED
      BY <2>0, <3>1
  <2> QED
    BY <2>1, <2>2, <2>3 DEF PostedInv
<1>2. ASSUME NEW s \in Sessions, QuietStep(s)
      PROVE  PostedInv'
  <2>0. SmallStep(s) /\ UNCHANGED <<posted, asOf>>
    BY <1>2 DEF QuietStep
  <2>1. \A t \in Sessions \ {s} : work'[t] = work[t]
    BY <2>0, OthersStep DEF Others
  <2>2. work'[s].at # None => work'[s].at <= posted
    <3>1. work'[s].at = work[s].at \/ work'[s].at \in {posted, None}
      BY <2>0, PlaceStep
    <3>2. posted <= posted
      BY <1>0
    <3> QED
      BY <3>1, <3>2 DEF PostedInv
  <2>3. s \in Hands => /\ work'[s].at = None
                      /\ work'[s].pc \in {"idle", "look", "insert", "commit", "done"}
    BY <2>0, HandStep
  <2>4. s \notin Links /\ work'[s].pc \in {"lock", "lock only"} => work'[s].at = None
    BY <2>0, PlaceStep
  <2> QED
    BY <1>0, <2>0, <2>1, <2>2, <2>3, <2>4 DEF PostedInv
<1>3. ASSUME NEW s \in Sessions, QuietCommit(s) PROVE PostedInv'
  <2>1. /\ work[s].at = None => UNCHANGED asOf
        /\ \A a \in Accounts : asOf'[a] \in {asOf[a], work[s].at}
        /\ \A t \in Sessions \ {s} : work'[t].pc = work[t].pc /\ work'[t].at = work[t].at
        /\ work'[s].at = None /\ work'[s].pc = "done" /\ UNCHANGED posted
    BY <1>3, AsOfCommit DEF QuietCommit, Ended, NoSession
  <2>2. \A a \in Accounts : asOf'[a] <= posted
    BY <2>1 DEF PostedInv
  <2> QED
    BY <1>0, <2>1, <2>2 DEF PostedInv
<1> QED
  BY <1>1, <1>2, <1>3, AsOfStep

LEMMA OrderStep ==
  TypeInv /\ LockInv /\ PostedInv /\ OrderInv /\ [Next]_vars => OrderInv'
<1> SUFFICES ASSUME TypeInv, LockInv, PostedInv, OrderInv, [Next]_vars, Quiet'
             PROVE  \A s \in Imports \ Links :
                      HoldsConnection(s)' /\ work'[s].at # None =>
                        \A a \in Accounts : asOf'[a] <= work'[s].at
  BY DEF OrderInv
<1>0. Imports \subseteq Sessions /\ Lockless \subseteq Imports
  BY SessionsAssumption DEF Sessions
<1>1. CASE Quiescent
  BY <1>1 DEF Quiescent, OrderInv, Quiet, HoldsConnection
<1>2. ASSUME NEW s \in Sessions, QuietStep(s),
             NEW t \in Imports \ Links, HoldsConnection(t)', work'[t].at # None,
             NEW a \in Accounts
      PROVE  asOf'[a] <= work'[t].at
  <2>0. SmallStep(s) /\ UNCHANGED <<posted, asOf>>
    BY <1>2 DEF QuietStep
  <2>1. \A u \in Sessions \ {s} : work'[u] = work[u]
    BY <2>0, OthersStep DEF Others
  <2>2. work'[s].pc # "idle"
    BY <2>0, PlaceStep
  <2>3. Quiet
    BY <1>0, <2>1, <2>2 DEF Quiet
  <2>4. CASE t # s
    BY <1>0, <1>2, <2>0, <2>1, <2>3, <2>4 DEF OrderInv, HoldsConnection
  <2>5. CASE t = s
    <3>1. CASE FetchAccounts(s) /\ work'[s].at = posted
      BY <1>2, <2>0, <2>5, <3>1 DEF PostedInv
    <3>2. CASE work'[s].at = work[s].at
      <4>1. CASE HoldsConnection(s)
        BY <1>2, <2>0, <2>3, <2>5, <3>2, <4>1 DEF OrderInv
      <4>2. CASE LockConnection(s)
        <5>1. work[s].pc \in {"lock", "lock only"}
          BY <4>2 DEF LockConnection
        <5> QED
          BY <1>2, <2>0, <2>5, <3>2, <5>1 DEF PostedInv
      <4> QED
        BY <1>2, <2>0, <2>5, <4>1, <4>2, PlaceStep
    <3> QED
      BY <1>2, <2>0, <2>5, <3>1, <3>2, PlaceStep
  <2> QED
    BY <2>4, <2>5
<1>3. ASSUME NEW s \in Sessions, QuietCommit(s),
             NEW t \in Imports \ Links, HoldsConnection(t)', work'[t].at # None,
             NEW a \in Accounts
      PROVE  asOf'[a] <= work'[t].at
  <2>1. /\ work[s].at = None => UNCHANGED asOf
        /\ work'[s].pc = "done"
        /\ \A u \in Sessions \ {s} : work'[u].pc = work[u].pc /\ work'[u].at = work[u].at
    BY <1>3, AsOfCommit DEF QuietCommit, Ended, NoSession
  <2>2. Quiet
    BY <1>0, <1>3, <2>1 DEF Quiet
  <2>3. t # s
    BY <1>3, <2>1 DEF HoldsConnection
  <2>4. HoldsConnection(t) /\ work[t].at = work'[t].at
    BY <1>0, <1>3, <2>1, <2>3 DEF HoldsConnection
  <2>5. \A b \in Accounts : asOf[b] <= work[t].at
    BY <1>3, <2>2, <2>4 DEF OrderInv
  <2>6. work[s].at = None
    <3>1. CASE s \in Hands
      BY <3>1 DEF PostedInv
    <3>2. CASE s \in Imports
      <4>1. work[s].pc = "commit"
        BY <1>3 DEF QuietCommit, Commit
      <4>2. HoldsConnection(s)
        BY <2>2, <3>2, <4>1 DEF HoldsConnection, Quiet
      <4> QED
        BY <1>3, <2>3, <2>4, <3>2, <4>2 DEF LockInv
    <3> QED
      BY <3>1, <3>2 DEF Sessions
  <2> QED
    BY <2>1, <2>4, <2>5, <2>6
<1> QED
  BY <1>1, <1>2, <1>3, AsOfStep

OlderInv == LockInv /\ PostedInv /\ OrderInv

LEMMA InitOlder == Init => OlderInv
<1> SUFFICES ASSUME Init PROVE OlderInv
  OBVIOUS
<1>1. \A s \in Sessions : work[s] = NoSession
  BY DEF Init
<1>2. LockInv /\ OrderInv
  <2>1. \A s \in Imports : work[s].pc = "idle"
    BY <1>1 DEF NoSession, Sessions
  <2> QED
    BY <2>1 DEF LockInv, OrderInv, HoldsConnection
<1>3. PostedInv
  <2>1. \A s \in Sessions : work[s].at = None /\ work[s].pc = "idle"
    BY <1>1 DEF NoSession
  <2>2. \A a \in Accounts : asOf[a] = 0
    BY DEF Init
  <2>3. posted \in Nat
    BY BankAssumption DEF Init, Postings
  <2> QED
    <3>1. Hands \subseteq Sessions
      BY DEF Sessions
    <3>2. \A a \in Accounts : asOf[a] <= posted
      BY <2>2, <2>3
    <3> QED
      BY <2>1, <3>1, <3>2 DEF PostedInv
<1> QED
  BY <1>2, <1>3 DEF OlderInv

LEMMA OlderCommit ==
  TypeInv /\ OlderInv /\ [Next]_vars =>
    [\A s \in Imports \ Links, a \in Accounts :
       Commit(s) /\ (\A t \in Lockless : work[t].pc = "idle") =>
         asOf'[a] >= asOf[a]]_vars
<1> SUFFICES ASSUME TypeInv, OlderInv, NEW s \in Imports \ Links, NEW a \in Accounts,
                    Commit(s), Quiet
             PROVE  asOf'[a] >= asOf[a]
  BY DEF Quiet
<1>1. s \in Sessions
  BY DEF Sessions
<1>2. /\ work[s].at = None => UNCHANGED asOf
      /\ asOf'[a] \in {asOf[a], work[s].at}
  BY <1>1, AsOfCommit
<1>3. work[s].at # None => asOf[a] <= work[s].at
  <2>1. work[s].pc = "commit"
    BY DEF Commit
  <2>2. HoldsConnection(s)
    BY <2>1 DEF HoldsConnection, Quiet
  <2> QED
    BY <2>2 DEF OlderInv, OrderInv
<1>4. asOf[a] \in Nat /\ (work[s].at # None => work[s].at \in Nat)
  BY <1>1, BankAssumption DEF TypeInv, TypeOK, Session, Postings
<1> QED
  BY <1>2, <1>3, <1>4

\* The row lock of the connection orders the syncs: none of them replaces a balance
\* by an older one.
THEOREM SyncsGoForward == Spec => BalanceNeverOlder
<1>1. TypeInv /\ OlderInv /\ [Next]_vars => OlderInv'
  BY LockStep, PostedStep, OrderStep DEF OlderInv
<1> QED
  BY <1>1, InitOlder, OlderCommit, TypeInvariant, PTL DEF Spec, BalanceNeverOlder

-----------------------------------------------------------------------------
(* Sessions that wait for each other *)

N == INSTANCE NumbersAndSums

\* An import is at posting p of the list: those before it are booked, it has
\* inserted some of them itself, and what it inserts is not among them.
IsAt(s, p) ==
  LET w      == work[s]
      before == (Old + 1)..(p - 1)
  IN  /\ Len(w.todo) <= Len(List) + 1 - p
      /\ \A i \in 1..Len(w.todo) : w.todo[i] = List[p - 1 + i]
      /\ \A k \in w.new : \E i \in before : List[i] = k
      /\ \A i \in before : List[i] \in Visible(s)
      /\ w.pc = "insert" => \A i \in before : List[i] # List[p]

\* Imports go through the list in its order; a booking by hand is one booking.
QueueInv ==
  /\ \A s \in Imports :
       work[s].pc \in {"look", "insert"} => \E p \in (Old + 1)..(Len(List) + 1) : IsAt(s, p)
  /\ \A s \in Hands :
       work[s].pc \in {"look", "insert"}
         => work[s].todo = <<>> \/ (work[s].new = {} /\ Tail(work[s].todo) = <<>>)

LEMMA InitQueue == Init => QueueInv
BY SessionsAssumption DEF Init, QueueInv, Sessions, NoSession

\* Of no session that ends or is before the bookings is anything said.
LEMMA QueueElsewhere ==
  ASSUME TypeInv, QueueInv, NEW s \in Sessions, Others(s),
         work'[s].pc \notin {"look", "insert"}
  PROVE  QueueInv'
<1>1. \A t \in Sessions \ {s} : work'[t] = work[t] /\ Visible(t)' = Visible(t)
  BY DEF Others, Visible
<1>2. ASSUME NEW t \in Imports, work'[t].pc \in {"look", "insert"}
      PROVE  \E p \in (Old + 1)..(Len(List) + 1) : IsAt(t, p)'
  <2>1. t \in Sessions \ {s}
    BY <1>2 DEF Sessions
  <2>2. PICK p \in (Old + 1)..(Len(List) + 1) : IsAt(t, p)
    BY <1>1, <1>2, <2>1 DEF QueueInv
  <2>3. IsAt(t, p)'
    BY <1>1, <2>1, <2>2 DEF IsAt
  <2> QED
    BY <2>3
<1>3. ASSUME NEW t \in Hands, work'[t].pc \in {"look", "insert"}
      PROVE  work'[t].todo = <<>> \/ (work'[t].new = {} /\ Tail(work'[t].todo) = <<>>)
  <2>1. t \in Sessions \ {s}
    BY <1>3 DEF Sessions
  <2> QED
    BY <1>1, <1>3, <2>1 DEF QueueInv
<1> QED
  BY <1>2, <1>3 DEF QueueInv

\* What is to be shown of a step of an import, and of one of a booking by hand.
LEMMA QueueHere ==
  ASSUME TypeInv, QueueInv, NEW s \in Sessions, Others(s),
         s \in Imports => \E p \in (Old + 1)..(Len(List) + 1) : IsAt(s, p)',
         s \in Hands =>
           work'[s].todo = <<>> \/ (work'[s].new = {} /\ Tail(work'[s].todo) = <<>>)
  PROVE  QueueInv'
<1>1. \A t \in Sessions \ {s} : work'[t] = work[t] /\ Visible(t)' = Visible(t)
  BY DEF Others, Visible
<1>2. ASSUME NEW t \in Imports, work'[t].pc \in {"look", "insert"}
      PROVE  \E p \in (Old + 1)..(Len(List) + 1) : IsAt(t, p)'
  <2>1. CASE t = s
    BY <2>1
  <2>2. CASE t # s
    <3>1. t \in Sessions \ {s}
      BY <2>2 DEF Sessions
    <3>2. PICK p \in (Old + 1)..(Len(List) + 1) : IsAt(t, p)
      BY <1>1, <1>2, <3>1 DEF QueueInv
    <3>3. IsAt(t, p)'
      BY <1>1, <3>1, <3>2 DEF IsAt
    <3> QED
      BY <3>3
  <2> QED
    BY <2>1, <2>2
<1>3. ASSUME NEW t \in Hands, work'[t].pc \in {"look", "insert"}
      PROVE  work'[t].todo = <<>> \/ (work'[t].new = {} /\ Tail(work'[t].todo) = <<>>)
  <2>1. CASE t = s
    BY <2>1
  <2>2. CASE t # s
    <3>1. t \in Sessions \ {s}
      BY <2>2 DEF Sessions
    <3> QED
      BY <1>1, <1>3, <3>1 DEF QueueInv
  <2> QED
    BY <2>1, <2>2
<1> QED
  BY <1>2, <1>3 DEF QueueInv

LEMMA BoundsOfList ==
  /\ List \in Seq(Keys) /\ Len(List) \in Nat /\ Old \in 0..Len(List)
  /\ \A i \in 1..Len(List) : List[i] \in Keys
<1>1. List \in Seq(Keys) /\ Old \in 0..Len(List)
  BY BankAssumption DEF Postings
<1>2. Len(List) \in Nat
  BY <1>1
<1> QED
  BY <1>1, <1>2

\* An import is at p after a step that leaves it there.
LEMMA GetsTo ==
  ASSUME NEW s, NEW p \in Int, work'[s].pc # "insert",
         Len(work'[s].todo) <= Len(List) + 1 - p,
         \A i \in 1..Len(work'[s].todo) : work'[s].todo[i] = List[p - 1 + i],
         \A k \in work'[s].new : \E i \in (Old + 1)..(p - 1) : List[i] = k,
         \A i \in (Old + 1)..(p - 1) : List[i] \in Visible(s)'
  PROVE  IsAt(s, p)'
BY DEF IsAt

\* fetch_transactions starts a list at its beginning.
LEMMA QueueFetch ==
  ASSUME TypeInv, QueueInv, NEW s \in Sessions, Others(s), FetchBookings(s)
  PROVE  \E p \in (Old + 1)..(Len(List) + 1) : IsAt(s, p)'
<1>0. work \in [Sessions -> Session] /\ work[s] \in Session /\ PlaceOK(work[s])
      /\ work[s].pc = "bookings" /\ posted \in 0..Len(List)
  BY DEF FetchBookings, TypeInv, TypeOK, Postings
<1>1. PICK raw \in {<<>>, SubSeq(List, Old + 1, posted)} :
        work' = [work EXCEPT ![s].todo = raw, ![s].pc = "look",
                             ![s].got = {raw[i] : i \in DOMAIN raw}]
  BY DEF FetchBookings
<1> DEFINE v == work'[s]
<1>2. v.todo = raw /\ v.pc = "look" /\ v.new = {}
  BY <1>0, <1>1 DEF PlaceOK, Session
<1>3. PICK p \in (Old + 1)..(Len(List) + 1) : p = Old + 1
  BY BoundsOfList
<1>4. Len(raw) <= Len(List) + 1 - p /\ \A i \in 1..Len(raw) : raw[i] = List[p - 1 + i]
  <2>1. CASE raw = <<>>
    BY <1>3, <2>1, BoundsOfList
  <2>2. CASE raw = SubSeq(List, Old + 1, posted)
    <3>1. Old + 1 \in Int /\ posted \in Int
          /\ \A i \in (Old + 1)..posted : List[i] \in Keys
      BY <1>0, BoundsOfList
    <3>2. LET q == SubSeq(List, Old + 1, posted)
          IN  /\ Len(q) = IF Old + 1 <= posted THEN posted - (Old + 1) + 1 ELSE 0
              /\ \A i \in 1..(posted - (Old + 1) + 1) : q[i] = List[Old + 1 + i - 1]
      BY <3>1, SubSeqProperties
    <3>3. /\ Len(raw) = IF Old + 1 <= posted THEN posted - (Old + 1) + 1 ELSE 0
          /\ \A i \in 1..(posted - (Old + 1) + 1) : raw[i] = List[Old + 1 + i - 1]
      BY <2>2, <3>2, Zenon
    <3>4. Len(raw) <= Len(List) + 1 - p
      BY <1>0, <1>3, <3>3, BoundsOfList
    <3>5. ASSUME NEW i \in 1..Len(raw) PROVE raw[i] = List[p - 1 + i]
      <4>1. i \in 1..(posted - (Old + 1) + 1) /\ Old + 1 + i - 1 = p - 1 + i
        BY <1>0, <1>3, <3>3, BoundsOfList
      <4> QED
        BY <3>3, <4>1
    <3> QED
      BY <3>4, <3>5
  <2> QED
    BY <2>1, <2>2
<1>5. work'[s].todo = raw /\ work'[s].pc # "insert" /\ work'[s].new = {}
  BY <1>2
<1> HIDE DEF v
<1>6. /\ Len(work'[s].todo) <= Len(List) + 1 - p
      /\ \A i \in 1..Len(work'[s].todo) : work'[s].todo[i] = List[p - 1 + i]
  BY <1>4, <1>5, Zenon
<1>7. p \in Int /\ \A i \in (Old + 1)..(p - 1) : FALSE
  BY <1>3, BoundsOfList
<1>8. IsAt(s, p)'
  BY <1>5, <1>6, <1>7, GetsTo
<1> QED
  BY <1>8

\* An import takes the first booking off its list.
LEMMA QueueTake ==
  ASSUME TypeInv, NEW s \in Sessions, Others(s),
         NEW p \in (Old + 1)..(Len(List) + 1), IsAt(s, p), work[s].todo # <<>>,
         work'[s].acc = work[s].acc, work'[s].pc = "look",
         work'[s].todo = Tail(work[s].todo),
         \/ List[p] \in Visible(s) /\ work'[s].new = work[s].new
         \/ work'[s].new = work[s].new \cup {List[p]}
  PROVE  p + 1 \in (Old + 1)..(Len(List) + 1) /\ IsAt(s, p + 1)'
<1> DEFINE todo == work[s].todo
           rest == work'[s].todo
<1>1. todo \in Seq(Keys) /\ work[s].acc \in Accounts \cup {NoAccount}
  BY DEF TypeInv, TypeOK, Session
<1>2. /\ Len(rest) = Len(todo) - 1 /\ Len(todo) \in Nat /\ Len(todo) >= 1
      /\ \A i \in 1..Len(rest) : rest[i] = todo[i + 1]
  <2>1. /\ Len(Tail(todo)) = Len(todo) - 1
        /\ \A i \in 1..Len(Tail(todo)) : Tail(todo)[i] = todo[i + 1]
    BY <1>1, HeadTailProperties
  <2>2. Len(todo) \in Nat /\ Len(todo) >= 1
    BY <1>1
  <2>3. rest = Tail(todo)
    OBVIOUS
  <2> HIDE DEF rest
  <2>4. QED
    BY <2>1, <2>2, <2>3
<1>3. /\ Len(todo) <= Len(List) + 1 - p
      /\ \A i \in 1..Len(todo) : todo[i] = List[p - 1 + i]
      /\ \A k \in work[s].new : \E i \in (Old + 1)..(p - 1) : List[i] = k
      /\ \A i \in (Old + 1)..(p - 1) : List[i] \in Visible(s)
  BY DEF IsAt
<1>4. p \in Int /\ Old \in Int /\ Len(List) \in Int /\ Old < p /\ p <= Len(List)
  BY <1>2, <1>3, BoundsOfList
<1>5. \A i : i \in (Old + 1)..(p + 1 - 1) <=> i = p \/ i \in (Old + 1)..(p - 1)
  BY <1>4
<1>6. Visible(s) \subseteq Visible(s)' /\ List[p] \in Visible(s)'
  BY DEF Visible, Others
<1>7. Len(rest) <= Len(List) + 1 - (p + 1)
  <2> HIDE DEF rest, todo
  <2> QED
    BY <1>2, <1>3, <1>4
<1>8. ASSUME NEW i \in 1..Len(rest) PROVE rest[i] = List[p + 1 - 1 + i]
  <2>1. rest[i] = todo[i + 1]
    BY <1>2
  <2>2. i + 1 \in 1..Len(todo) /\ p - 1 + (i + 1) = p + 1 - 1 + i
    <3> HIDE DEF rest, todo
    <3> QED
      BY <1>2, <1>4
  <2>3. todo[i + 1] = List[p - 1 + (i + 1)]
    BY <1>3, <2>2
  <2> QED
    BY <2>1, <2>2, <2>3
<1>9. ASSUME NEW k \in work'[s].new PROVE \E i \in (Old + 1)..(p + 1 - 1) : List[i] = k
  BY <1>3, <1>5
<1>10. \A i \in (Old + 1)..(p + 1 - 1) : List[i] \in Visible(s)'
  BY <1>3, <1>5, <1>6
<1>11. IsAt(s, p + 1)'
  BY <1>7, <1>8, <1>9, <1>10 DEF IsAt
<1> QED
  BY <1>4, <1>11

\* An import finds that the first booking of its list is not there yet.
LEMMA QueueStop ==
  ASSUME TypeInv, NEW s \in Sessions, Others(s),
         NEW p \in (Old + 1)..(Len(List) + 1), IsAt(s, p), work[s].todo # <<>>,
         work'[s].acc = work[s].acc, work'[s].todo = work[s].todo,
         work'[s].new = work[s].new, List[p] \notin Visible(s)
  PROVE  IsAt(s, p)'
<1>1. Visible(s)' = Visible(s)
  BY DEF Visible, Others
<1>2. \A i \in (Old + 1)..(p - 1) : List[i] # List[p]
  BY DEF IsAt
<1> QED
  BY <1>1, <1>2 DEF IsAt

LEMMA FirstOfList ==
  ASSUME TypeInv, NEW s \in Sessions, NEW p \in (Old + 1)..(Len(List) + 1), IsAt(s, p),
         work[s].todo # <<>>
  PROVE  Head(work[s].todo) = List[p] /\ p <= Len(List)
<1> DEFINE todo == work[s].todo
<1>1. todo \in Seq(Keys)
  BY DEF TypeInv, TypeOK, Session
<1>2. 1 \in 1..Len(todo) /\ Head(todo) = todo[1]
  BY <1>1
<1>3. todo[1] = List[p - 1 + 1] /\ Len(todo) <= Len(List) + 1 - p
  BY <1>2 DEF IsAt
<1>4. p - 1 + 1 = p /\ p \in Int /\ Len(List) \in Int
  BY BoundsOfList
<1>5. Head(todo) = List[p]
  BY <1>2, <1>3, <1>4
<1>6. p <= Len(List)
  <2> HIDE DEF todo
  <2> QED
    BY <1>1, <1>2, <1>3, <1>4
<1> QED
  BY <1>5, <1>6

LEMMA QueueSmallStep ==
  ASSUME TypeInv, PostedInv, QueueInv, NEW s \in Sessions, SmallStep(s)
  PROVE  QueueInv'
<1>0. /\ work \in [Sessions -> Session] /\ work[s] \in Session
      /\ PlaceOK(work[s]) /\ Others(s)
  BY OthersStep DEF TypeInv, TypeOK
<1>a. s \in Imports => s \notin Hands
  BY SessionsAssumption
<1>1. CASE AddByHand(s)
  <2>1. PICK a \in accounts, k \in Keys :
          work' = [work EXCEPT ![s] =
                     [NoSession EXCEPT !.pc = "look", !.acc = a, !.todo = <<k>>]]
    BY <1>1 DEF AddByHand
  <2>2. s \in Hands /\ work'[s].new = {} /\ work'[s].todo = <<k>>
    BY <1>0, <1>1, <2>1 DEF AddByHand, NoSession
  <2>3. Tail(<<k>>) = <<>>
    OBVIOUS
  <2>4. Tail(work'[s].todo) = <<>>
    BY <2>2, <2>3, Zenon
  <2> QED
    BY <1>0, <1>a, <2>2, <2>4, QueueHere
<1>2. CASE FetchBookings(s)
  <2>1. \E p \in (Old + 1)..(Len(List) + 1) : IsAt(s, p)'
    BY <1>0, <1>2, QueueFetch
  <2>3. s \notin Hands
    BY <1>2 DEF FetchBookings, PostedInv
  <2> QED
    BY <1>0, <2>1, <2>3, QueueHere
<1>3. CASE LookForDuplicate(s)
  <2>1. /\ work[s].pc = "look" /\ work[s].todo # <<>> /\ work[s].todo \in Seq(Keys)
        /\ work'[s].acc = work[s].acc /\ work'[s].new = work[s].new
        /\ \/ /\ Head(work[s].todo) \in Visible(s)
              /\ work'[s].todo = Tail(work[s].todo) /\ work'[s].pc = "look"
           \/ /\ Head(work[s].todo) \notin Visible(s)
              /\ work'[s].todo = work[s].todo /\ work'[s].pc = "insert"
    BY <1>0, <1>3 DEF LookForDuplicate, Session
  <2>2. ASSUME s \in Imports PROVE \E p \in (Old + 1)..(Len(List) + 1) : IsAt(s, p)'
    <3>1. PICK p \in (Old + 1)..(Len(List) + 1) : IsAt(s, p)
      BY <2>1, <2>2 DEF QueueInv
    <3>2. Head(work[s].todo) = List[p]
      BY <2>1, <3>1, FirstOfList
    <3>3. CASE Head(work[s].todo) \in Visible(s)
      <4>1. p + 1 \in (Old + 1)..(Len(List) + 1) /\ IsAt(s, p + 1)'
        BY <1>0, <2>1, <3>1, <3>2, <3>3, QueueTake
      <4> QED
        BY <4>1
    <3>4. CASE Head(work[s].todo) \notin Visible(s)
      <4>1. IsAt(s, p)'
        BY <1>0, <2>1, <3>1, <3>2, <3>4, QueueStop
      <4> QED
        BY <4>1
    <3> QED
      BY <3>3, <3>4
  <2>3. ASSUME s \in Hands
        PROVE  work'[s].todo = <<>> \/ (work'[s].new = {} /\ Tail(work'[s].todo) = <<>>)
    BY <2>1, <2>3 DEF QueueInv
  <2> QED
    BY <1>0, <2>2, <2>3, QueueHere
<1>4. CASE Insert(s) /\ work'[s] # Ended
  <2>1. /\ work[s].pc = "insert" /\ work[s].todo # <<>>
        /\ work'[s].acc = work[s].acc /\ work'[s].pc = "look"
        /\ work'[s].new = work[s].new \cup {Head(work[s].todo)}
        /\ work'[s].todo = Tail(work[s].todo)
    BY <1>0, <1>4 DEF Insert, Session, PlaceOK
  <2>2. ASSUME s \in Imports PROVE \E p \in (Old + 1)..(Len(List) + 1) : IsAt(s, p)'
    <3>1. PICK p \in (Old + 1)..(Len(List) + 1) : IsAt(s, p)
      BY <2>1, <2>2 DEF QueueInv
    <3>2. Head(work[s].todo) = List[p]
      BY <2>1, <3>1, FirstOfList
    <3>3. p + 1 \in (Old + 1)..(Len(List) + 1) /\ IsAt(s, p + 1)'
      BY <1>0, <2>1, <3>1, <3>2, QueueTake
    <3> QED
      BY <3>3
  <2>3. ASSUME s \in Hands PROVE work'[s].todo = <<>>
    BY <2>1, <2>3 DEF QueueInv
  <2> QED
    BY <1>0, <2>2, <2>3, QueueHere
<1>5. CASE work'[s].pc \notin {"look", "insert"}
  BY <1>0, <1>5, QueueElsewhere
<1>6. BeginImport(s) \/ LockConnection(s) \/ FetchAccounts(s) \/ FindAccount(s)
      \/ CreateAccount(s) \/ SumUp(s) \/ FlushOpening(s) \/ Fail(s) \/ work'[s] = Ended
      => work'[s].pc \notin {"look", "insert"}
  <2>1. BeginImport(s) => work'[s].pc \in {"accounts", "lock"}
    BY <1>0 DEF BeginImport, NoSession
  <2>2. LockConnection(s) => work'[s].pc \in {"commit", "find", "accounts"}
    BY <1>0 DEF LockConnection, Session
  <2>3. FetchAccounts(s) => work'[s].pc \in {"lock", "find", "lock only", "commit"}
    BY <1>0 DEF FetchAccounts, Session
  <2>4. FindAccount(s) => work'[s].pc \in {"create", "bookings"}
    BY <1>0 DEF FindAccount, Session
  <2>5. CreateAccount(s) => work'[s].pc = "bookings"
    BY <1>0 DEF CreateAccount, Session
  <2>6. SumUp(s) => work'[s].pc \in {"commit", "flush"}
    BY <1>0 DEF SumUp, Session
  <2>7. FlushOpening(s) => work'[s].pc = "commit"
    BY <1>0 DEF FlushOpening, Session
  <2>8. Fail(s) \/ work'[s] = Ended => work'[s].pc = "done"
    BY <1>0 DEF Fail, Ended, NoSession
  <2> QED
    BY <2>1, <2>2, <2>3, <2>4, <2>5, <2>6, <2>7, <2>8
<1> QED
  BY <1>1, <1>2, <1>3, <1>4, <1>5, <1>6 DEF SmallStep

LEMMA QueueStep == TypeInv /\ PostedInv /\ QueueInv /\ [Next]_vars => QueueInv'
<1> SUFFICES ASSUME TypeInv, PostedInv, QueueInv, [Next]_vars PROVE QueueInv'
  OBVIOUS
<1>1. CASE UNCHANGED <<accounts, opening, booked, work, known, overlapped, unsent>>
  BY <1>1 DEF QueueInv, IsAt, Visible
<1>2. ASSUME NEW s \in Sessions, SmallStep(s) PROVE QueueInv'
  BY <1>2, QueueSmallStep
<1>3. ASSUME NEW s \in Sessions, Commit(s) PROVE QueueInv'
  <2>1. CASE Others(s) /\ work'[s] = Ended
    <3>1. work'[s].pc \notin {"look", "insert"}
      BY <2>1 DEF Ended, NoSession
    <3> QED
      BY <2>1, <3>1, QueueElsewhere
  <2>2. CASE Committed(s)
    <3>0. ASSUME NEW t \in Sessions, work'[t].pc \in {"look", "insert"}
          PROVE  /\ t # s /\ work'[t].pc = work[t].pc /\ work'[t].acc = work[t].acc
                 /\ work'[t].todo = work[t].todo /\ work'[t].new = work[t].new
      <4>1. t # s
        BY <2>2, <3>0 DEF Committed, Ended, NoSession
      <4> QED
        BY <2>2, <4>1 DEF Committed
    <3>1. ASSUME NEW t \in Imports, work'[t].pc \in {"look", "insert"}
          PROVE  \E p \in (Old + 1)..(Len(List) + 1) : IsAt(t, p)'
      <4>0. t \in Sessions
        BY DEF Sessions
      <4>1. /\ work'[t].pc = work[t].pc /\ work'[t].acc = work[t].acc
            /\ work'[t].todo = work[t].todo /\ work'[t].new = work[t].new
        BY <3>0, <3>1, <4>0
      <4>2. PICK p \in (Old + 1)..(Len(List) + 1) : IsAt(t, p)
        BY <3>1, <4>1 DEF QueueInv
      <4>3. work[t].acc \in Accounts
        BY <3>1, <4>0, <4>1 DEF TypeInv, PlaceOK
      <4>4. Visible(t) \subseteq Visible(t)'
        BY <2>2, <4>1, <4>3 DEF Committed, TypeInv, TypeOK, Visible
      <4>5. IsAt(t, p)'
        BY <4>1, <4>2, <4>4 DEF IsAt
      <4> QED
        BY <4>5
    <3>2. ASSUME NEW t \in Hands, work'[t].pc \in {"look", "insert"}
          PROVE  work'[t].todo = <<>> \/ (work'[t].new = {} /\ Tail(work'[t].todo) = <<>>)
      <4>0. t \in Sessions
        BY DEF Sessions
      <4>1. /\ work'[t].pc = work[t].pc
            /\ work'[t].todo = work[t].todo /\ work'[t].new = work[t].new
        BY <3>0, <3>2, <4>0
      <4> QED
        BY <3>2, <4>1 DEF QueueInv
    <3> QED
      BY <3>1, <3>2 DEF QueueInv
  <2> QED
    BY <1>3, <2>1, <2>2, CommitStep
<1> QED
  BY <1>1, <1>2, <1>3, Steps

\* In every set of sessions one waits for none of the others: one that waits for
\* nothing; else one that waits for the account, whose holders only commit; else
\* the import that is farthest in the list; else a booking by hand, as none of
\* the others has inserted anything; else all wait for the connection.
LEMMA QueueHasNoCircle == TypeInv /\ QueueInv => NoCircularWait
<1> SUFFICES ASSUME TypeInv, QueueInv, NEW waiting \in SUBSET Sessions, waiting # {}
             PROVE  \E s \in waiting : \A t \in waiting \ {s} : ~Blocks(t, s)
  BY DEF NoCircularWait
<1>0. \A s \in waiting : s \in Sessions /\ work[s] \in Session /\ PlaceOK(work[s])
  BY DEF TypeInv, TypeOK
<1>1. ASSUME NEW s \in waiting, work[s].pc \notin {"lock", "lock only", "insert", "flush"}
      PROVE  \E q \in waiting : \A t \in waiting \ {q} : ~Blocks(t, q)
  <2>1. \A t \in waiting \ {s} : ~Blocks(t, s)
    BY <1>1 DEF Blocks
  <2> QED
    BY <2>1
<1>2. ASSUME \A t \in waiting : work[t].pc \in {"lock", "lock only", "insert", "flush"},
             NEW s \in waiting, work[s].pc = "flush"
      PROVE  \E q \in waiting : \A t \in waiting \ {q} : ~Blocks(t, q)
  <2>1. \A t \in waiting : work[t].pc # "commit"
    BY <1>2
  <2>2. \A t \in waiting \ {s} : ~Blocks(t, s)
    BY <1>2, <2>1 DEF Blocks, HoldsAccount
  <2> QED
    BY <2>2
<1>3. ASSUME \A t \in waiting : work[t].pc \in {"lock", "lock only", "insert"},
             NEW i \in waiting \cap Imports, work[i].pc = "insert"
      PROVE  \E q \in waiting : \A t \in waiting \ {q} : ~Blocks(t, q)
  <2> DEFINE Place(p) == \E s \in waiting \cap Imports : work[s].pc = "insert" /\ IsAt(s, p)
             T == {p \in (Old + 1)..(Len(List) + 1) : Place(p)}
  <2>1. T # {} /\ T \subseteq 0..(Len(List) + 1) /\ Len(List) + 1 \in Nat
    <3>1. \E p \in (Old + 1)..(Len(List) + 1) : IsAt(i, p)
      BY <1>3 DEF QueueInv
    <3>2. T # {}
      BY <1>3, <3>1
    <3>3. T \subseteq (Old + 1)..(Len(List) + 1)
      OBVIOUS
    <3>4. (Old + 1)..(Len(List) + 1) \subseteq 0..(Len(List) + 1)
      BY BoundsOfList
    <3>5. Len(List) + 1 \in Nat
      BY BoundsOfList
    <3> HIDE DEF T
    <3> QED
      BY <3>2, <3>3, <3>4, <3>5
  <2>2. PICK p \in T : \A m \in T : m <= p
    <3> HIDE DEF T
    <3> QED
      BY <2>1, N!GreatestUpTo
  <2>3. PICK s \in waiting \cap Imports : work[s].pc = "insert" /\ IsAt(s, p)
    BY <2>2
  <2>4. p \in (Old + 1)..(Len(List) + 1)
    BY <2>2
  <2>5. Head(work[s].todo) = List[p] /\ p <= Len(List)
    <3>1. work[s].todo # <<>>
      BY <1>0, <2>3 DEF PlaceOK
    <3> QED
      BY <1>0, <2>3, <2>4, <3>1, FirstOfList
  <2>6. ASSUME NEW t \in waiting \ {s}, Blocks(t, s) PROVE FALSE
    <3>1. List[p] \in work[t].new
      BY <2>3, <2>5, <2>6 DEF Blocks
    <3>2. work[t].pc = "insert"
      BY <1>0, <1>3, <3>1 DEF PlaceOK
    <3>3. work[t].todo # <<>>
      BY <1>0, <3>2 DEF PlaceOK
    <3>4. t \in Imports
      BY <1>0, <3>1, <3>2, <3>3 DEF QueueInv, Sessions
    <3>5. PICK m \in (Old + 1)..(Len(List) + 1) : IsAt(t, m)
      BY <3>2, <3>4 DEF QueueInv
    <3>6. m <= p
      <4>1. m \in T
        BY <3>2, <3>4, <3>5
      <4> QED
        BY <2>2, <4>1
    <3>7. PICK j \in (Old + 1)..(m - 1) : List[j] = List[p]
      BY <3>1, <3>5 DEF IsAt
    <3>8. j \in (Old + 1)..(p - 1)
      BY <2>4, <3>6, <3>7, BoundsOfList
    <3> QED
      BY <2>3, <3>7, <3>8 DEF IsAt
  <2> QED
    BY <2>3, <2>6
<1>4. ASSUME \A t \in waiting : work[t].pc \in {"lock", "lock only"}
                               \/ (work[t].pc = "insert" /\ t \in Hands),
             NEW s \in waiting, work[s].pc = "insert"
      PROVE  \E q \in waiting : \A t \in waiting \ {q} : ~Blocks(t, q)
  <2>1. ASSUME NEW t \in waiting PROVE work[t].new = {}
    BY <1>0, <1>4, <2>1 DEF PlaceOK, QueueInv
  <2>2. \A t \in waiting \ {s} : ~Blocks(t, s)
    BY <1>4, <2>1 DEF Blocks
  <2> QED
    BY <2>2
<1>5. ASSUME \A t \in waiting : work[t].pc \in {"lock", "lock only"}
      PROVE  \E q \in waiting : \A t \in waiting \ {q} : ~Blocks(t, q)
  <2>1. PICK s \in waiting : TRUE
    OBVIOUS
  <2>2. \A t \in waiting \ {s} : ~Blocks(t, s)
    BY <1>5 DEF Blocks, HoldsConnection
  <2> QED
    BY <2>2
<1>6. \A t \in waiting : t \in Imports \/ t \in Hands
  BY DEF Sessions
<1> QED
  BY <1>1, <1>2, <1>3, <1>4, <1>5, <1>6

\* However many sessions import or book by hand, they never wait for each other
\* in a circle, for the connection, a booking or the account.
THEOREM NobodyWaitsInACircle == Spec => []NoCircularWait
<1>1. Init => TypeInv /\ PostedInv /\ QueueInv
  BY InitType, InitOlder, InitQueue DEF OlderInv
<1>2. TypeInv /\ PostedInv /\ QueueInv /\ [Next]_vars => (TypeInv /\ PostedInv /\ QueueInv)'
  BY NextType, PostedStep, QueueStep
<1> QED
  BY <1>1, <1>2, QueueHasNoCircle, PTL DEF Spec
=============================================================================
