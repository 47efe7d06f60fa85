--------------------------- MODULE HouseholdProofs ---------------------------
(***************************************************************************)
(* Theorems about Household, for any number of emails, households and      *)
(* transactions at a time.                                                 *)
(***************************************************************************)
EXTENDS Household, FiniteSetTheorems, TLAPS

-----------------------------------------------------------------------------
(* Types *)

Deletes == {"delete invites", "delete identities", "delete user"}
Looks == {"look for invite", "primary", "count users", "pick", "found"}
Members == {"look for pending", "put invite", "drop invite", "count members", "expel"}

\* What holds at each place of a transaction.
PlaceOK(w) ==
  /\ w.pc = "idle" => w.op = "none" /\ ~w.joins /\ ~w.invites
  /\ w.pc \in Looks \cup Members \cup {"join", "attach"} => w.email \in Emails
  /\ w.pc \in Looks \cup {"join", "attach"} => ~w.joins /\ ~w.invites
  /\ w.pc \in Looks \cup {"join"} => ~w.founds
  /\ w.pc \in Members => ~w.founds \/ w.joins
  /\ w.pc \in {"look for pending", "put invite"} => ~w.joins /\ ~w.invites
  /\ w.pc \in Deletes => w.op = "delete"
  /\ w.op = "delete" => /\ w.pc \in Deletes \cup {"commit"}
                        /\ w.house \in Households
                        /\ ~w.joins /\ ~w.invites /\ ~w.founds
  /\ w.wipes => w.op = "delete" /\ w.pc = "commit"
  /\ w.joins \/ w.invites \/ w.founds => w.house \in Households

TypeInv == TypeOK /\ \A s \in Sessions : PlaceOK(tx[s])

LEMMA NoTransactionType == NoTransaction \in Transaction /\ PlaceOK(NoTransaction)
BY DEF NoTransaction, Transaction, PlaceOK, Places, Looks, Members, Deletes

LEMMA InitType == Init => TypeInv
<1> SUFFICES ASSUME Init PROVE TypeInv
  OBVIOUS
<1>1. 1 \in Households
  BY HouseholdAssumption DEF Households
<1> QED
  BY <1>1, NoTransactionType DEF Init, TypeInv, TypeOK

\* A step that replaces one transaction by a well-formed one keeps the types.
LEMMA TransactionStep ==
  ASSUME TypeInv, NEW s \in Sessions, NEW w \in Transaction, PlaceOK(w),
         tx' = [tx EXCEPT ![s] = w], UNCHANGED Committed, raced' \subseteq Kinds
  PROVE  TypeInv'
BY DEF TypeInv, TypeOK, Committed

LEMMA RacesType ==
  ASSUME NEW s \in Sessions, NEW op, NEW e, NEW h
  PROVE  Races(s, op, e, h) \subseteq Kinds
BY DEF Races

\* A step of one transaction that adds no row, deletes no household and begins no
\* deletion.
Quiet(s, w) ==
  /\ ~w.wipes
  /\ w.joins \/ w.invites =>
       /\ tx[s].joins \/ tx[s].invites
       /\ w.house = tx[s].house /\ w.founds = tx[s].founds
  /\ w.op = "delete" => tx[s].op = "delete" /\ w.by = tx[s].by /\ w.house = tx[s].house

Moves(s, w) ==
  /\ w \in Transaction /\ PlaceOK(w) /\ Quiet(s, w)
  /\ tx' = [tx EXCEPT ![s] = w]
  /\ UNCHANGED Committed
  /\ raced \subseteq raced' /\ raced' \subseteq Kinds

\* The steps that only move on.
LEMMA EndsMoves ==
  ASSUME TypeInv, NEW s \in Sessions, Ends(s), UNCHANGED <<Committed, raced>>
  PROVE  \E w : Moves(s, w)
<1>1. Quiet(s, NoTransaction)
  BY DEF Quiet, NoTransaction
<1> QED
  BY <1>1, NoTransactionType DEF Ends, Moves, TypeInv, TypeOK

LEMMA LookForInviteMoves ==
  ASSUME TypeInv, NEW s \in Sessions, LookForInvite(s)
  PROVE  \E w : Moves(s, w)
<1>0. tx[s] \in Transaction /\ PlaceOK(tx[s]) /\ tx[s].pc = "look for invite"
  BY DEF LookForInvite, TypeInv, TypeOK
<1>1. tx[s].email \in Emails /\ invite[tx[s].email] \in Households \cup {None}
  BY <1>0 DEF PlaceOK, Looks, TypeInv, TypeOK
<1>2. ASSUME NEW p \in {"primary", "count users", "found"}, tx' = [tx EXCEPT ![s].pc = p]
      PROVE  \E w : Moves(s, w)
  <2> DEFINE w == [tx[s] EXCEPT !.pc = p]
  <2>1. w \in Transaction
    BY <1>0, <1>2 DEF Transaction, Places, TypeInv, TypeOK, Households
  <2>2. PlaceOK(w) /\ Quiet(s, w)
    BY <1>0, <1>2 DEF PlaceOK, Quiet, Transaction, Looks, Members, Deletes
  <2>3. tx' = [tx EXCEPT ![s] = w]
    BY <1>0, <1>2 DEF TypeInv, TypeOK
  <2> QED
    BY <2>1, <2>2, <2>3 DEF Moves, LookForInvite, TypeInv, TypeOK
<1>3. ASSUME invite[tx[s].email] # None, tx' = [tx EXCEPT ![s].house = invite[tx[s].email], ![s].loaded = TRUE,
                          ![s].pc = "join"]
      PROVE  \E w : Moves(s, w)
  <2> DEFINE w == [tx[s] EXCEPT !.house = invite[tx[s].email], !.loaded = TRUE, !.pc = "join"]
  <2>1. w \in Transaction
    BY <1>0, <1>3, <1>1 DEF Transaction, Places, TypeInv, TypeOK, Households
  <2>2. PlaceOK(w) /\ Quiet(s, w)
    BY <1>0, <1>3, <1>1 DEF PlaceOK, Quiet, Transaction, Looks, Members, Deletes
  <2>3. tx' = [tx EXCEPT ![s] = w]
    BY <1>0, <1>3 DEF TypeInv, TypeOK
  <2> QED
    BY <2>1, <2>2, <2>3 DEF Moves, LookForInvite, TypeInv, TypeOK
<1>4. CASE Ends(s)
  BY <1>4, EndsMoves DEF LookForInvite
<1> QED
  BY <1>0, <1>2, <1>3, <1>4, <1>1 DEF LookForInvite

LEMMA PrimaryMoves ==
  ASSUME TypeInv, NEW s \in Sessions, Primary(s)
  PROVE  \E w : Moves(s, w)
<1>0. tx[s] \in Transaction /\ PlaceOK(tx[s]) /\ tx[s].pc = "primary"
  BY DEF Primary, TypeInv, TypeOK
<1>1. users \subseteq Households /\ {member[d] : d \in allowed} \ {None} \subseteq Households
  BY HouseholdAssumption DEF TypeInv, TypeOK
<1>2. CASE tx' = [tx EXCEPT ![s].pc = "found"]
  <2> DEFINE w == [tx[s] EXCEPT !.pc = "found"]
  <2>1. w \in Transaction
    BY <1>0, <1>2 DEF Transaction, Places, TypeInv, TypeOK, Households
  <2>2. PlaceOK(w) /\ Quiet(s, w)
    BY <1>0, <1>2 DEF PlaceOK, Quiet, Transaction, Looks, Members, Deletes
  <2>3. tx' = [tx EXCEPT ![s] = w]
    BY <1>0, <1>2 DEF TypeInv, TypeOK
  <2> QED
    BY <2>1, <2>2, <2>3 DEF Moves, Primary, TypeInv, TypeOK
<1>3. ASSUME NEW h \in Households, tx' = [tx EXCEPT ![s].house = h, ![s].pc = "attach"]
      PROVE  \E w : Moves(s, w)
  <2> DEFINE w == [tx[s] EXCEPT !.house = h, !.pc = "attach"]
  <2>1. w \in Transaction
    BY <1>0, <1>3 DEF Transaction, Places, TypeInv, TypeOK, Households
  <2>2. PlaceOK(w) /\ Quiet(s, w)
    BY <1>0, <1>3 DEF PlaceOK, Quiet, Transaction, Looks, Members, Deletes
  <2>3. tx' = [tx EXCEPT ![s] = w]
    BY <1>0, <1>3 DEF TypeInv, TypeOK
  <2> QED
    BY <2>1, <2>2, <2>3 DEF Moves, Primary, TypeInv, TypeOK
<1> QED
  BY <1>0, <1>2, <1>3, <1>1 DEF Primary

LEMMA CountUsersMoves ==
  ASSUME TypeInv, NEW s \in Sessions, CountUsers(s)
  PROVE  \E w : Moves(s, w)
<1>0. tx[s] \in Transaction /\ PlaceOK(tx[s]) /\ tx[s].pc = "count users"
  BY DEF CountUsers, TypeInv, TypeOK
<1>2. ASSUME NEW p \in {"pick", "found"}, tx' = [tx EXCEPT ![s].pc = p]
      PROVE  \E w : Moves(s, w)
  <2> DEFINE w == [tx[s] EXCEPT !.pc = p]
  <2>1. w \in Transaction
    BY <1>0, <1>2 DEF Transaction, Places, TypeInv, TypeOK, Households
  <2>2. PlaceOK(w) /\ Quiet(s, w)
    BY <1>0, <1>2 DEF PlaceOK, Quiet, Transaction, Looks, Members, Deletes
  <2>3. tx' = [tx EXCEPT ![s] = w]
    BY <1>0, <1>2 DEF TypeInv, TypeOK
  <2> QED
    BY <2>1, <2>2, <2>3 DEF Moves, CountUsers, TypeInv, TypeOK
<1> QED
  BY <1>0, <1>2 DEF CountUsers

LEMMA PickMoves ==
  ASSUME TypeInv, NEW s \in Sessions, Pick(s)
  PROVE  \E w : Moves(s, w)
<1>0. tx[s] \in Transaction /\ PlaceOK(tx[s]) /\ tx[s].pc = "pick"
  BY DEF Pick, TypeInv, TypeOK
<1>1. users \subseteq Households
  BY DEF TypeInv, TypeOK
<1>2. ASSUME NEW h \in Households, tx' = [tx EXCEPT ![s].house = h, ![s].pc = "attach"]
      PROVE  \E w : Moves(s, w)
  <2> DEFINE w == [tx[s] EXCEPT !.house = h, !.pc = "attach"]
  <2>1. w \in Transaction
    BY <1>0, <1>2 DEF Transaction, Places, TypeInv, TypeOK, Households
  <2>2. PlaceOK(w) /\ Quiet(s, w)
    BY <1>0, <1>2 DEF PlaceOK, Quiet, Transaction, Looks, Members, Deletes
  <2>3. tx' = [tx EXCEPT ![s] = w]
    BY <1>0, <1>2 DEF TypeInv, TypeOK
  <2> QED
    BY <2>1, <2>2, <2>3 DEF Moves, Pick, TypeInv, TypeOK
<1>3. CASE Ends(s)
  BY <1>3, EndsMoves DEF Pick
<1> QED
  BY <1>0, <1>2, <1>3, <1>1 DEF Pick

LEMMA FoundMoves ==
  ASSUME TypeInv, NEW s \in Sessions, Found(s)
  PROVE  \E w : Moves(s, w)
<1>0. tx[s] \in Transaction /\ PlaceOK(tx[s]) /\ tx[s].pc = "found"
  BY DEF Found, TypeInv, TypeOK
<1>2. ASSUME NEW h \in Households, tx' = [tx EXCEPT ![s].house = h, ![s].founds = TRUE, ![s].pc = "attach"]
      PROVE  \E w : Moves(s, w)
  <2> DEFINE w == [tx[s] EXCEPT !.house = h, !.founds = TRUE, !.pc = "attach"]
  <2>1. w \in Transaction
    BY <1>0, <1>2 DEF Transaction, Places, TypeInv, TypeOK, Households
  <2>2. PlaceOK(w) /\ Quiet(s, w)
    BY <1>0, <1>2 DEF PlaceOK, Quiet, Transaction, Looks, Members, Deletes
  <2>3. tx' = [tx EXCEPT ![s] = w]
    BY <1>0, <1>2 DEF TypeInv, TypeOK
  <2> QED
    BY <2>1, <2>2, <2>3 DEF Moves, Found, TypeInv, TypeOK
<1> QED
  BY <1>0, <1>2 DEF Found

LEMMA LookForPendingMoves ==
  ASSUME TypeInv, NEW s \in Sessions, LookForPending(s)
  PROVE  \E w : Moves(s, w)
<1>0. tx[s] \in Transaction /\ PlaceOK(tx[s]) /\ tx[s].pc = "look for pending"
  BY DEF LookForPending, TypeInv, TypeOK
<1>2. CASE tx' = [tx EXCEPT ![s].pc = "put invite"]
  <2> DEFINE w == [tx[s] EXCEPT !.pc = "put invite"]
  <2>1. w \in Transaction
    BY <1>0, <1>2 DEF Transaction, Places, TypeInv, TypeOK, Households
  <2>2. PlaceOK(w) /\ Quiet(s, w)
    BY <1>0, <1>2 DEF PlaceOK, Quiet, Transaction, Looks, Members, Deletes
  <2>3. tx' = [tx EXCEPT ![s] = w]
    BY <1>0, <1>2 DEF TypeInv, TypeOK
  <2> QED
    BY <2>1, <2>2, <2>3 DEF Moves, LookForPending, TypeInv, TypeOK
<1>3. CASE Ends(s)
  BY <1>3, EndsMoves DEF LookForPending
<1> QED
  BY <1>0, <1>2, <1>3 DEF LookForPending

LEMMA CountMembersMoves ==
  ASSUME TypeInv, NEW s \in Sessions, CountMembers(s)
  PROVE  \E w : Moves(s, w)
<1>0. tx[s] \in Transaction /\ PlaceOK(tx[s]) /\ tx[s].pc = "count members"
  BY DEF CountMembers, TypeInv, TypeOK
<1>2. CASE tx' = [tx EXCEPT ![s].pc = "expel"]
  <2> DEFINE w == [tx[s] EXCEPT !.pc = "expel"]
  <2>1. w \in Transaction
    BY <1>0, <1>2 DEF Transaction, Places, TypeInv, TypeOK, Households
  <2>2. PlaceOK(w) /\ Quiet(s, w)
    BY <1>0, <1>2 DEF PlaceOK, Quiet, Transaction, Looks, Members, Deletes
  <2>3. tx' = [tx EXCEPT ![s] = w]
    BY <1>0, <1>2 DEF TypeInv, TypeOK
  <2> QED
    BY <2>1, <2>2, <2>3 DEF Moves, CountMembers, TypeInv, TypeOK
<1>3. CASE Ends(s)
  BY <1>3, EndsMoves DEF CountMembers
<1> QED
  BY <1>0, <1>2, <1>3 DEF CountMembers

LEMMA DropInviteMoves ==
  ASSUME TypeInv, NEW s \in Sessions, DropInvite(s)
  PROVE  \E w : Moves(s, w)
<1>0. tx[s] \in Transaction /\ PlaceOK(tx[s]) /\ tx[s].pc = "drop invite"
  BY DEF DropInvite, TypeInv, TypeOK
<1>1. (IF tx[s].loaded THEN {tx[s].email} ELSE {}) \in SUBSET Emails
  BY <1>0 DEF PlaceOK, Members
<1>2. ASSUME NEW D \in SUBSET Emails, tx' = [tx EXCEPT ![s].pc = "commit", ![s].drops = D]
      PROVE  \E w : Moves(s, w)
  <2> DEFINE w == [tx[s] EXCEPT !.pc = "commit", !.drops = D]
  <2>1. w \in Transaction
    BY <1>0, <1>2 DEF Transaction, Places, TypeInv, TypeOK, Households
  <2>2. PlaceOK(w) /\ Quiet(s, w)
    BY <1>0, <1>2 DEF PlaceOK, Quiet, Transaction, Looks, Members, Deletes
  <2>3. tx' = [tx EXCEPT ![s] = w]
    BY <1>0, <1>2 DEF TypeInv, TypeOK
  <2> QED
    BY <2>1, <2>2, <2>3 DEF Moves, DropInvite, TypeInv, TypeOK
<1> QED
  BY <1>0, <1>2, <1>1 DEF DropInvite

LEMMA ExpelMoves ==
  ASSUME TypeInv, NEW s \in Sessions, Expel(s)
  PROVE  \E w : Moves(s, w)
<1>0. tx[s] \in Transaction /\ PlaceOK(tx[s]) /\ tx[s].pc = "expel"
  BY DEF Expel, TypeInv, TypeOK
<1>1. (IF tx[s].loaded THEN {tx[s].email} ELSE {}) \in SUBSET Emails
  BY <1>0 DEF PlaceOK, Members
<1>2. ASSUME NEW D \in SUBSET Emails, tx' = [tx EXCEPT ![s].pc = "commit", ![s].expels = D]
      PROVE  \E w : Moves(s, w)
  <2> DEFINE w == [tx[s] EXCEPT !.pc = "commit", !.expels = D]
  <2>1. w \in Transaction
    BY <1>0, <1>2 DEF Transaction, Places, TypeInv, TypeOK, Households
  <2>2. PlaceOK(w) /\ Quiet(s, w)
    BY <1>0, <1>2 DEF PlaceOK, Quiet, Transaction, Looks, Members, Deletes
  <2>3. tx' = [tx EXCEPT ![s] = w]
    BY <1>0, <1>2 DEF TypeInv, TypeOK
  <2> QED
    BY <2>1, <2>2, <2>3 DEF Moves, Expel, TypeInv, TypeOK
<1> QED
  BY <1>0, <1>2, <1>1 DEF Expel

LEMMA DeleteInvitesMoves ==
  ASSUME TypeInv, NEW s \in Sessions, DeleteInvites(s)
  PROVE  \E w : Moves(s, w)
<1>0. tx[s] \in Transaction /\ PlaceOK(tx[s]) /\ tx[s].pc = "delete invites"
  BY DEF DeleteInvites, TypeInv, TypeOK
<1>2. ASSUME NEW D \in SUBSET Emails, tx' = [tx EXCEPT ![s].drops = D, ![s].pc = "delete identities"]
      PROVE  \E w : Moves(s, w)
  <2> DEFINE w == [tx[s] EXCEPT !.drops = D, !.pc = "delete identities"]
  <2>1. w \in Transaction
    BY <1>0, <1>2 DEF Transaction, Places, TypeInv, TypeOK, Households
  <2>2. PlaceOK(w) /\ Quiet(s, w)
    BY <1>0, <1>2 DEF PlaceOK, Quiet, Transaction, Looks, Members, Deletes
  <2>3. tx' = [tx EXCEPT ![s] = w]
    BY <1>0, <1>2 DEF TypeInv, TypeOK
  <2> QED
    BY <2>1, <2>2, <2>3 DEF Moves, DeleteInvites, TypeInv, TypeOK
<1> QED
  BY <1>0, <1>2 DEF DeleteInvites, InvitesOf

LEMMA DeleteIdentitiesMoves ==
  ASSUME TypeInv, NEW s \in Sessions, DeleteIdentities(s)
  PROVE  \E w : Moves(s, w)
<1>0. tx[s] \in Transaction /\ PlaceOK(tx[s]) /\ tx[s].pc = "delete identities"
  BY DEF DeleteIdentities, TypeInv, TypeOK
<1>2. ASSUME NEW D \in SUBSET Emails, tx' = [tx EXCEPT ![s].expels = D, ![s].pc = "delete user"]
      PROVE  \E w : Moves(s, w)
  <2> DEFINE w == [tx[s] EXCEPT !.expels = D, !.pc = "delete user"]
  <2>1. w \in Transaction
    BY <1>0, <1>2 DEF Transaction, Places, TypeInv, TypeOK, Households
  <2>2. PlaceOK(w) /\ Quiet(s, w)
    BY <1>0, <1>2 DEF PlaceOK, Quiet, Transaction, Looks, Members, Deletes
  <2>3. tx' = [tx EXCEPT ![s] = w]
    BY <1>0, <1>2 DEF TypeInv, TypeOK
  <2> QED
    BY <2>1, <2>2, <2>3 DEF Moves, DeleteIdentities, TypeInv, TypeOK
<1> QED
  BY <1>0, <1>2 DEF DeleteIdentities, MembersOf

\* Transactions that begin, except deletions.
LEMMA BeginMoves ==
  ASSUME TypeInv, NEW s \in Sessions, NEW op \in {"login", "invite", "cancel", "remove"},
         NEW pc \in {"look for invite"} \cup Members, NEW e \in Emails,
         NEW h \in Households \cup {None}, NEW loaded \in BOOLEAN,
         Begin(s, op, pc, e, None, h, loaded), UNCHANGED Committed
  PROVE  \E w : Moves(s, w)
<1> DEFINE w == [NoTransaction EXCEPT !.pc = pc, !.op = op, !.email = e, !.by = None,
                   !.house = h, !.loaded = loaded]
<1>1. w \in Transaction
  BY NoTransactionType DEF Transaction, Places, Members
<1>2. PlaceOK(w) /\ Quiet(s, w)
  BY DEF NoTransaction, PlaceOK, Quiet, Looks, Members, Deletes
<1>3. tx' = [tx EXCEPT ![s] = w]
  BY DEF Begin
<1>4. raced \subseteq raced' /\ raced' \subseteq Kinds
  BY RacesType DEF Begin, TypeInv, TypeOK
<1> QED
  BY <1>1, <1>2, <1>3, <1>4 DEF Moves

\* Every step of a transaction but those that insert a row, delete the household,
\* begin a deletion or commit.
LEMMA MovesCases ==
  ASSUME TypeInv, Next
  PROVE  \/ \E s \in Sessions : \E w : Moves(s, w)
         \/ \E e \in Emails : SignIn(e)
         \/ \E s \in Sessions :
              \/ \E b \in Emails, h \in Households : DeleteHousehold(s, b, h)
              \/ (Attach(s) \/ PutInvite(s)) /\ ~Ends(s)
              \/ DeleteUser(s) \/ Commit(s)
<1>1. ASSUME NEW s \in Sessions, NEW e \in Emails, Login(s, e)
      PROVE  \E w : Moves(s, w)
  BY <1>1, BeginMoves DEF Login
<1>2. ASSUME NEW s \in Sessions, NEW b \in Emails, NEW e \in Emails, Invite(s, b, e)
      PROVE  \E w : Moves(s, w)
  <2>1. PICK h \in users : Begin(s, "invite", "look for pending", e, None, h, FALSE)
    BY <1>2 DEF Invite
  <2>2. h \in Households /\ UNCHANGED Committed
    BY <1>2 DEF Invite, TypeInv, TypeOK
  <2> QED
    BY <2>1, <2>2, BeginMoves DEF Members
<1>3. ASSUME NEW s \in Sessions, NEW b \in Emails, NEW e \in Emails, CancelInvite(s, b, e)
      PROVE  \E w : Moves(s, w)
  <2>1. PICK h \in users : Begin(s, "cancel", "drop invite", e, None, h, TRUE)
    BY <1>3 DEF CancelInvite
  <2>2. h \in Households /\ UNCHANGED Committed
    BY <1>3 DEF CancelInvite, TypeInv, TypeOK
  <2> QED
    BY <2>1, <2>2, BeginMoves DEF Members
<1>4. ASSUME NEW s \in Sessions, NEW b \in Emails, NEW e \in Emails, RemoveMember(s, b, e)
      PROVE  \E w : Moves(s, w)
  <2>1. PICK h \in users : Begin(s, "remove", "count members", e, None, h, TRUE)
    BY <1>4 DEF RemoveMember
  <2>2. h \in Households /\ UNCHANGED Committed
    BY <1>4 DEF RemoveMember, TypeInv, TypeOK
  <2> QED
    BY <2>1, <2>2, BeginMoves DEF Members
<1>5. ASSUME NEW s \in Sessions, Step(s), ~Commit(s), ~DeleteUser(s),
             ~((Attach(s) \/ PutInvite(s)) /\ ~Ends(s))
      PROVE  \E w : Moves(s, w)
  <2>1. CASE Ends(s) /\ (Attach(s) \/ PutInvite(s))
    BY <2>1, EndsMoves DEF Attach, PutInvite
  <2> QED
    BY <1>5, <2>1, LookForInviteMoves, PrimaryMoves, CountUsersMoves, PickMoves, FoundMoves,
       LookForPendingMoves, CountMembersMoves, DropInviteMoves, ExpelMoves,
       DeleteInvitesMoves, DeleteIdentitiesMoves DEF Step
<1>6. ASSUME NEW s \in Sessions, Fail(s)
      PROVE  \E w : Moves(s, w)
  BY <1>6, EndsMoves DEF Fail
<1> QED
  BY <1>1, <1>2, <1>3, <1>4, <1>5, <1>6 DEF Next

\* The steps that insert a row.
Inserted(s, w) ==
  /\ w \in Transaction /\ PlaceOK(w) /\ ~w.wipes /\ w.op # "delete"
  /\ w.house = tx[s].house /\ w.founds = tx[s].founds
  /\ tx' = [tx EXCEPT ![s] = w]
  /\ HasHousehold(s) /\ HouseholdIsFree(s, tx[s].house)
  /\ UNCHANGED <<Committed, raced>>

LEMMA InsertShape ==
  ASSUME TypeInv, NEW s \in Sessions, Attach(s) \/ PutInvite(s), ~Ends(s)
  PROVE  \E w : Inserted(s, w)
<1>0. tx[s] \in Transaction /\ PlaceOK(tx[s])
  BY DEF TypeInv, TypeOK
<1>1. HasHousehold(s) => tx[s].house \in Households
  BY <1>0 DEF HasHousehold, PlaceOK, TypeInv, TypeOK
<1>2. CASE Attach(s)
  <2> DEFINE w == [tx[s] EXCEPT !.joins = TRUE,
                     !.pc = IF tx[s].pc = "join" THEN "drop invite" ELSE "commit"]
  <2>1. /\ tx[s].pc \in {"attach", "join"} /\ HouseholdIsFree(s, tx[s].house)
        /\ HasHousehold(s) /\ UNCHANGED <<Committed, raced>>
    BY <1>2 DEF Attach
  <2>2. tx' = [tx EXCEPT ![s] = w]
    BY <1>2 DEF Attach, TypeInv, TypeOK
  <2>3. w \in Transaction
    BY <1>0 DEF Transaction, Places
  <2>4. PlaceOK(w) /\ ~w.wipes /\ w.op # "delete"
    BY <1>0, <1>1, <2>1 DEF PlaceOK, Transaction, Looks, Members, Deletes
  <2> QED
    BY <1>0, <2>1, <2>2, <2>3, <2>4 DEF Inserted, Transaction
<1>3. CASE PutInvite(s)
  <2> DEFINE w == [tx[s] EXCEPT !.invites = TRUE, !.pc = "commit"]
  <2>1. /\ tx[s].pc = "put invite" /\ HouseholdIsFree(s, tx[s].house)
        /\ HasHousehold(s) /\ UNCHANGED <<Committed, raced>>
    BY <1>3 DEF PutInvite
  <2>2. tx' = [tx EXCEPT ![s] = w]
    BY <1>3 DEF PutInvite, TypeInv, TypeOK
  <2>3. w \in Transaction
    BY <1>0 DEF Transaction, Places
  <2>4. PlaceOK(w) /\ ~w.wipes /\ w.op # "delete"
    BY <1>0, <1>1, <2>1 DEF PlaceOK, Transaction, Looks, Members, Deletes
  <2> QED
    BY <1>0, <2>1, <2>2, <2>3, <2>4 DEF Inserted, Transaction
<1> QED
  BY <1>2, <1>3

\* The step that deletes the household.
Wiped(s, w) ==
  /\ tx[s].pc = "delete user"
  /\ w = [tx[s] EXCEPT !.wipes = TRUE, !.pc = "commit",
                       !.drops = tx[s].drops \cup InvitesOf(tx[s].house),
                       !.expels = tx[s].expels \cup MembersOf(tx[s].house)]
  /\ w \in Transaction /\ PlaceOK(w)
  /\ tx' = [tx EXCEPT ![s] = w]
  /\ RowsAreFree(s)
  /\ UNCHANGED <<Committed, raced>>

LEMMA WipeShape ==
  ASSUME TypeInv, NEW s \in Sessions, DeleteUser(s)
  PROVE  \E w : Wiped(s, w)
<1> DEFINE w == [tx[s] EXCEPT !.wipes = TRUE, !.pc = "commit",
                   !.drops = tx[s].drops \cup InvitesOf(tx[s].house),
                   !.expels = tx[s].expels \cup MembersOf(tx[s].house)]
<1>0. tx[s] \in Transaction /\ PlaceOK(tx[s]) /\ tx[s].pc = "delete user"
  BY DEF DeleteUser, TypeInv, TypeOK
<1>1. tx' = [tx EXCEPT ![s] = w]
  BY DEF DeleteUser, TypeInv, TypeOK
<1>2. w \in Transaction
  <2>1. InvitesOf(tx[s].house) \subseteq Emails /\ MembersOf(tx[s].house) \subseteq Emails
    BY DEF InvitesOf, MembersOf
  <2> QED
    BY <1>0, <2>1 DEF Transaction, Places
<1>3. PlaceOK(w)
  BY <1>0 DEF PlaceOK, Transaction, Looks, Members, Deletes
<1> QED
  BY <1>0, <1>1, <1>2, <1>3 DEF Wiped, DeleteUser

\* A deletion begins.
Deleting(s, w, own, h) ==
  /\ own \in users /\ h # own
  /\ w \in Transaction /\ PlaceOK(w)
  /\ w.op = "delete" /\ w.by = own /\ w.house = h
  /\ ~w.joins /\ ~w.invites /\ ~w.wipes
  /\ tx' = [tx EXCEPT ![s] = w]
  /\ raced' = raced \cup Races(s, "delete", None, h)
  /\ UNCHANGED Committed

LEMMA DeleteShape ==
  ASSUME TypeInv, NEW s \in Sessions, NEW b \in Emails, NEW h \in Households,
         DeleteHousehold(s, b, h)
  PROVE  \E w, own : Deleting(s, w, own, h)
<1>1. PICK own \in users \ {h} : Begin(s, "delete", "delete invites", None, own, h, FALSE)
  BY DEF DeleteHousehold
<1>2. own \in Households
  BY <1>1 DEF TypeInv, TypeOK
<1> DEFINE w == [NoTransaction EXCEPT !.pc = "delete invites", !.op = "delete", !.email = None,
                   !.by = own, !.house = h, !.loaded = FALSE]
<1>3. w \in Transaction
  BY <1>2, NoTransactionType DEF Transaction, Places
<1>4. PlaceOK(w) /\ w.op = "delete" /\ w.by = own /\ w.house = h
      /\ ~w.joins /\ ~w.invites /\ ~w.wipes
  BY DEF NoTransaction, PlaceOK, Looks, Members, Deletes
<1> QED
  BY <1>1, <1>3, <1>4 DEF Deleting, Begin, DeleteHousehold

\* The commit.
LEMMA CommitTypes ==
  ASSUME TypeInv, NEW s \in Sessions, Commit(s)
  PROVE  TypeInv'
<1> DEFINE w == tx[s]
<1>0. w \in Transaction /\ PlaceOK(w)
  BY DEF TypeInv, TypeOK
<1>1. w.founds \/ w.joins \/ w.invites => w.house \in Households
  BY <1>0 DEF PlaceOK
<1>2. users' \subseteq Households
  BY <1>1 DEF Commit, TypeInv, TypeOK
<1>3. /\ member' \in [Emails -> Households \cup {None}]
      /\ invite' \in [Emails -> Households \cup {None}]
      /\ cookie' \in [Emails -> Households \cup {None}]
  BY <1>1 DEF Commit, TypeInv, TypeOK
<1>4. \A t \in Sessions : tx'[t] \in Transaction /\ PlaceOK(tx'[t])
  <2> TAKE t \in Sessions
  <2>1. CASE t = s
    BY <2>1, NoTransactionType DEF Commit
  <2>2. CASE t # s
    <3>1. tx'[t] = [tx[t] EXCEPT !.loaded = StillThere(s, t)]
      BY <2>2 DEF Commit
    <3>2. tx[t] \in Transaction /\ PlaceOK(tx[t])
      BY DEF TypeInv, TypeOK
    <3>3. StillThere(s, t) \in BOOLEAN
      BY DEF StillThere
    <3>4. tx'[t] \in Transaction
      BY <3>1, <3>2, <3>3 DEF Transaction
    <3>5. PlaceOK(tx'[t])
      BY <3>1, <3>2 DEF PlaceOK, Transaction
    <3> QED
      BY <3>4, <3>5
  <2> QED
    BY <2>1, <2>2
<1>5. tx' \in [Sessions -> Transaction]
  <2>1. tx' = [t \in Sessions |-> tx'[t]]
    BY DEF Commit
  <2> QED
    BY <1>4, <2>1
<1>6. allowed' \in AllowLists /\ raced' \subseteq Kinds
  BY DEF Commit, TypeInv, TypeOK
<1> QED
  BY <1>2, <1>3, <1>4, <1>5, <1>6 DEF TypeInv, TypeOK

LEMMA TypeStep == TypeInv /\ [Next]_vars => TypeInv'
<1>1. CASE UNCHANGED vars
  BY <1>1 DEF vars, TypeInv, TypeOK
<1>2. ASSUME TypeInv, NEW s \in Sessions, NEW w, Moves(s, w)
      PROVE  TypeInv'
  BY <1>2, TransactionStep DEF Moves
<1>3. ASSUME TypeInv, NEW e \in Emails, SignIn(e)
      PROVE  TypeInv'
  BY <1>3 DEF SignIn, TypeInv, TypeOK
<1>4. ASSUME TypeInv, NEW s \in Sessions, NEW b \in Emails, NEW h \in Households,
             DeleteHousehold(s, b, h)
      PROVE  TypeInv'
  <2>1. PICK w, own : Deleting(s, w, own, h)
    BY <1>4, DeleteShape
  <2>2. raced' \subseteq Kinds
    BY <1>4, <2>1, RacesType DEF Deleting, TypeInv, TypeOK
  <2> QED
    BY <1>4, <2>1, <2>2, TransactionStep DEF Deleting
<1>5. ASSUME TypeInv, NEW s \in Sessions, Attach(s) \/ PutInvite(s), ~Ends(s)
      PROVE  TypeInv'
  <2>1. PICK w : Inserted(s, w)
    BY <1>5, InsertShape
  <2>2. raced' \subseteq Kinds
    BY <1>5, <2>1 DEF Inserted, TypeInv, TypeOK
  <2> QED
    BY <1>5, <2>1, <2>2, TransactionStep DEF Inserted
<1>6. ASSUME TypeInv, NEW s \in Sessions, DeleteUser(s)
      PROVE  TypeInv'
  <2>1. PICK w : Wiped(s, w)
    BY <1>6, WipeShape
  <2>2. raced' \subseteq Kinds
    BY <1>6, <2>1 DEF Wiped, TypeInv, TypeOK
  <2> QED
    BY <1>6, <2>1, <2>2, TransactionStep DEF Wiped
<1> QED
  BY <1>1, <1>2, <1>3, <1>4, <1>5, <1>6, MovesCases, CommitTypes

\* Members, invites, cookies and the transactions in flight keep the types of their
\* fields, through logins, invites, removals, deletions and failures.
THEOREM HouseholdTypeCorrect == Spec => []TypeOK
<1>1. TypeInv => TypeOK
  BY DEF TypeInv
<1> QED
  BY <1>1, InitType, TypeStep, PTL DEF Spec

LEMMA TypeInvariant == Spec => []TypeInv
BY InitType, TypeStep, PTL DEF Spec

-----------------------------------------------------------------------------
(* Nobody is left in a household that is gone *)

\* The household of an uncommitted row is there and no other transaction deletes it.
RowsHeld(s) ==
  tx[s].joins \/ tx[s].invites => HasHousehold(s) /\ HouseholdIsFree(s, tx[s].house)

\* A transaction that deletes a household deletes everything that refers to it.
WipesAll(s) ==
  tx[s].wipes => /\ MembersOf(tx[s].house) \subseteq tx[s].expels
                 /\ InvitesOf(tx[s].house) \subseteq tx[s].drops

WriteInv ==
  /\ HouseholdsExist
  /\ \A s \in Sessions : RowsHeld(s) /\ WipesAll(s)

LEMMA InitWrite == Init => WriteInv
BY DEF Init, WriteInv, HouseholdsExist, RowsHeld, WipesAll, NoTransaction

\* A step of s that inserts no row and deletes no household.
Calm(s, w) ==
  /\ tx' = [tx EXCEPT ![s] = w]
  /\ UNCHANGED Committed
  /\ ~w.wipes
  /\ w.joins \/ w.invites =>
       /\ tx[s].joins \/ tx[s].invites
       /\ w.house = tx[s].house /\ w.founds = tx[s].founds

LEMMA CalmWrite ==
  ASSUME TypeInv, WriteInv, NEW s \in Sessions, NEW w, Calm(s, w)
  PROVE  WriteInv'
<1>0. tx'[s] = w /\ \A t \in Sessions \ {s} : tx'[t] = tx[t]
  BY DEF Calm, TypeInv, TypeOK
<1>1. HouseholdsExist'
  BY DEF WriteInv, HouseholdsExist, Calm, Committed
<1>2. \A t \in Sessions : \A h : HouseholdIsFree(t, h) => HouseholdIsFree(t, h)'
  BY <1>0 DEF Calm, HouseholdIsFree, Others
<1>3. \A t \in Sessions : RowsHeld(t)'
  <2>1. RowsHeld(s)'
    BY <1>0, <1>2 DEF Calm, WriteInv, RowsHeld, HasHousehold, Committed
  <2>2. \A t \in Sessions \ {s} : RowsHeld(t)'
    BY <1>0, <1>2 DEF Calm, WriteInv, RowsHeld, HasHousehold, Committed
  <2> QED
    BY <2>1, <2>2
<1>4. \A t \in Sessions : WipesAll(t)'
  BY <1>0 DEF Calm, WriteInv, WipesAll, MembersOf, InvitesOf, Committed
<1> QED
  BY <1>1, <1>3, <1>4 DEF WriteInv

LEMMA InsertedWrite ==
  ASSUME TypeInv, WriteInv, NEW s \in Sessions, NEW w, Inserted(s, w)
  PROVE  WriteInv'
<1>0. tx'[s] = w /\ \A t \in Sessions \ {s} : tx'[t] = tx[t]
  BY DEF Inserted, TypeInv, TypeOK
<1>1. HouseholdsExist'
  BY DEF WriteInv, HouseholdsExist, Inserted, Committed
<1>2. \A t \in Sessions : \A h : HouseholdIsFree(t, h) => HouseholdIsFree(t, h)'
  BY <1>0 DEF Inserted, HouseholdIsFree, Others
<1>3. \A t \in Sessions : RowsHeld(t)'
  <2>1. RowsHeld(s)'
    BY <1>0, <1>2 DEF Inserted, RowsHeld, HasHousehold, Committed
  <2>2. \A t \in Sessions \ {s} : RowsHeld(t)'
    BY <1>0, <1>2 DEF Inserted, WriteInv, RowsHeld, HasHousehold, Committed
  <2> QED
    BY <2>1, <2>2
<1>4. \A t \in Sessions : WipesAll(t)'
  BY <1>0 DEF Inserted, WriteInv, WipesAll, MembersOf, InvitesOf, Committed
<1> QED
  BY <1>1, <1>3, <1>4 DEF WriteInv

LEMMA WipedWrite ==
  ASSUME TypeInv, WriteInv, NEW s \in Sessions, NEW w, Wiped(s, w)
  PROVE  WriteInv'
<1>0. tx'[s] = w /\ \A t \in Sessions \ {s} : tx'[t] = tx[t]
  BY DEF Wiped, TypeInv, TypeOK
<1>a. tx[s] \in Transaction /\ tx[s].pc = "delete user" /\ PlaceOK(tx[s])
  BY DEF Wiped, TypeInv, TypeOK
<1>b. /\ w.house = tx[s].house /\ ~w.joins /\ ~w.invites
      /\ MembersOf(w.house) \subseteq w.expels /\ InvitesOf(w.house) \subseteq w.drops
  <2>1. w.house = tx[s].house /\ w.joins = tx[s].joins /\ w.invites = tx[s].invites
        /\ w.drops = tx[s].drops \cup InvitesOf(tx[s].house)
        /\ w.expels = tx[s].expels \cup MembersOf(tx[s].house)
    BY <1>a DEF Wiped, Transaction
  <2> QED
    BY <1>a, <2>1 DEF PlaceOK, Deletes
<1>1. HouseholdsExist'
  BY DEF WriteInv, HouseholdsExist, Wiped, Committed
<1>3. \A t \in Sessions : RowsHeld(t)'
  <2>1. RowsHeld(s)'
    BY <1>0, <1>b DEF RowsHeld
  <2>2. ASSUME NEW t \in Sessions \ {s}, tx[t].joins \/ tx[t].invites
        PROVE  HasHousehold(t)' /\ HouseholdIsFree(t, tx[t].house)'
    <3>1. HasHousehold(t) /\ HouseholdIsFree(t, tx[t].house)
      BY <2>2 DEF WriteInv, RowsHeld
    <3>2. tx[t].pc # "idle"
      BY <2>2 DEF TypeInv, PlaceOK
    <3>3. tx[t].house # w.house
      BY <2>2, <3>2, <1>b DEF Wiped, RowsAreFree, Others
    <3>4. HouseholdIsFree(t, tx[t].house)'
      BY <1>0, <3>1, <3>3 DEF HouseholdIsFree, Others
    <3>5. HasHousehold(t)'
      <4>1. users' = users /\ tx'[t] = tx[t]
        BY <1>0 DEF Wiped, Committed
      <4> QED
        BY <3>1, <4>1 DEF HasHousehold
    <3> QED
      BY <3>4, <3>5
  <2>3. \A t \in Sessions \ {s} : RowsHeld(t)'
    BY <1>0, <2>2 DEF RowsHeld
  <2> QED
    BY <2>1, <2>3
<1>4. \A t \in Sessions : WipesAll(t)'
  <2>1. WipesAll(s)'
    BY <1>0, <1>b DEF Wiped, WipesAll, MembersOf, InvitesOf, Committed
  <2>2. \A t \in Sessions \ {s} : WipesAll(t)'
    BY <1>0 DEF Wiped, WriteInv, WipesAll, MembersOf, InvitesOf, Committed
  <2> QED
    BY <2>1, <2>2
<1> QED
  BY <1>1, <1>3, <1>4 DEF WriteInv

LEMMA CommitWrite ==
  ASSUME TypeInv, WriteInv, NEW s \in Sessions, Commit(s)
  PROVE  WriteInv'
<1> DEFINE w == tx[s]
<1>0. w \in Transaction /\ PlaceOK(w) /\ w.pc = "commit"
  BY DEF TypeInv, TypeOK, Commit
<1>1. w.wipes => ~w.joins /\ ~w.invites /\ ~w.founds
  BY <1>0 DEF PlaceOK
<1>2. w.joins \/ w.invites => w.house \in users'
  BY <1>1 DEF WriteInv, RowsHeld, HasHousehold, Commit
<1>3. ASSUME NEW h \in users, ~(w.wipes /\ w.house = h)
      PROVE  h \in users'
  BY <1>3 DEF Commit
<1>4. \A e \in Emails : member'[e] \in users' \cup {None}
  <2> TAKE e \in Emails
  <2>1. member'[e] = IF e \in w.expels THEN None
                     ELSE IF w.joins /\ e = w.email THEN w.house ELSE member[e]
    BY DEF Commit
  <2>2. member[e] \in users \cup {None}
    BY DEF WriteInv, HouseholdsExist
  <2>3. w.wipes /\ member[e] = w.house => e \in w.expels
    BY DEF WriteInv, WipesAll, MembersOf
  <2> QED
    BY <1>2, <1>3, <2>1, <2>2, <2>3
<1>5. \A e \in Emails : invite'[e] \in users' \cup {None}
  <2> TAKE e \in Emails
  <2>1. invite'[e] = IF e \in w.drops THEN None
                     ELSE IF w.invites /\ e = w.email THEN w.house ELSE invite[e]
    BY DEF Commit
  <2>2. invite[e] \in users \cup {None}
    BY DEF WriteInv, HouseholdsExist
  <2>3. w.wipes /\ invite[e] = w.house => e \in w.drops
    BY DEF WriteInv, WipesAll, InvitesOf
  <2> QED
    BY <1>2, <1>3, <2>1, <2>2, <2>3
<1>6. HouseholdsExist'
  BY <1>4, <1>5 DEF HouseholdsExist
<1>7. ASSUME NEW t \in Sessions \ {s}
      PROVE  /\ tx'[t].joins = tx[t].joins /\ tx'[t].invites = tx[t].invites
             /\ tx'[t].house = tx[t].house /\ tx'[t].founds = tx[t].founds
             /\ tx'[t].wipes = tx[t].wipes /\ tx'[t].pc = tx[t].pc
             /\ tx'[t].expels = tx[t].expels /\ tx'[t].drops = tx[t].drops
  <2>1. tx[t] \in Transaction
    BY DEF TypeInv, TypeOK
  <2>2. tx'[t] = [tx[t] EXCEPT !.loaded = StillThere(s, t)]
    BY DEF Commit
  <2> QED
    BY <2>1, <2>2 DEF Transaction
<1>8. tx'[s] = NoTransaction
  BY DEF Commit
<1>9. ASSUME NEW t \in Sessions PROVE RowsHeld(t)' /\ WipesAll(t)'
  <2>1. CASE t = s
    BY <1>8, <2>1 DEF RowsHeld, WipesAll, NoTransaction
  <2>2. CASE t # s
    <3>1. RowsHeld(t)'
      <4> SUFFICES ASSUME tx'[t].joins \/ tx'[t].invites
                   PROVE  HasHousehold(t)' /\ HouseholdIsFree(t, tx[t].house)'
        BY <1>7, <2>2 DEF RowsHeld
      <4>1. HasHousehold(t) /\ HouseholdIsFree(t, tx[t].house)
        BY <1>7, <2>2 DEF WriteInv, RowsHeld
      <4>2. ~(w.wipes /\ w.house = tx[t].house)
        BY <1>0, <2>2, <4>1 DEF HouseholdIsFree, Others
      <4>3. HasHousehold(t)'
        BY <1>3, <1>7, <2>2, <4>1, <4>2 DEF HasHousehold
      <4>4. ~tx'[s].wipes
        BY <1>8 DEF NoTransaction
      <4>5. HouseholdIsFree(t, tx[t].house)'
        <5> SUFFICES ASSUME NEW r \in Others(t)'
                     PROVE  ~(tx'[r].wipes /\ tx'[r].house = tx'[t].house)
          BY DEF HouseholdIsFree
        <5>1. CASE r = s
          BY <4>4, <5>1
        <5>2. CASE r # s
          BY <1>7, <2>2, <4>1, <5>2 DEF HouseholdIsFree, Others
        <5> QED
          BY <5>1, <5>2
      <4> QED
        BY <4>3, <4>5
    <3>2. WipesAll(t)'
      <4> SUFFICES ASSUME tx[t].wipes
                   PROVE  /\ MembersOf(tx[t].house)' \subseteq tx[t].expels
                          /\ InvitesOf(tx[t].house)' \subseteq tx[t].drops
        BY <1>7, <2>2 DEF WipesAll, MembersOf, InvitesOf
      <4>1. /\ MembersOf(tx[t].house) \subseteq tx[t].expels
            /\ InvitesOf(tx[t].house) \subseteq tx[t].drops
        BY DEF WriteInv, WipesAll
      <4>2. tx[t].pc # "idle" /\ tx[t].house \in Households
        BY DEF TypeInv, PlaceOK
      <4>3. w.joins \/ w.invites => w.house # tx[t].house
        BY <2>2, <4>2 DEF WriteInv, RowsHeld, HouseholdIsFree, Others
      <4>4. None # tx[t].house
        BY <4>2, HouseholdAssumption
      <4>5. \A e \in Emails : member'[e] = tx[t].house => member[e] = tx[t].house
        BY <4>3, <4>4 DEF Commit
      <4>6. \A e \in Emails : invite'[e] = tx[t].house => invite[e] = tx[t].house
        BY <4>3, <4>4 DEF Commit
      <4>7. tx'[t].house = tx[t].house
        BY <1>7, <2>2
      <4> QED
        BY <4>1, <4>5, <4>6, <4>7 DEF MembersOf, InvitesOf
    <3> QED
      BY <3>1, <3>2
  <2> QED
    BY <2>1, <2>2
<1> QED
  BY <1>6, <1>9 DEF WriteInv

LEMMA WriteStep == TypeInv /\ WriteInv /\ [Next]_vars => WriteInv'
<1> SUFFICES ASSUME TypeInv, WriteInv, [Next]_vars PROVE WriteInv'
  OBVIOUS
<1>1. CASE UNCHANGED vars
  BY <1>1 DEF vars, WriteInv, HouseholdsExist, RowsHeld, WipesAll, HasHousehold,
              HouseholdIsFree, Others, MembersOf, InvitesOf
<1>2. ASSUME NEW s \in Sessions, NEW w, Moves(s, w)
      PROVE  WriteInv'
  <2>1. Calm(s, w)
    BY <1>2 DEF Moves, Quiet, Calm
  <2> QED
    BY <2>1, CalmWrite
<1>3. ASSUME NEW e \in Emails, SignIn(e)
      PROVE  WriteInv'
  BY <1>3 DEF SignIn, WriteInv, HouseholdsExist, RowsHeld, WipesAll, HasHousehold,
              HouseholdIsFree, Others, MembersOf, InvitesOf
<1>4. ASSUME NEW s \in Sessions, NEW b \in Emails, NEW h \in Households,
             DeleteHousehold(s, b, h)
      PROVE  WriteInv'
  <2>1. PICK w, own : Deleting(s, w, own, h)
    BY <1>4, DeleteShape
  <2>2. Calm(s, w)
    BY <2>1 DEF Deleting, Calm
  <2> QED
    BY <2>2, CalmWrite
<1>5. ASSUME NEW s \in Sessions, Attach(s) \/ PutInvite(s), ~Ends(s)
      PROVE  WriteInv'
  BY <1>5, InsertShape, InsertedWrite
<1>6. ASSUME NEW s \in Sessions, DeleteUser(s)
      PROVE  WriteInv'
  BY <1>6, WipeShape, WipedWrite
<1> QED
  BY <1>1, <1>2, <1>3, <1>4, <1>5, <1>6, MovesCases, CommitWrite

\* Members and invites are of a household that exists: a login or an invite that
\* overlaps the deletion of its household either holds the household's row or is
\* deleted with it.
THEOREM NobodyIsOrphaned == Spec => []HouseholdsExist
<1>1. WriteInv => HouseholdsExist
  BY DEF WriteInv
<1> QED
  BY <1>1, InitWrite, WriteStep, TypeInvariant, PTL DEF Spec

-----------------------------------------------------------------------------
(* A household stays *)

\* Until two deletions overlap there is at most one, by a household that exists and
\* is not the one that is deleted.
LoneInv ==
  "deletions" \notin raced =>
    \A s \in Sessions : tx[s].op = "delete" =>
      /\ tx[s].by \in users /\ tx[s].by # tx[s].house
      /\ \A t \in Sessions \ {s} : tx[t].op # "delete"

LEMMA InitLone == Init => LoneInv
BY DEF Init, LoneInv, NoTransaction

LEMMA MovesLone ==
  ASSUME TypeInv, LoneInv, NEW s \in Sessions, NEW w, Moves(s, w)
  PROVE  LoneInv'
<1>0. tx'[s] = w /\ \A t \in Sessions \ {s} : tx'[t] = tx[t]
  BY DEF Moves, TypeInv, TypeOK
<1>1. raced \subseteq raced' /\ users' = users
      /\ (w.op = "delete" => tx[s].op = "delete" /\ w.by = tx[s].by /\ w.house = tx[s].house)
  BY DEF Moves, Quiet, Committed
<1> QED
  BY <1>0, <1>1 DEF LoneInv

LEMMA InsertedLone ==
  ASSUME TypeInv, LoneInv, NEW s \in Sessions, NEW w, Inserted(s, w)
  PROVE  LoneInv'
<1>0. tx'[s] = w /\ \A t \in Sessions \ {s} : tx'[t] = tx[t]
  BY DEF Inserted, TypeInv, TypeOK
<1>1. raced' = raced /\ users' = users /\ w.op # "delete"
  BY DEF Inserted, Committed
<1> QED
  BY <1>0, <1>1 DEF LoneInv

LEMMA WipedLone ==
  ASSUME TypeInv, LoneInv, NEW s \in Sessions, NEW w, Wiped(s, w)
  PROVE  LoneInv'
<1>0. tx'[s] = w /\ \A t \in Sessions \ {s} : tx'[t] = tx[t]
  BY DEF Wiped, TypeInv, TypeOK
<1>1. tx[s] \in Transaction
  BY DEF TypeInv, TypeOK
<1>2. raced' = raced /\ users' = users
      /\ w.op = tx[s].op /\ w.by = tx[s].by /\ w.house = tx[s].house
  BY <1>1 DEF Wiped, Committed, Transaction
<1> QED
  BY <1>0, <1>2 DEF LoneInv

LEMMA DeletingLone ==
  ASSUME TypeInv, LoneInv, NEW s \in Sessions, NEW w, NEW own, NEW h, Deleting(s, w, own, h)
  PROVE  LoneInv'
<1>0. tx'[s] = w /\ \A t \in Sessions \ {s} : tx'[t] = tx[t]
  BY DEF Deleting, TypeInv, TypeOK
<1> SUFFICES ASSUME "deletions" \notin raced'
             PROVE  \A r \in Sessions : tx'[r].op = "delete" =>
                      /\ tx'[r].by \in users' /\ tx'[r].by # tx'[r].house
                      /\ \A t \in Sessions \ {r} : tx'[t].op # "delete"
  BY DEF LoneInv
<1>1. \A t \in Sessions \ {s} : tx[t].op # "delete"
  <2>1. "deletions" \notin Races(s, "delete", None, h)
    BY DEF Deleting
  <2>2. \A t \in Others(s) : tx[t].op # "delete"
    BY <2>1 DEF Races, Kinds
  <2>3. \A t \in Sessions : tx[t].pc = "idle" => tx[t].op # "delete"
    BY DEF TypeInv, PlaceOK
  <2> QED
    BY <2>2, <2>3 DEF Others
<1>2. w.by \in users' /\ w.by # w.house
  BY DEF Deleting, Committed
<1> QED
  BY <1>0, <1>1, <1>2

LEMMA CommitLone ==
  ASSUME TypeInv, LoneInv, NEW s \in Sessions, Commit(s)
  PROVE  LoneInv'
<1>1. ASSUME NEW t \in Sessions \ {s}
      PROVE  tx'[t].op = tx[t].op /\ tx'[t].by = tx[t].by /\ tx'[t].house = tx[t].house
  <2>1. tx[t] \in Transaction
    BY DEF TypeInv, TypeOK
  <2>2. tx'[t] = [tx[t] EXCEPT !.loaded = StillThere(s, t)]
    BY DEF Commit
  <2> QED
    BY <2>1, <2>2 DEF Transaction
<1>2. tx'[s].op # "delete"
  BY DEF Commit, NoTransaction
<1>3. ASSUME "deletions" \notin raced, NEW t \in Sessions \ {s}, tx[t].op = "delete"
      PROVE  users \subseteq users'
  <2>1. tx[s].op # "delete"
    BY <1>3 DEF LoneInv
  <2>2. ~tx[s].wipes
    BY <2>1 DEF TypeInv, PlaceOK
  <2> QED
    BY <2>2 DEF Commit
<1>4. raced' = raced
  BY DEF Commit
<1> QED
  BY <1>1, <1>2, <1>3, <1>4 DEF LoneInv

LEMMA LoneStep == TypeInv /\ LoneInv /\ [Next]_vars => LoneInv'
<1> SUFFICES ASSUME TypeInv, LoneInv, [Next]_vars PROVE LoneInv'
  OBVIOUS
<1>1. CASE UNCHANGED vars
  BY <1>1 DEF vars, LoneInv
<1>3. ASSUME NEW e \in Emails, SignIn(e)
      PROVE  LoneInv'
  BY <1>3 DEF SignIn, LoneInv
<1>4. ASSUME NEW s \in Sessions, NEW b \in Emails, NEW h \in Households,
             DeleteHousehold(s, b, h)
      PROVE  LoneInv'
  BY <1>4, DeleteShape, DeletingLone
<1>5. ASSUME NEW s \in Sessions, Attach(s) \/ PutInvite(s), ~Ends(s)
      PROVE  LoneInv'
  BY <1>5, InsertShape, InsertedLone
<1>6. ASSUME NEW s \in Sessions, DeleteUser(s)
      PROVE  LoneInv'
  BY <1>6, WipeShape, WipedLone
<1> QED
  BY <1>1, <1>3, <1>4, <1>5, <1>6, MovesCases, MovesLone, CommitLone

LEMMA SomeStays ==
  TypeInv /\ LoneInv /\ [Next]_vars =>
    [users # {} /\ "deletions" \notin raced => users' # {}]_vars
<1> SUFFICES ASSUME TypeInv, LoneInv, Next, users # {}, "deletions" \notin raced
             PROVE  users' # {}
  OBVIOUS
<1>1. ASSUME NEW s \in Sessions, Commit(s)
      PROVE  users' # {}
  <2>1. CASE tx[s].wipes
    <3>1. tx[s].op = "delete"
      BY <2>1 DEF TypeInv, PlaceOK
    <3>2. tx[s].by \in users /\ tx[s].by # tx[s].house
      BY <3>1 DEF LoneInv
    <3>3. tx[s].by \in users'
      BY <1>1, <3>2 DEF Commit
    <3> QED
      BY <3>3
  <2>2. CASE ~tx[s].wipes
    BY <1>1, <2>2 DEF Commit
  <2> QED
    BY <2>1, <2>2
<1>2. ASSUME NEW s \in Sessions, NEW b \in Emails, NEW h \in Households,
             DeleteHousehold(s, b, h)
      PROVE  users' = users
  BY <1>2 DEF DeleteHousehold, Committed
<1>3. ASSUME NEW s \in Sessions, Attach(s) \/ PutInvite(s) \/ DeleteUser(s)
      PROVE  users' = users
  BY <1>3 DEF Attach, PutInvite, DeleteUser, Committed
<1>4. ASSUME NEW s \in Sessions, NEW w, Moves(s, w)
      PROVE  users' = users
  BY <1>4 DEF Moves, Committed
<1>5. ASSUME NEW e \in Emails, SignIn(e)
      PROVE  users' = users
  BY <1>5 DEF SignIn
<1> QED
  BY <1>1, <1>2, <1>3, <1>4, <1>5, MovesCases

\* Until two administrators delete at once, no commit deletes the last household:
\* the household of the one who deletes stays.
THEOREM OneHouseholdStays == Spec => SomeHouseholdStays
BY InitLone, LoneStep, SomeStays, TypeInvariant, PTL DEF Spec, SomeHouseholdStays

-----------------------------------------------------------------------------
(* Invites *)

Entered == {"primary", "count users", "pick", "found", "attach"}

\* What a transaction knows of the invite of its email.
InviteOK(w) ==
  /\ w.pc \in Entered \cup {"look for invite", "join"} => w.op = "login"
  /\ w.pc \in {"look for pending", "put invite"} => w.op = "invite"
  /\ w.pc \in {"count members", "expel"} => w.op = "remove"
  /\ w.joins => w.op = "login"
  /\ w.invites => w.op = "invite"
  /\ w.op \in {"login", "invite", "cancel"} => w.email \in Emails
  /\ w.op = "invite" => member[w.email] = None /\ w.pc # "drop invite"
  /\ w.pc \in Entered => invite[w.email] = None
  /\ w.op = "login" /\ w.pc \in {"join", "drop invite"}
       => w.loaded \/ invite[w.email] = None
  /\ w.op = "login" /\ w.pc = "commit"
       => w.email \in w.drops \/ invite[w.email] = None

\* Until a login and an invite of the same email overlap.
UsedInv ==
  "invites" \notin raced =>
    /\ \A e \in Emails : member[e] = None \/ invite[e] = None
    /\ \A s \in Sessions : InviteOK(tx[s])
    /\ \A s, t \in Sessions :
         s # t /\ tx[s].op = "login" /\ tx[t].op \in {"invite", "cancel"}
           => tx[s].email # tx[t].email

LEMMA InitUsed == Init => UsedInv
<1> SUFFICES ASSUME Init PROVE UsedInv
  OBVIOUS
<1>1. \A s \in Sessions :
        /\ tx[s].pc = "idle" /\ tx[s].op = "none"
        /\ ~tx[s].joins /\ ~tx[s].invites
  BY DEF Init, NoTransaction
<1>2. \A s \in Sessions : InviteOK(tx[s])
  BY <1>1 DEF InviteOK, Entered
<1>3. \A e \in Emails : member[e] = None
  BY DEF Init
<1> QED
  BY <1>1, <1>2, <1>3 DEF UsedInv

\* A step of s that writes nothing that others see.
LEMMA UsedMove ==
  ASSUME TypeInv, UsedInv, NEW s \in Sessions, NEW w, tx' = [tx EXCEPT ![s] = w],
         UNCHANGED <<Committed, raced>>, "invites" \notin raced => InviteOK(w),
         w.op = "none" \/ (w.op = tx[s].op /\ w.email = tx[s].email)
  PROVE  UsedInv'
<1> SUFFICES ASSUME "invites" \notin raced PROVE UsedInv'
  BY DEF UsedInv
<1>1. tx'[s] = w /\ \A t \in Sessions \ {s} : tx'[t] = tx[t]
  BY DEF TypeInv, TypeOK
<1>2. InviteOK(tx[s])'
  BY <1>1 DEF InviteOK, Committed
<1>3. \A t \in Sessions \ {s} : InviteOK(tx[t])'
  <2> TAKE t \in Sessions \ {s}
  <2>1. InviteOK(tx[t])
    BY DEF UsedInv
  <2>2. tx'[t] = tx[t] /\ member' = member /\ invite' = invite
    BY <1>1 DEF Committed
  <2> QED
    BY <2>1, <2>2 DEF InviteOK
<1>4. \A t, v \in Sessions :
        t # v /\ tx'[t].op = "login" /\ tx'[v].op \in {"invite", "cancel"}
          => tx'[t].email # tx'[v].email
  BY <1>1 DEF UsedInv
<1>5. \A e \in Emails : member'[e] = None \/ invite'[e] = None
  BY DEF UsedInv, Committed
<1> QED
  BY <1>2, <1>3, <1>4, <1>5 DEF UsedInv

\* w is tx[s] at another place, its household and its deletions aside.
Goes(s, w, p) ==
  /\ w.pc = p /\ w.op = tx[s].op /\ w.email = tx[s].email
  /\ w.loaded = tx[s].loaded /\ w.drops = tx[s].drops
  /\ w.joins = tx[s].joins /\ w.invites = tx[s].invites

LEMMA EndsUsed ==
  ASSUME TypeInv, UsedInv, NEW s \in Sessions, Ends(s), UNCHANGED <<Committed, raced>>
  PROVE  UsedInv'
<1>1. InviteOK(NoTransaction) /\ NoTransaction.op = "none"
  BY DEF InviteOK, NoTransaction, Entered
<1> QED
  BY <1>1, UsedMove DEF Ends

\* Steps of a login before it has found its household.
LEMMA LoginUsed ==
  ASSUME TypeInv, UsedInv, NEW s \in Sessions,
         LookForInvite(s) \/ Primary(s) \/ CountUsers(s) \/ Pick(s) \/ Found(s)
  PROVE  UsedInv'
<1>0. tx[s] \in Transaction /\ PlaceOK(tx[s]) /\ UNCHANGED <<Committed, raced>>
  BY DEF LookForInvite, Primary, CountUsers, Pick, Found, TypeInv, TypeOK
<1>1. tx[s].pc \in Entered \cup {"look for invite"}
  BY DEF LookForInvite, Primary, CountUsers, Pick, Found, Entered
<1>2. ASSUME NEW w, tx' = [tx EXCEPT ![s] = w], NEW p \in Entered, Goes(s, w, p),
             invite[tx[s].email] = None
      PROVE  UsedInv'
  <2>1. "invites" \notin raced => InviteOK(w)
    BY <1>1, <1>2 DEF UsedInv, InviteOK, Goes, Entered
  <2> QED
    BY <1>0, <1>2, <2>1, UsedMove DEF Goes
<1>3. CASE LookForInvite(s)
  <2> DEFINE e == tx[s].email
  <2>1. CASE tx' = [tx EXCEPT ![s].house = invite[e], ![s].loaded = TRUE, ![s].pc = "join"]
    <3> DEFINE w == [tx[s] EXCEPT !.house = invite[e], !.loaded = TRUE, !.pc = "join"]
    <3>1. /\ w.pc = "join" /\ w.op = tx[s].op /\ w.email = e /\ w.loaded
          /\ w.joins = tx[s].joins /\ w.invites = tx[s].invites
      BY <1>0 DEF Transaction
    <3>2. tx' = [tx EXCEPT ![s] = w]
      BY <2>1 DEF TypeInv, TypeOK
    <3> HIDE DEF w
    <3>3. "invites" \notin raced => InviteOK(w)
      BY <1>1, <3>1 DEF UsedInv, InviteOK, Entered
    <3> QED
      BY <1>0, <3>1, <3>2, <3>3, UsedMove
  <2>2. ASSUME NEW p \in {"primary", "count users", "found"}, tx' = [tx EXCEPT ![s].pc = p],
               invite[e] = None
        PROVE  UsedInv'
    <3> DEFINE w == [tx[s] EXCEPT !.pc = p]
    <3>1. Goes(s, w, p) /\ tx' = [tx EXCEPT ![s] = w]
      BY <1>0, <2>2 DEF Goes, Transaction, TypeInv, TypeOK
    <3> HIDE DEF w
    <3> QED
      BY <1>2, <2>2, <3>1 DEF Entered
  <2>3. CASE Ends(s)
    BY <1>0, <2>3, EndsUsed
  <2> QED
    BY <1>3, <2>1, <2>2, <2>3 DEF LookForInvite
<1>4. CASE Primary(s) \/ CountUsers(s) \/ Pick(s) \/ Found(s)
  <2>1. tx[s].pc \in Entered
    BY <1>4 DEF Primary, CountUsers, Pick, Found, Entered
  <2>2. "invites" \notin raced => invite[tx[s].email] = None
    BY <2>1 DEF UsedInv, InviteOK
  <2>3. ASSUME NEW w, tx' = [tx EXCEPT ![s] = w], NEW p \in Entered, Goes(s, w, p)
        PROVE  UsedInv'
    BY <1>0, <1>2, <2>2, <2>3 DEF UsedInv
  <2>4. ASSUME NEW p \in Entered, tx' = [tx EXCEPT ![s].pc = p]
        PROVE  UsedInv'
    <3> DEFINE w == [tx[s] EXCEPT !.pc = p]
    <3>1. Goes(s, w, p) /\ tx' = [tx EXCEPT ![s] = w]
      BY <1>0, <2>4 DEF Goes, Transaction, TypeInv, TypeOK
    <3> HIDE DEF w
    <3> QED
      BY <2>3, <3>1
  <2>5. ASSUME NEW h, tx' = [tx EXCEPT ![s].house = h, ![s].pc = "attach"]
        PROVE  UsedInv'
    <3> DEFINE w == [tx[s] EXCEPT !.house = h, !.pc = "attach"]
    <3>1. Goes(s, w, "attach") /\ tx' = [tx EXCEPT ![s] = w]
      BY <1>0, <2>5 DEF Goes, Transaction, TypeInv, TypeOK
    <3> HIDE DEF w
    <3> QED
      BY <2>3, <3>1 DEF Entered
  <2>6. ASSUME NEW h, tx' = [tx EXCEPT ![s].house = h, ![s].founds = TRUE, ![s].pc = "attach"]
        PROVE  UsedInv'
    <3> DEFINE w == [tx[s] EXCEPT !.house = h, !.founds = TRUE, !.pc = "attach"]
    <3>1. Goes(s, w, "attach") /\ tx' = [tx EXCEPT ![s] = w]
      BY <1>0, <2>6 DEF Goes, Transaction, TypeInv, TypeOK
    <3> HIDE DEF w
    <3> QED
      BY <2>3, <3>1 DEF Entered
  <2>7. CASE Primary(s)
    BY <2>4, <2>5, <2>7 DEF Primary, Entered
  <2>8. CASE CountUsers(s)
    BY <2>4, <2>8 DEF CountUsers, Entered
  <2>9. CASE Pick(s)
    BY <1>0, <2>5, <2>9, EndsUsed DEF Pick
  <2>10. CASE Found(s)
    BY <2>6, <2>10 DEF Found
  <2> QED
    BY <1>4, <2>7, <2>8, <2>9, <2>10
<1> QED
  BY <1>3, <1>4

\* The INSERT of an identity or an invite.
LEMMA InsertUsed ==
  ASSUME TypeInv, UsedInv, NEW s \in Sessions, Attach(s) \/ PutInvite(s)
  PROVE  UsedInv'
<1>0. tx[s] \in Transaction /\ PlaceOK(tx[s]) /\ UNCHANGED <<Committed, raced>>
  BY DEF Attach, PutInvite, TypeInv, TypeOK
<1>1. CASE Ends(s)
  BY <1>0, <1>1, EndsUsed
<1>2. CASE Attach(s) /\ ~Ends(s)
  <2> DEFINE p == IF tx[s].pc = "join" THEN "drop invite" ELSE "commit"
             w == [tx[s] EXCEPT !.joins = TRUE, !.pc = p]
  <2>1. tx[s].pc \in {"attach", "join"} /\ tx' = [tx EXCEPT ![s] = w]
    BY <1>2 DEF Attach, TypeInv, TypeOK
  <2>2. /\ w.pc = p /\ w.op = tx[s].op /\ w.email = tx[s].email /\ w.joins
        /\ w.loaded = tx[s].loaded /\ w.invites = tx[s].invites
    BY <1>0 DEF Transaction
  <2>3. ~tx[s].invites
    BY <1>0, <2>1 DEF PlaceOK
  <2> HIDE DEF w
  <2>4. "invites" \notin raced => InviteOK(w)
    BY <2>1, <2>2, <2>3 DEF UsedInv, InviteOK, Entered
  <2> QED
    BY <1>0, <2>1, <2>2, <2>4, UsedMove
<1>3. CASE PutInvite(s) /\ ~Ends(s)
  <2> DEFINE w == [tx[s] EXCEPT !.invites = TRUE, !.pc = "commit"]
  <2>1. tx[s].pc = "put invite" /\ tx' = [tx EXCEPT ![s] = w]
    BY <1>3 DEF PutInvite, TypeInv, TypeOK
  <2>2. /\ w.pc = "commit" /\ w.op = tx[s].op /\ w.email = tx[s].email
        /\ w.joins = tx[s].joins
    BY <1>0 DEF Transaction
  <2> HIDE DEF w
  <2>3. "invites" \notin raced => InviteOK(w)
    BY <2>1, <2>2 DEF UsedInv, InviteOK, Entered
  <2> QED
    BY <1>0, <2>1, <2>2, <2>3, UsedMove
<1> QED
  BY <1>1, <1>2, <1>3

\* The steps of invites, removals and deletions that write nothing others see.
LEMMA OtherUsed ==
  ASSUME TypeInv, UsedInv, NEW s \in Sessions,
         \/ LookForPending(s) \/ DropInvite(s) \/ CountMembers(s) \/ Expel(s)
         \/ DeleteInvites(s) \/ DeleteIdentities(s) \/ DeleteUser(s)
  PROVE  UsedInv'
<1>0. tx[s] \in Transaction /\ PlaceOK(tx[s]) /\ UNCHANGED <<Committed, raced>>
  BY DEF LookForPending, DropInvite, CountMembers, Expel, DeleteInvites, DeleteIdentities,
         DeleteUser, TypeInv, TypeOK
<1>1. CASE Ends(s)
  BY <1>0, <1>1, EndsUsed
<1>2. CASE LookForPending(s) /\ ~Ends(s)
  <2> DEFINE w == [tx[s] EXCEPT !.pc = "put invite"]
  <2>1. tx[s].pc = "look for pending" /\ tx' = [tx EXCEPT ![s] = w]
    BY <1>2 DEF LookForPending, TypeInv, TypeOK
  <2>2. Goes(s, w, "put invite")
    BY <1>0 DEF Goes, Transaction
  <2> HIDE DEF w
  <2>3. "invites" \notin raced => InviteOK(w)
    BY <2>1, <2>2 DEF UsedInv, InviteOK, Goes, Entered
  <2> QED
    BY <1>0, <2>1, <2>2, <2>3, UsedMove DEF Goes
<1>3. CASE DropInvite(s)
  <2> DEFINE gone == IF tx[s].loaded THEN {tx[s].email} ELSE {}
             w == [tx[s] EXCEPT !.pc = "commit", !.drops = gone]
  <2>1. tx[s].pc = "drop invite" /\ tx' = [tx EXCEPT ![s] = w]
    BY <1>3 DEF DropInvite, TypeInv, TypeOK
  <2>2. /\ w.pc = "commit" /\ w.op = tx[s].op /\ w.email = tx[s].email
        /\ w.drops = gone /\ w.joins = tx[s].joins /\ w.invites = tx[s].invites
    BY <1>0 DEF Transaction
  <2> HIDE DEF w
  <2>3. "invites" \notin raced => InviteOK(w)
    BY <2>1, <2>2 DEF UsedInv, InviteOK, Entered
  <2> QED
    BY <1>0, <2>1, <2>2, <2>3, UsedMove
<1>4. CASE (CountMembers(s) \/ Expel(s)) /\ ~Ends(s)
  <2>1. PICK w : /\ tx' = [tx EXCEPT ![s] = w] /\ w.pc \in {"expel", "commit"}
                 /\ w.op = tx[s].op /\ w.email = tx[s].email
                 /\ w.joins = tx[s].joins /\ w.invites = tx[s].invites
    <3>1. CASE CountMembers(s)
      <4> DEFINE w == [tx[s] EXCEPT !.pc = "expel"]
      <4>1. tx' = [tx EXCEPT ![s] = w]
        BY <1>4, <3>1 DEF CountMembers, TypeInv, TypeOK
      <4>2. Goes(s, w, "expel")
        BY <1>0 DEF Goes, Transaction
      <4> HIDE DEF w
      <4> QED
        BY <4>1, <4>2 DEF Goes
    <3>2. CASE Expel(s)
      <4> DEFINE gone == IF tx[s].loaded THEN {tx[s].email} ELSE {}
                 w == [tx[s] EXCEPT !.pc = "commit", !.expels = gone]
      <4>1. tx' = [tx EXCEPT ![s] = w]
        BY <3>2 DEF Expel, TypeInv, TypeOK
      <4>2. Goes(s, w, "commit")
        BY <1>0 DEF Goes, Transaction
      <4> HIDE DEF w
      <4> QED
        BY <4>1, <4>2 DEF Goes
    <3> QED
      BY <1>4, <3>1, <3>2
  <2>2. tx[s].pc \in {"count members", "expel"}
    BY <1>4 DEF CountMembers, Expel
  <2>3. "invites" \notin raced => InviteOK(w)
    BY <2>1, <2>2 DEF UsedInv, InviteOK, Entered
  <2> QED
    BY <1>0, <2>1, <2>3, UsedMove
<1>5. CASE DeleteInvites(s) \/ DeleteIdentities(s) \/ DeleteUser(s)
  <2>1. tx[s].op = "delete"
    BY <1>0, <1>5 DEF DeleteInvites, DeleteIdentities, DeleteUser, PlaceOK, Deletes
  <2>2. PICK w : /\ tx' = [tx EXCEPT ![s] = w]
                 /\ w.pc \in {"delete identities", "delete user", "commit"}
                 /\ w.op = tx[s].op /\ w.email = tx[s].email
                 /\ w.joins = tx[s].joins /\ w.invites = tx[s].invites
    <3>1. CASE DeleteInvites(s)
      <4> DEFINE w == [tx[s] EXCEPT !.drops = InvitesOf(tx[s].house), !.pc = "delete identities"]
      <4>1. tx' = [tx EXCEPT ![s] = w]
        BY <3>1 DEF DeleteInvites, TypeInv, TypeOK
      <4>2. /\ w.pc = "delete identities" /\ w.op = tx[s].op /\ w.email = tx[s].email
            /\ w.joins = tx[s].joins /\ w.invites = tx[s].invites
        BY <1>0 DEF Transaction
      <4> HIDE DEF w
      <4> QED
        BY <4>1, <4>2
    <3>2. CASE DeleteIdentities(s)
      <4> DEFINE w == [tx[s] EXCEPT !.expels = MembersOf(tx[s].house), !.pc = "delete user"]
      <4>1. tx' = [tx EXCEPT ![s] = w]
        BY <3>2 DEF DeleteIdentities, TypeInv, TypeOK
      <4>2. Goes(s, w, "delete user")
        BY <1>0 DEF Goes, Transaction
      <4> HIDE DEF w
      <4> QED
        BY <4>1, <4>2 DEF Goes
    <3>3. CASE DeleteUser(s)
      <4>1. PICK w : Wiped(s, w)
        BY <3>3, WipeShape
      <4>2. /\ w.pc = "commit" /\ w.op = tx[s].op /\ w.email = tx[s].email
            /\ w.joins = tx[s].joins /\ w.invites = tx[s].invites
        BY <1>0, <4>1 DEF Wiped, Transaction
      <4> QED
        BY <4>1, <4>2 DEF Wiped
    <3> QED
      BY <1>5, <3>1, <3>2, <3>3
  <2>3. ~tx[s].joins /\ ~tx[s].invites
    BY <1>0, <2>1 DEF PlaceOK
  <2>4. InviteOK(w)
    BY <2>1, <2>2, <2>3 DEF InviteOK, Entered
  <2> QED
    BY <1>0, <2>2, <2>4, UsedMove
<1> QED
  BY <1>1, <1>2, <1>3, <1>4, <1>5 DEF LookForPending, CountMembers

\* A transaction begins: a login beside an invite of its email is a race.
LEMMA BeginUsed ==
  ASSUME TypeInv, UsedInv, NEW s \in Sessions, NEW op, NEW pc, NEW e, NEW h, NEW own,
         NEW loaded, Begin(s, op, pc, e, own, h, loaded), UNCHANGED Committed,
         \/ op = "login" /\ pc = "look for invite" /\ e \in Emails
         \/ op = "invite" /\ pc = "look for pending" /\ e \in Emails /\ member[e] = None
         \/ op = "cancel" /\ pc = "drop invite" /\ e \in Emails
         \/ op = "remove" /\ pc = "count members"
         \/ op = "delete" /\ pc = "delete invites"
  PROVE  UsedInv'
<1> DEFINE w == [NoTransaction EXCEPT !.pc = pc, !.op = op, !.email = e, !.by = own,
                   !.house = h, !.loaded = loaded]
<1>0. tx'[s] = w /\ \A t \in Sessions \ {s} : tx'[t] = tx[t]
  BY DEF Begin, TypeInv, TypeOK
<1>1. w.pc = pc /\ w.op = op /\ w.email = e /\ ~w.joins /\ ~w.invites
  BY DEF NoTransaction
<1> HIDE DEF w
<1> SUFFICES ASSUME "invites" \notin raced' PROVE UsedInv'
  BY DEF UsedInv
<1>2. "invites" \notin raced /\ "invites" \notin Races(s, op, e, h)
  BY DEF Begin
<1>3. InviteOK(tx[s])'
  BY <1>0, <1>1 DEF InviteOK, Entered, Committed
<1>4. \A t \in Sessions \ {s} : InviteOK(tx[t])'
  BY <1>0, <1>2 DEF UsedInv, InviteOK, Committed
<1>5. \A t \in Sessions \ {s} :
        {op, tx[t].op} \cap {"invite", "cancel"} # {} /\ "login" \in {op, tx[t].op}
          => tx[t].email # e
  <2>1. \A t \in Others(s) :
          {op, tx[t].op} \cap {"invite", "cancel"} # {} /\ "login" \in {op, tx[t].op}
            => tx[t].email # e
    BY <1>2 DEF Races, Kinds
  <2>2. \A t \in Sessions : tx[t].pc = "idle" => tx[t].op = "none"
    BY DEF TypeInv, PlaceOK
  <2> QED
    BY <2>1, <2>2 DEF Others
<1>6. \A t, v \in Sessions :
        t # v /\ tx'[t].op = "login" /\ tx'[v].op \in {"invite", "cancel"}
          => tx'[t].email # tx'[v].email
  <2> TAKE t, v \in Sessions
  <2> SUFFICES ASSUME t # v, tx'[t].op = "login", tx'[v].op \in {"invite", "cancel"}
               PROVE  tx'[t].email # tx'[v].email
    OBVIOUS
  <2>1. CASE t = s
    <3>1. op = "login" /\ tx'[t].email = e /\ tx'[v] = tx[v]
      BY <1>0, <1>1, <2>1
    <3>2. {op, tx[v].op} \cap {"invite", "cancel"} # {} /\ "login" \in {op, tx[v].op}
      BY <3>1
    <3> QED
      BY <1>5, <2>1, <3>1, <3>2
  <2>2. CASE v = s
    <3>1. op \in {"invite", "cancel"} /\ tx'[v].email = e /\ tx'[t] = tx[t]
      BY <1>0, <1>1, <2>2
    <3>2. {op, tx[t].op} \cap {"invite", "cancel"} # {} /\ "login" \in {op, tx[t].op}
      BY <3>1
    <3> QED
      BY <1>5, <2>2, <3>1, <3>2
  <2>3. CASE t # s /\ v # s
    <3>1. tx'[t] = tx[t] /\ tx'[v] = tx[v]
      BY <1>0, <2>3
    <3> QED
      BY <1>2, <3>1 DEF UsedInv
  <2> QED
    BY <2>1, <2>2, <2>3
<1>7. \A d \in Emails : member'[d] = None \/ invite'[d] = None
  BY <1>2 DEF UsedInv, Committed
<1> QED
  BY <1>3, <1>4, <1>6, <1>7 DEF UsedInv

LEMMA CommitUsed ==
  ASSUME TypeInv, UsedInv, NEW s \in Sessions, Commit(s)
  PROVE  UsedInv'
<1> DEFINE w == tx[s]
<1>0. raced' = raced
  BY DEF Commit
<1> SUFFICES ASSUME "invites" \notin raced PROVE UsedInv'
  BY <1>0 DEF UsedInv
<1>1. /\ w.pc = "commit" /\ InviteOK(w)
      /\ \A e \in Emails : member[e] = None \/ invite[e] = None
  BY DEF Commit, UsedInv
<1>2. \A e \in Emails :
        /\ member'[e] = IF e \in w.expels THEN None
                        ELSE IF w.joins /\ e = w.email THEN w.house ELSE member[e]
        /\ invite'[e] = IF e \in w.drops THEN None
                        ELSE IF w.invites /\ e = w.email THEN w.house ELSE invite[e]
  BY DEF Commit
<1>3. \A e \in Emails : member'[e] = None \/ invite'[e] = None
  <2> SUFFICES ASSUME NEW e \in Emails PROVE member'[e] = None \/ invite'[e] = None
    OBVIOUS
  <2>1. CASE w.joins /\ e = w.email
    BY <1>1, <1>2, <2>1 DEF InviteOK
  <2>2. CASE w.invites /\ e = w.email
    BY <1>1, <1>2, <2>2 DEF InviteOK
  <2>3. CASE ~((w.joins \/ w.invites) /\ e = w.email)
    BY <1>1, <1>2, <2>3
  <2> QED
    BY <2>1, <2>2, <2>3
<1>4. ASSUME NEW t \in Sessions \ {s}
      PROVE  /\ tx'[t].pc = tx[t].pc /\ tx'[t].op = tx[t].op /\ tx'[t].email = tx[t].email
             /\ tx'[t].joins = tx[t].joins /\ tx'[t].invites = tx[t].invites
             /\ tx'[t].drops = tx[t].drops /\ tx'[t].loaded = StillThere(s, t)
  <2>1. tx[t] \in Transaction
    BY DEF TypeInv, TypeOK
  <2>2. tx'[t] = [tx[t] EXCEPT !.loaded = StillThere(s, t)]
    BY DEF Commit
  <2> QED
    BY <2>1, <2>2 DEF Transaction
<1>5. tx'[s] = NoTransaction
  BY DEF Commit
<1>6. ASSUME NEW t \in Sessions \ {s} PROVE InviteOK(tx[t])'
  <2> DEFINE v == tx[t]
  <2>1. InviteOK(v)
    BY DEF UsedInv
  <2>2. v.op = "login" /\ invite[v.email] = None => invite'[v.email] = None
    <3> SUFFICES ASSUME v.op = "login", invite[v.email] = None PROVE invite'[v.email] = None
      OBVIOUS
    <3>1. v.email \in Emails
      BY <2>1 DEF InviteOK
    <3>2. w.invites => w.email # v.email
      BY <1>1 DEF UsedInv, InviteOK
    <3> QED
      BY <1>2, <3>1, <3>2
  <2>3. v.op = "invite" => member'[v.email] = None
    <3> SUFFICES ASSUME v.op = "invite" PROVE member'[v.email] = None
      OBVIOUS
    <3>1. v.email \in Emails /\ member[v.email] = None
      BY <2>1 DEF InviteOK
    <3>2. w.joins => w.email # v.email
      BY <1>1 DEF UsedInv, InviteOK
    <3> QED
      BY <1>2, <3>1, <3>2
  <2>4. v.op = "login" /\ v.loaded => StillThere(s, t) \/ invite'[v.email] = None
    <3> SUFFICES ASSUME v.op = "login", v.loaded, ~StillThere(s, t)
                 PROVE  invite'[v.email] = None
      OBVIOUS
    <3>1. v.email \in w.drops /\ v.email \in Emails
      BY <2>1 DEF StillThere, InviteOK
    <3> QED
      BY <1>2, <3>1
  <2>5. v.pc \in Entered => v.op = "login"
    BY <2>1 DEF InviteOK
  <2> QED
    BY <1>4, <2>1, <2>2, <2>3, <2>4, <2>5 DEF InviteOK
<1>7. InviteOK(tx[s])'
  BY <1>5 DEF InviteOK, NoTransaction, Entered
<1>8. \A t, v \in Sessions :
        t # v /\ tx'[t].op = "login" /\ tx'[v].op \in {"invite", "cancel"}
          => tx'[t].email # tx'[v].email
  <2>1. tx'[s].op = "none"
    BY <1>5 DEF NoTransaction
  <2> QED
    BY <1>4, <2>1 DEF UsedInv
<1> QED
  BY <1>3, <1>6, <1>7, <1>8 DEF UsedInv

LEMMA UsedStep == TypeInv /\ UsedInv /\ [Next]_vars => UsedInv'
<1> SUFFICES ASSUME TypeInv, UsedInv, [Next]_vars PROVE UsedInv'
  OBVIOUS
<1>1. CASE UNCHANGED vars
  BY <1>1 DEF vars, UsedInv, InviteOK
<1>2. ASSUME NEW e \in Emails, SignIn(e)
      PROVE  UsedInv'
  BY <1>2 DEF SignIn, UsedInv, InviteOK
<1>3. ASSUME NEW s \in Sessions, NEW e \in Emails, Login(s, e)
      PROVE  UsedInv'
  BY <1>3, BeginUsed DEF Login
<1>4. ASSUME NEW s \in Sessions, NEW b \in Emails, NEW e \in Emails,
             Invite(s, b, e) \/ CancelInvite(s, b, e) \/ RemoveMember(s, b, e)
      PROVE  UsedInv'
  BY <1>4, BeginUsed DEF Invite, CancelInvite, RemoveMember
<1>5. ASSUME NEW s \in Sessions, NEW b \in Emails, NEW h \in Households,
             DeleteHousehold(s, b, h)
      PROVE  UsedInv'
  BY <1>5, BeginUsed DEF DeleteHousehold
<1>6. ASSUME NEW s \in Sessions, Step(s)
      PROVE  UsedInv'
  BY <1>6, LoginUsed, InsertUsed, OtherUsed, CommitUsed DEF Step
<1>7. ASSUME NEW s \in Sessions, Fail(s)
      PROVE  UsedInv'
  BY <1>7, EndsUsed DEF Fail
<1> QED
  BY <1>1, <1>2, <1>3, <1>4, <1>5, <1>6, <1>7 DEF Next

\* Until a login and an invite of the same email overlap, no member has an invite: the
\* login that uses an invite deletes it in the same commit, also when it is cancelled
\* or its household deleted meanwhile.
THEOREM InvitesAreUsedUp == Spec => []InviteIsUsedUp
<1>1. UsedInv => InviteIsUsedUp
  BY DEF UsedInv, InviteIsUsedUp
<1> QED
  BY <1>1, InitUsed, UsedStep, TypeInvariant, PTL DEF Spec

-----------------------------------------------------------------------------
(* Members *)

Entering == Looks \cup {"join", "attach"}

\* What a transaction knows of the members it adds or removes.
ExpelOK(w) ==
  /\ w.pc \in Entering => w.op = "login"
  /\ w.pc \in {"count members", "expel"} => w.op = "remove"
  /\ w.joins => w.op = "login" /\ w.email \in Emails /\ member[w.email] = None
  /\ w.op = "remove" => /\ w.email \in Emails /\ w.house \in Households
                        /\ w.loaded => member[w.email] = w.house
                        /\ w.expels \subseteq {w.email}
  /\ w.expels # {} => w.op \in {"remove", "delete"}
  /\ w.expels \subseteq MembersOf(w.house)
  /\ w.op = "delete" /\ w.pc = "commit" => w.wipes

\* A removal that has counted the members, and still has one to remove.
Expels(w) == (w.pc = "expel" /\ w.loaded) \/ w.expels # {}

\* Someone else is a member of the household.
Remains(w) == \E f \in Emails \ {w.email} : member[f] = w.house

\* Until two removals from a household overlap, what one has counted is still so.
CountInv ==
  "removals" \notin raced =>
    \A s \in Sessions : tx[s].op = "remove" =>
      /\ Expels(tx[s]) => Remains(tx[s])
      /\ \A t \in Sessions \ {s} : tx[t].op = "remove" => tx[t].house # tx[s].house

\* No two transactions write the identity of one email.
Apart(v, w) ==
  /\ v.expels \cap w.expels = {}
  /\ v.joins /\ w.joins => v.email # w.email

ExpelInv ==
  /\ \A s \in Sessions : ExpelOK(tx[s])
  /\ \A s \in Sessions : \A t \in Sessions \ {s} : Apart(tx[s], tx[t])
  /\ CountInv

LEMMA InitExpel == Init => ExpelInv
<1> SUFFICES ASSUME Init PROVE ExpelInv
  OBVIOUS
<1>1. \A s \in Sessions :
        /\ tx[s].pc = "idle" /\ tx[s].op = "none"
        /\ ~tx[s].joins /\ tx[s].expels = {}
  BY DEF Init, NoTransaction
<1>2. \A s \in Sessions : ExpelOK(tx[s])
  BY <1>1 DEF ExpelOK, Entering, Looks
<1> QED
  BY <1>1, <1>2 DEF ExpelInv, CountInv, Apart

\* A step of s that writes nothing that others see.
LEMMA ExpelTurn ==
  ASSUME TypeInv, ExpelInv, NEW s \in Sessions, NEW w, tx' = [tx EXCEPT ![s] = w],
         UNCHANGED <<Committed, raced>>, ExpelOK(w),
         \A t \in Sessions \ {s} : Apart(w, tx[t]),
         w.op = "remove" => tx[s].op = "remove" /\ w.house = tx[s].house,
         "removals" \notin raced /\ w.op = "remove" /\ Expels(w) => Remains(w)
  PROVE  ExpelInv'
<1>1. tx'[s] = w /\ \A t \in Sessions \ {s} : tx'[t] = tx[t]
  BY DEF TypeInv, TypeOK
<1>2. member' = member /\ raced' = raced
  BY DEF Committed
<1>3. \A t \in Sessions : ExpelOK(tx[t])'
  <2>1. ExpelOK(tx[s])'
    BY <1>1, <1>2 DEF ExpelOK, MembersOf
  <2>2. ASSUME NEW t \in Sessions \ {s} PROVE ExpelOK(tx[t])'
    <3>1. ExpelOK(tx[t]) /\ tx'[t] = tx[t]
      BY <1>1 DEF ExpelInv
    <3> QED
      BY <1>2, <3>1 DEF ExpelOK, MembersOf
  <2> QED
    BY <2>1, <2>2
<1>4. \A t \in Sessions : \A v \in Sessions \ {t} : Apart(tx[t], tx[v])'
  <2> TAKE t \in Sessions
  <2> TAKE v \in Sessions \ {t}
  <2>1. Apart(tx'[t], tx'[v])
    <3>1. CASE t = s
      BY <1>1, <3>1
    <3>2. CASE v = s
      BY <1>1, <3>2 DEF Apart
    <3>3. CASE t # s /\ v # s
      BY <1>1, <3>3 DEF ExpelInv
    <3> QED
      BY <3>1, <3>2, <3>3
  <2> QED
    BY <2>1 DEF Apart
<1>5. CountInv'
  <2> SUFFICES ASSUME "removals" \notin raced, NEW t \in Sessions, tx'[t].op = "remove"
               PROVE  /\ Expels(tx'[t]) => Remains(tx[t])'
                      /\ \A v \in Sessions \ {t} :
                           tx'[v].op = "remove" => tx'[v].house # tx'[t].house
    BY <1>2 DEF CountInv, Expels
  <2>0. CountInv
    BY DEF ExpelInv
  <2>1. Expels(tx'[t]) => Remains(tx'[t])
    <3>1. CASE t = s
      BY <1>1, <3>1
    <3>2. CASE t # s
      BY <1>1, <2>0, <3>2 DEF CountInv
    <3> QED
      BY <3>1, <3>2
  <2>2. Remains(tx'[t]) => Remains(tx[t])'
    BY <1>2 DEF Remains
  <2>3. \A v \in Sessions : tx'[v].op = "remove" => tx[v].op = "remove" /\ tx'[v].house = tx[v].house
    BY <1>1
  <2>4. \A v \in Sessions \ {t} : tx'[v].op = "remove" => tx'[v].house # tx'[t].house
    BY <2>0, <2>3 DEF CountInv
  <2> QED
    BY <2>1, <2>2, <2>4
<1> QED
  BY <1>3, <1>4, <1>5 DEF ExpelInv

LEMMA EndsExpel ==
  ASSUME TypeInv, ExpelInv, NEW s \in Sessions, Ends(s), UNCHANGED <<Committed, raced>>
  PROVE  ExpelInv'
<1> DEFINE w == NoTransaction
<1>1. w.pc = "idle" /\ w.op = "none" /\ ~w.joins /\ w.expels = {}
  BY DEF NoTransaction
<1>2. tx' = [tx EXCEPT ![s] = w]
  BY DEF Ends
<1> HIDE DEF w
<1>3. ExpelOK(w)
  BY <1>1 DEF ExpelOK, Entering, Looks
<1>4. \A t \in Sessions \ {s} : Apart(w, tx[t])
  BY <1>1 DEF Apart
<1> QED
  BY <1>1, <1>2, <1>3, <1>4, ExpelTurn

\* w is tx[s] at another place, where it adds and removes no member.
Walks(s, w) ==
  /\ tx' = [tx EXCEPT ![s] = w]
  /\ w.op = tx[s].op /\ w.email = tx[s].email /\ w.joins = tx[s].joins
  /\ w.expels = tx[s].expels /\ w.wipes = tx[s].wipes
  /\ (w.loaded = tx[s].loaded /\ w.house = tx[s].house) \/ tx[s].op = "login"
  /\ w.pc \in Entering => tx[s].op = "login"
  /\ w.pc \notin {"count members", "expel"}
  /\ w.pc = "commit" => tx[s].op # "delete"

LEMMA WalksExpel ==
  ASSUME TypeInv, ExpelInv, NEW s \in Sessions, NEW w, Walks(s, w),
         UNCHANGED <<Committed, raced>>
  PROVE  ExpelInv'
<1>1. ExpelOK(tx[s]) /\ (\A t \in Sessions \ {s} : Apart(tx[s], tx[t])) /\ CountInv
  BY DEF ExpelInv
<1>2. ExpelOK(w)
  BY <1>1 DEF ExpelOK, Walks
<1>3. \A t \in Sessions \ {s} : Apart(w, tx[t])
  BY <1>1 DEF Apart, Walks
<1>4. w.op = "remove" => tx[s].op = "remove" /\ w.house = tx[s].house
  BY DEF Walks
<1>5. "removals" \notin raced /\ w.op = "remove" /\ Expels(w) => Remains(w)
  <2> SUFFICES ASSUME "removals" \notin raced, w.op = "remove", Expels(w) PROVE Remains(w)
    OBVIOUS
  <2>1. Expels(tx[s]) /\ tx[s].op = "remove"
    BY DEF Expels, Walks
  <2>2. Remains(tx[s])
    BY <1>1, <2>1 DEF CountInv
  <2> QED
    BY <1>4, <2>2 DEF Remains, Walks
<1> QED
  BY <1>2, <1>3, <1>4, <1>5, ExpelTurn DEF Walks

\* The steps of a login or an invite before it inserts its row, and those of a deletion
\* before it has looked for members.
LEMMA EarlyExpel ==
  ASSUME TypeInv, ExpelInv, NEW s \in Sessions,
         \/ LookForInvite(s) \/ Primary(s) \/ CountUsers(s) \/ Pick(s) \/ Found(s)
         \/ LookForPending(s) \/ DropInvite(s) \/ DeleteInvites(s)
  PROVE  ExpelInv'
<1>0. tx[s] \in Transaction /\ PlaceOK(tx[s]) /\ UNCHANGED <<Committed, raced>>
  BY DEF LookForInvite, Primary, CountUsers, Pick, Found, LookForPending, DropInvite,
         DeleteInvites, TypeInv, TypeOK
<1>1. tx[s].pc \in Entering => tx[s].op = "login"
  BY DEF ExpelInv, ExpelOK
<1>2. ASSUME NEW p \in Looks \cup {"put invite"}, tx' = [tx EXCEPT ![s].pc = p],
             p \in Looks => tx[s].op = "login"
      PROVE  ExpelInv'
  <2> DEFINE w == [tx[s] EXCEPT !.pc = p]
  <2>1. Walks(s, w)
    BY <1>0, <1>2 DEF Walks, Transaction, Entering, Looks, TypeInv, TypeOK
  <2> QED
    BY <1>0, <2>1, WalksExpel
<1>3. ASSUME NEW h, tx' = [tx EXCEPT ![s].house = h, ![s].pc = "attach"], tx[s].op = "login"
      PROVE  ExpelInv'
  <2> DEFINE w == [tx[s] EXCEPT !.house = h, !.pc = "attach"]
  <2>1. Walks(s, w)
    BY <1>0, <1>3 DEF Walks, Transaction, TypeInv, TypeOK
  <2> QED
    BY <1>0, <2>1, WalksExpel
<1>4. CASE LookForInvite(s)
  <2> DEFINE h == invite[tx[s].email]
             w == [tx[s] EXCEPT !.house = h, !.loaded = TRUE, !.pc = "join"]
  <2>1. tx[s].op = "login"
    BY <1>1, <1>4 DEF LookForInvite, Entering, Looks
  <2>2. CASE tx' = [tx EXCEPT ![s].house = h, ![s].loaded = TRUE, ![s].pc = "join"]
    <3>1. Walks(s, w)
      BY <1>0, <2>1, <2>2 DEF Walks, Transaction, TypeInv, TypeOK
    <3> QED
      BY <1>0, <3>1, WalksExpel
  <2>3. CASE Ends(s)
    BY <1>0, <2>3, EndsExpel
  <2> QED
    BY <1>2, <1>4, <2>1, <2>2, <2>3 DEF LookForInvite, Looks
<1>5. CASE Primary(s)
  <2>1. tx[s].op = "login"
    BY <1>1, <1>5 DEF Primary, Entering, Looks
  <2> QED
    BY <1>2, <1>3, <1>5, <2>1 DEF Primary, Looks
<1>6. CASE CountUsers(s)
  <2>1. tx[s].op = "login"
    BY <1>1, <1>6 DEF CountUsers, Entering, Looks
  <2> QED
    BY <1>2, <1>6, <2>1 DEF CountUsers, Looks
<1>7. CASE Pick(s)
  <2>1. tx[s].op = "login"
    BY <1>1, <1>7 DEF Pick, Entering, Looks
  <2> QED
    BY <1>0, <1>3, <1>7, <2>1, EndsExpel DEF Pick
<1>8. CASE Found(s)
  <2>1. tx[s].op = "login"
    BY <1>1, <1>8 DEF Found, Entering, Looks
  <2>2. PICK h \in Households :
          tx' = [tx EXCEPT ![s].house = h, ![s].founds = TRUE, ![s].pc = "attach"]
    BY <1>8 DEF Found
  <2> DEFINE w == [tx[s] EXCEPT !.house = h, !.founds = TRUE, !.pc = "attach"]
  <2>3. Walks(s, w)
    BY <1>0, <2>1, <2>2 DEF Walks, Transaction, TypeInv, TypeOK
  <2> QED
    BY <1>0, <2>3, WalksExpel
<1>9. CASE LookForPending(s)
  BY <1>0, <1>2, <1>9, EndsExpel DEF LookForPending, Looks
<1>10. CASE DropInvite(s)
  <2> DEFINE gone == IF tx[s].loaded THEN {tx[s].email} ELSE {}
             w == [tx[s] EXCEPT !.pc = "commit", !.drops = gone]
  <2>1. tx[s].op # "delete"
    BY <1>0, <1>10 DEF DropInvite, PlaceOK, Deletes
  <2>2. tx' = [tx EXCEPT ![s] = w]
    BY <1>10 DEF DropInvite, TypeInv, TypeOK
  <2>3. Walks(s, w)
    BY <1>0, <2>1, <2>2 DEF Walks, Transaction, Entering, Looks
  <2> QED
    BY <1>0, <2>3, WalksExpel
<1>11. CASE DeleteInvites(s)
  <2> DEFINE w == [tx[s] EXCEPT !.drops = InvitesOf(tx[s].house), !.pc = "delete identities"]
  <2>1. tx' = [tx EXCEPT ![s] = w]
    BY <1>11 DEF DeleteInvites, TypeInv, TypeOK
  <2>2. Walks(s, w)
    BY <1>0, <2>1 DEF Walks, Transaction, Entering, Looks
  <2> QED
    BY <1>0, <2>2, WalksExpel
<1> QED
  BY <1>4, <1>5, <1>6, <1>7, <1>8, <1>9, <1>10, <1>11

\* The INSERT of an identity or an invite.
LEMMA InsertExpel ==
  ASSUME TypeInv, ExpelInv, NEW s \in Sessions, Attach(s) \/ PutInvite(s)
  PROVE  ExpelInv'
<1>0. tx[s] \in Transaction /\ PlaceOK(tx[s]) /\ UNCHANGED <<Committed, raced>>
  BY DEF Attach, PutInvite, TypeInv, TypeOK
<1>1. CASE Ends(s)
  BY <1>0, <1>1, EndsExpel
<1>2. CASE Attach(s) /\ ~Ends(s)
  <2> DEFINE p == IF tx[s].pc = "join" THEN "drop invite" ELSE "commit"
             w == [tx[s] EXCEPT !.joins = TRUE, !.pc = p]
  <2>1. /\ tx[s].pc \in {"attach", "join"} /\ tx' = [tx EXCEPT ![s] = w]
        /\ member[tx[s].email] = None
        /\ \A t \in Others(s) : ~(tx[t].joins /\ tx[t].email = tx[s].email)
    BY <1>2 DEF Attach, TypeInv, TypeOK
  <2>2. /\ w.pc = p /\ w.op = tx[s].op /\ w.email = tx[s].email
        /\ w.expels = tx[s].expels /\ w.house = tx[s].house
    BY <1>0 DEF Transaction
  <2>3. ExpelOK(tx[s]) /\ tx[s].op = "login" /\ tx[s].expels = {} /\ tx[s].email \in Emails
    BY <1>0, <2>1 DEF ExpelInv, ExpelOK, Entering, PlaceOK
  <2> HIDE DEF w
  <2>4. ExpelOK(w)
    BY <2>1, <2>2, <2>3 DEF ExpelOK, Entering, Looks
  <2>5. \A t \in Sessions \ {s} : Apart(w, tx[t])
    <3>1. \A t \in Sessions : tx[t].pc = "idle" => ~tx[t].joins
      BY DEF TypeInv, PlaceOK
    <3> QED
      BY <2>1, <2>2, <2>3, <3>1 DEF Apart, Others
  <2> QED
    BY <1>0, <2>1, <2>2, <2>3, <2>4, <2>5, ExpelTurn
<1>3. CASE PutInvite(s) /\ ~Ends(s)
  <2> DEFINE w == [tx[s] EXCEPT !.invites = TRUE, !.pc = "commit"]
  <2>1. tx[s].pc = "put invite" /\ tx' = [tx EXCEPT ![s] = w]
    BY <1>3 DEF PutInvite, TypeInv, TypeOK
  <2>2. tx[s].op # "delete"
    BY <1>0, <2>1 DEF PlaceOK, Deletes
  <2>3. Walks(s, w)
    BY <1>0, <2>1, <2>2 DEF Walks, Transaction, Entering, Looks
  <2> QED
    BY <1>0, <2>3, WalksExpel
<1> QED
  BY <1>1, <1>2, <1>3

\* A count above one finds someone else.
LEMMA OthersRemain ==
  ASSUME NEW w, ~(Cardinality(MembersOf(w.house)) <= 1)
  PROVE  Remains(w)
<1> SUFFICES ASSUME ~Remains(w) PROVE FALSE
  OBVIOUS
<1>1. MembersOf(w.house) \subseteq {w.email}
  BY DEF Remains, MembersOf
<1>2. MembersOf(w.house) = {} \/ MembersOf(w.house) = {w.email}
  BY <1>1
<1>3. Cardinality({}) = 0 /\ Cardinality({w.email}) = 1
  BY FS_EmptySet, FS_Singleton
<1>4. Cardinality(MembersOf(w.house)) \in {0, 1}
  BY <1>2, <1>3
<1> QED
  BY <1>4

\* The steps that count members or delete their identities.
LEMMA RemoveExpel ==
  ASSUME TypeInv, ExpelInv, NEW s \in Sessions,
         CountMembers(s) \/ Expel(s) \/ DeleteIdentities(s) \/ DeleteUser(s)
  PROVE  ExpelInv'
<1>0. tx[s] \in Transaction /\ PlaceOK(tx[s]) /\ UNCHANGED <<Committed, raced>>
  BY DEF CountMembers, Expel, DeleteIdentities, DeleteUser, TypeInv, TypeOK
<1>1. ExpelOK(tx[s]) /\ (\A t \in Sessions \ {s} : Apart(tx[s], tx[t])) /\ CountInv
  BY DEF ExpelInv
<1>2. \A t \in Sessions : tx[t].pc = "idle" => tx[t].expels = {}
  <2>1. \A t \in Sessions : ExpelOK(tx[t]) /\ (tx[t].pc = "idle" => tx[t].op = "none")
    BY DEF ExpelInv, TypeInv, PlaceOK
  <2> QED
    BY <2>1 DEF ExpelOK
<1>3. CASE Ends(s)
  BY <1>0, <1>3, EndsExpel
<1>4. CASE CountMembers(s) /\ ~Ends(s)
  <2> DEFINE w == [tx[s] EXCEPT !.pc = "expel"]
  <2>1. /\ tx[s].pc = "count members" /\ tx' = [tx EXCEPT ![s] = w]
        /\ ~(Cardinality(MembersOf(tx[s].house)) <= 1)
    BY <1>4 DEF CountMembers, TypeInv, TypeOK
  <2>2. /\ w.pc = "expel" /\ w.op = tx[s].op /\ w.email = tx[s].email /\ w.joins = tx[s].joins
        /\ w.loaded = tx[s].loaded /\ w.expels = tx[s].expels /\ w.house = tx[s].house
    BY <1>0 DEF Transaction
  <2> HIDE DEF w
  <2>3. tx[s].op = "remove"
    BY <1>1, <2>1 DEF ExpelOK
  <2>4. ExpelOK(w)
    BY <1>1, <2>2, <2>3 DEF ExpelOK, Entering, Looks
  <2>5. \A t \in Sessions \ {s} : Apart(w, tx[t])
    BY <1>1, <2>2 DEF Apart
  <2>6. Remains(w)
    <3>1. Remains(tx[s])
      BY <2>1, OthersRemain
    <3> QED
      BY <2>2, <3>1 DEF Remains
  <2> QED
    BY <1>0, <2>1, <2>2, <2>3, <2>4, <2>5, <2>6, ExpelTurn
<1>5. CASE Expel(s)
  <2> DEFINE gone == IF tx[s].loaded THEN {tx[s].email} ELSE {}
             w == [tx[s] EXCEPT !.pc = "commit", !.expels = gone]
  <2>1. /\ tx[s].pc = "expel" /\ tx' = [tx EXCEPT ![s] = w]
        /\ \A t \in Others(s) : tx[s].email \notin tx[t].expels
    BY <1>5 DEF Expel, TypeInv, TypeOK
  <2>2. /\ w.pc = "commit" /\ w.op = tx[s].op /\ w.email = tx[s].email /\ w.joins = tx[s].joins
        /\ w.loaded = tx[s].loaded /\ w.expels = gone /\ w.house = tx[s].house
    BY <1>0 DEF Transaction
  <2> HIDE DEF w
  <2>3. tx[s].op = "remove"
    BY <1>1, <2>1 DEF ExpelOK
  <2>4. ExpelOK(w)
    BY <1>1, <2>2, <2>3 DEF ExpelOK, Entering, Looks, MembersOf
  <2>5. \A t \in Sessions \ {s} : Apart(w, tx[t])
    BY <1>1, <1>2, <2>1, <2>2 DEF Apart, Others
  <2>6. "removals" \notin raced /\ Expels(w) => Remains(w)
    <3> SUFFICES ASSUME "removals" \notin raced, Expels(w) PROVE Remains(w)
      OBVIOUS
    <3>1. Expels(tx[s])
      BY <2>1, <2>2 DEF Expels
    <3>2. Remains(tx[s])
      BY <1>1, <2>3, <3>1 DEF CountInv
    <3> QED
      BY <2>2, <3>2 DEF Remains
  <2> QED
    BY <1>0, <2>1, <2>2, <2>3, <2>4, <2>5, <2>6, ExpelTurn
<1>6. ASSUME NEW w, tx' = [tx EXCEPT ![s] = w], tx[s].op = "delete",
             w.op = tx[s].op, w.joins = tx[s].joins, w.house = tx[s].house,
             w.pc \in {"delete user", "commit"}, w.pc = "commit" => w.wipes,
             w.expels \subseteq tx[s].expels \cup MembersOf(tx[s].house),
             \A t \in Others(s) : MembersOf(tx[s].house) \cap tx[t].expels = {}
      PROVE  ExpelInv'
  <2>1. ~tx[s].joins
    BY <1>0, <1>6 DEF PlaceOK
  <2>2. ExpelOK(w)
    BY <1>1, <1>6, <2>1 DEF ExpelOK, Entering, Looks
  <2>3. ASSUME NEW t \in Sessions \ {s} PROVE Apart(w, tx[t])
    <3>1. MembersOf(tx[s].house) \cap tx[t].expels = {}
      BY <1>2, <1>6 DEF Others
    <3>2. tx[s].expels \cap tx[t].expels = {}
      BY <1>1 DEF Apart
    <3> QED
      BY <1>6, <2>1, <3>1, <3>2 DEF Apart
  <2> QED
    BY <1>0, <1>6, <2>2, <2>3, ExpelTurn
<1>7. CASE DeleteIdentities(s)
  <2> DEFINE w == [tx[s] EXCEPT !.expels = MembersOf(tx[s].house), !.pc = "delete user"]
  <2>1. /\ tx[s].pc = "delete identities" /\ tx' = [tx EXCEPT ![s] = w]
        /\ \A t \in Others(s) : MembersOf(tx[s].house) \cap tx[t].expels = {}
    BY <1>7 DEF DeleteIdentities, TypeInv, TypeOK
  <2>2. /\ w.pc = "delete user" /\ w.op = tx[s].op /\ w.joins = tx[s].joins
        /\ w.house = tx[s].house /\ w.expels = MembersOf(tx[s].house)
    BY <1>0 DEF Transaction
  <2>3. tx[s].op = "delete"
    BY <1>0, <2>1 DEF PlaceOK, Deletes
  <2> HIDE DEF w
  <2> QED
    BY <1>6, <2>1, <2>2, <2>3
<1>8. CASE DeleteUser(s)
  <2>1. PICK w : Wiped(s, w)
    BY <1>8, WipeShape
  <2>2. /\ w.pc = "commit" /\ w.op = tx[s].op /\ w.joins = tx[s].joins /\ w.wipes
        /\ w.house = tx[s].house /\ w.expels = tx[s].expels \cup MembersOf(tx[s].house)
    BY <1>0, <2>1 DEF Wiped, Transaction
  <2>3. tx[s].op = "delete"
    BY <1>0, <2>1 DEF Wiped, PlaceOK, Deletes
  <2>4. /\ tx' = [tx EXCEPT ![s] = w]
        /\ \A t \in Others(s) : MembersOf(tx[s].house) \cap tx[t].expels = {}
    BY <2>1 DEF Wiped, RowsAreFree
  <2> QED
    BY <1>6, <2>2, <2>3, <2>4
<1> QED
  BY <1>3, <1>4, <1>5, <1>7, <1>8

\* A transaction begins: a removal beside another from the same household is a race.
LEMMA BeginExpel ==
  ASSUME TypeInv, ExpelInv, NEW s \in Sessions, NEW op, NEW pc, NEW e, NEW h, NEW own,
         NEW loaded, Begin(s, op, pc, e, own, h, loaded), UNCHANGED Committed,
         \/ op = "login" /\ pc = "look for invite"
         \/ op = "invite" /\ pc = "look for pending"
         \/ op = "cancel" /\ pc = "drop invite"
         \/ /\ op = "remove" /\ pc = "count members"
            /\ e \in Emails /\ h \in Households /\ member[e] = h
         \/ op = "delete" /\ pc = "delete invites"
  PROVE  ExpelInv'
<1> DEFINE w == [NoTransaction EXCEPT !.pc = pc, !.op = op, !.email = e, !.by = own,
                   !.house = h, !.loaded = loaded]
<1>0. tx'[s] = w /\ \A t \in Sessions \ {s} : tx'[t] = tx[t]
  BY DEF Begin, TypeInv, TypeOK
<1>1. /\ w.pc = pc /\ w.op = op /\ w.email = e /\ w.house = h /\ w.expels = {} /\ ~w.joins
  BY DEF NoTransaction
<1> HIDE DEF w
<1>2. member' = member /\ raced' = raced \cup Races(s, op, e, h)
  BY DEF Begin, Committed
<1>3. \A t \in Sessions : ExpelOK(tx[t])'
  <2>1. ExpelOK(tx[s])'
    BY <1>0, <1>1, <1>2 DEF ExpelOK, Entering, Looks
  <2>2. ASSUME NEW t \in Sessions \ {s} PROVE ExpelOK(tx[t])'
    <3>1. ExpelOK(tx[t]) /\ tx'[t] = tx[t]
      BY <1>0 DEF ExpelInv
    <3> QED
      BY <1>2, <3>1 DEF ExpelOK, MembersOf
  <2> QED
    BY <2>1, <2>2
<1>4. \A t \in Sessions : \A v \in Sessions \ {t} : Apart(tx[t], tx[v])'
  <2> TAKE t \in Sessions
  <2> TAKE v \in Sessions \ {t}
  <2>1. CASE t = s \/ v = s
    BY <1>0, <1>1, <2>1 DEF Apart
  <2>2. CASE t # s /\ v # s
    BY <1>0, <2>2 DEF ExpelInv, Apart
  <2> QED
    BY <2>1, <2>2
<1>5. CountInv'
  <2> SUFFICES ASSUME "removals" \notin raced', NEW t \in Sessions, tx'[t].op = "remove"
               PROVE  /\ Expels(tx'[t]) => Remains(tx[t])'
                      /\ \A v \in Sessions \ {t} :
                           tx'[v].op = "remove" => tx'[v].house # tx'[t].house
    BY DEF CountInv, Expels
  <2>0. CountInv /\ "removals" \notin raced /\ "removals" \notin Races(s, op, e, h)
    BY <1>2 DEF ExpelInv
  <2>1. Expels(tx'[t]) => Remains(tx'[t])
    <3>1. CASE t = s
      BY <1>0, <1>1, <3>1 DEF Expels
    <3>2. CASE t # s
      BY <1>0, <2>0, <3>2 DEF CountInv
    <3> QED
      BY <3>1, <3>2
  <2>2. Remains(tx'[t]) => Remains(tx[t])'
    BY <1>2 DEF Remains
  <2>3. op = "remove" => \A v \in Sessions \ {s} : tx[v].op = "remove" => tx[v].house # h
    <3>1. op = "remove" => \A v \in Others(s) : tx[v].op = "remove" => tx[v].house # h
      BY <2>0 DEF Races, Kinds
    <3>2. \A v \in Sessions : tx[v].pc = "idle" => tx[v].op = "none"
      BY DEF TypeInv, PlaceOK
    <3> QED
      BY <3>1, <3>2 DEF Others
  <2>4. ASSUME NEW v \in Sessions \ {t}, tx'[v].op = "remove"
        PROVE  tx'[v].house # tx'[t].house
    <3>1. CASE t = s
      BY <1>0, <1>1, <2>3, <2>4, <3>1
    <3>2. CASE v = s
      BY <1>0, <1>1, <2>3, <2>4, <3>2
    <3>3. CASE t # s /\ v # s
      BY <1>0, <2>0, <2>4, <3>3 DEF CountInv
    <3> QED
      BY <3>1, <3>2, <3>3
  <2> QED
    BY <2>1, <2>2, <2>4
<1> QED
  BY <1>3, <1>4, <1>5 DEF ExpelInv

\* What the commit of s leaves of the others.
LEMMA CommitOthers ==
  ASSUME TypeInv, NEW s \in Sessions, Commit(s), NEW t \in Sessions \ {s}
  PROVE  /\ tx'[t].pc = tx[t].pc /\ tx'[t].op = tx[t].op /\ tx'[t].email = tx[t].email
         /\ tx'[t].house = tx[t].house /\ tx'[t].loaded = StillThere(s, t)
         /\ tx'[t].founds = tx[t].founds /\ tx'[t].joins = tx[t].joins
         /\ tx'[t].invites = tx[t].invites /\ tx'[t].drops = tx[t].drops
         /\ tx'[t].expels = tx[t].expels /\ tx'[t].wipes = tx[t].wipes
<1>1. tx[t] \in Transaction
  BY DEF TypeInv, TypeOK
<1>2. tx'[t] = [tx[t] EXCEPT !.loaded = StillThere(s, t)]
  BY DEF Commit
<1> QED
  BY <1>1, <1>2 DEF Transaction

\* Members stay but for those the commit removes.
LEMMA MembersStay ==
  ASSUME ExpelInv, NEW s \in Sessions, Commit(s), NEW e \in Emails,
         member[e] # None, e \notin tx[s].expels
  PROVE  member'[e] = member[e]
<1>1. tx[s].joins => member[tx[s].email] = None
  BY DEF ExpelInv, ExpelOK
<1>2. member'[e] = IF e \in tx[s].expels THEN None
                   ELSE IF tx[s].joins /\ e = tx[s].email THEN tx[s].house ELSE member[e]
  BY DEF Commit
<1> QED
  BY <1>1, <1>2

\* If one of a household is removed, all are, or two removals overlap.
LEMMA RemovesOneOrAll ==
  ASSUME TypeInv, WriteInv, ExpelInv, NEW s \in Sessions, Commit(s),
         NEW e \in Emails, e \in tx[s].expels
  PROVE  /\ member[e] = tx[s].house /\ tx[s].house \in Households
         /\ \/ tx[s].op = "remove"
            \/ tx[s].wipes /\ MembersOf(tx[s].house) \subseteq tx[s].expels
<1>1. ExpelOK(tx[s]) /\ PlaceOK(tx[s]) /\ WipesAll(s) /\ tx[s].pc = "commit"
  BY DEF ExpelInv, TypeInv, WriteInv, Commit
<1>2. tx[s].op \in {"remove", "delete"}
  BY <1>1 DEF ExpelOK
<1> QED
  BY <1>1, <1>2 DEF ExpelOK, PlaceOK, WipesAll, MembersOf

LEMMA CommitExpel ==
  ASSUME TypeInv, WriteInv, ExpelInv, NEW s \in Sessions, Commit(s)
  PROVE  ExpelInv'
<1> DEFINE w == tx[s]
<1>1. /\ tx'[s].pc = "idle" /\ tx'[s].op = "none" /\ tx'[s].expels = {} /\ ~tx'[s].joins
  BY DEF Commit, NoTransaction
<1>2. None \notin Households
  BY HouseholdAssumption
<1>3. ASSUME NEW t \in Sessions \ {s} PROVE ExpelOK(tx[t])'
  <2>1. ExpelOK(tx[t]) /\ PlaceOK(tx[t]) /\ Apart(tx[t], tx[s])
    BY DEF ExpelInv, TypeInv
  <2>2. tx[t].joins => member'[tx[t].email] = None
    <3> SUFFICES ASSUME tx[t].joins PROVE member'[tx[t].email] = None
      OBVIOUS
    <3>1. tx[t].email \in Emails /\ member[tx[t].email] = None
      BY <2>1 DEF ExpelOK
    <3>2. tx[s].joins => tx[s].email # tx[t].email
      BY <2>1 DEF Apart
    <3> QED
      BY <3>1, <3>2 DEF Commit
  <2>3. tx[t].op = "remove" /\ tx'[t].loaded => member'[tx[t].email] = tx[t].house
    <3> SUFFICES ASSUME tx[t].op = "remove", tx'[t].loaded
                 PROVE  member'[tx[t].email] = tx[t].house
      OBVIOUS
    <3>1. StillThere(s, t)
      BY CommitOthers
    <3>2. tx[t].loaded /\ tx[t].email \notin tx[s].expels
      BY <3>1 DEF StillThere
    <3>3. tx[t].email \in Emails /\ member[tx[t].email] = tx[t].house /\ tx[t].house # None
      BY <1>2, <2>1, <3>2 DEF ExpelOK
    <3> QED
      BY <3>2, <3>3, MembersStay
  <2>4. \A e \in tx[t].expels : e \in Emails /\ member'[e] = tx'[t].house
    <3> TAKE e \in tx[t].expels
    <3>1. e \in Emails /\ member[e] = tx[t].house /\ e \notin tx[s].expels
      BY <2>1 DEF ExpelOK, Apart, MembersOf
    <3>2. tx[t].house \in Households
      BY <2>1 DEF ExpelOK, PlaceOK
    <3>3. member'[e] = member[e]
      BY <1>2, <3>1, <3>2, MembersStay
    <3> QED
      BY <3>1, <3>3, CommitOthers
  <2> QED
    BY <2>1, <2>2, <2>3, <2>4, CommitOthers DEF ExpelOK, MembersOf
<1>4. \A t \in Sessions : ExpelOK(tx[t])'
  <2>1. ExpelOK(tx[s])'
    BY <1>1 DEF ExpelOK, Entering, Looks
  <2> QED
    BY <1>3, <2>1
<1>5. \A t \in Sessions : \A v \in Sessions \ {t} : Apart(tx[t], tx[v])'
  <2> TAKE t \in Sessions
  <2> TAKE v \in Sessions \ {t}
  <2>1. CASE t = s \/ v = s
    BY <1>1, <2>1 DEF Apart
  <2>2. CASE t # s /\ v # s
    <3>1. Apart(tx[t], tx[v])
      BY DEF ExpelInv
    <3> QED
      BY <2>2, <3>1, CommitOthers DEF Apart
  <2> QED
    BY <2>1, <2>2
<1>6. CountInv'
  <2> SUFFICES ASSUME "removals" \notin raced, NEW t \in Sessions, tx'[t].op = "remove"
               PROVE  /\ Expels(tx'[t]) => Remains(tx[t])'
                      /\ \A v \in Sessions \ {t} :
                           tx'[v].op = "remove" => tx'[v].house # tx'[t].house
    BY DEF CountInv, Expels, Commit
  <2>0. CountInv /\ t # s /\ tx[t].op = "remove"
    BY <1>1, CommitOthers DEF ExpelInv
  <2>1. ExpelOK(tx[t]) /\ Apart(tx[t], tx[s])
    BY <2>0 DEF ExpelInv
  <2>2. \A v \in Sessions \ {t} : tx'[v].op = "remove" => tx'[v].house # tx'[t].house
    BY <1>1, <2>0, CommitOthers DEF CountInv
  <2>3. ASSUME Expels(tx'[t]) PROVE Remains(tx[t])'
    <3>1. Expels(tx[t]) /\ (tx[t].expels = {} => StillThere(s, t))
      BY <2>0, <2>3, CommitOthers DEF Expels, StillThere
    <3>2. PICK f \in Emails \ {tx[t].email} : member[f] = tx[t].house
      BY <2>0, <3>1 DEF CountInv, Remains
    <3>3. member[f] # None
      BY <1>2, <2>0, <2>1, <3>2 DEF ExpelOK
    <3>4. f \notin tx[s].expels
      <4> SUFFICES ASSUME f \in tx[s].expels PROVE FALSE
        OBVIOUS
      <4>1. /\ tx[s].house = tx[t].house
            /\ \/ tx[s].op = "remove"
               \/ MembersOf(tx[s].house) \subseteq tx[s].expels
        BY <3>2, RemovesOneOrAll
      <4>2. tx[s].op # "remove"
        BY <2>0, <4>1 DEF CountInv
      <4>3. tx[t].email \in Emails /\ member[tx[t].email] = tx[t].house
        <5>1. CASE tx[t].expels = {}
          BY <2>0, <2>1, <3>1, <5>1 DEF ExpelOK, StillThere
        <5>2. CASE tx[t].expels # {}
          BY <2>0, <2>1, <5>2 DEF ExpelOK, MembersOf
        <5> QED
          BY <5>1, <5>2
      <4>4. tx[t].email \in tx[s].expels
        BY <4>1, <4>2, <4>3 DEF MembersOf
      <4>5. CASE tx[t].expels = {}
        BY <2>0, <3>1, <4>4, <4>5 DEF StillThere
      <4>6. CASE tx[t].expels # {}
        BY <2>0, <2>1, <4>4, <4>6 DEF ExpelOK, Apart
      <4> QED
        BY <4>5, <4>6
    <3>5. member'[f] = tx[t].house
      BY <3>2, <3>3, <3>4, MembersStay
    <3> QED
      BY <2>0, <3>2, <3>5, CommitOthers DEF Remains
  <2> QED
    BY <2>2, <2>3
<1> QED
  BY <1>4, <1>5, <1>6 DEF ExpelInv

LEMMA ExpelStep == TypeInv /\ WriteInv /\ ExpelInv /\ [Next]_vars => ExpelInv'
<1> SUFFICES ASSUME TypeInv, WriteInv, ExpelInv, [Next]_vars PROVE ExpelInv'
  OBVIOUS
<1>1. ASSUME member' = member, tx' = tx, raced' = raced PROVE ExpelInv'
  <2>1. \A s \in Sessions : ExpelOK(tx[s])'
    BY <1>1 DEF ExpelInv, ExpelOK, MembersOf
  <2>2. \A s \in Sessions : \A t \in Sessions \ {s} : Apart(tx[s], tx[t])'
    BY <1>1 DEF ExpelInv, Apart
  <2>3. CountInv'
    BY <1>1 DEF ExpelInv, CountInv, Remains, Expels
  <2> QED
    BY <2>1, <2>2, <2>3 DEF ExpelInv
<1>2. CASE UNCHANGED vars
  BY <1>1, <1>2 DEF vars
<1>3. ASSUME NEW e \in Emails, SignIn(e)
      PROVE  ExpelInv'
  BY <1>1, <1>3 DEF SignIn
<1>4. ASSUME NEW s \in Sessions, NEW e \in Emails, Login(s, e)
      PROVE  ExpelInv'
  BY <1>4, BeginExpel DEF Login
<1>5. ASSUME NEW s \in Sessions, NEW b \in Emails, NEW e \in Emails,
             Invite(s, b, e) \/ CancelInvite(s, b, e)
      PROVE  ExpelInv'
  BY <1>5, BeginExpel DEF Invite, CancelInvite
<1>6. ASSUME NEW s \in Sessions, NEW b \in Emails, NEW e \in Emails, RemoveMember(s, b, e)
      PROVE  ExpelInv'
  <2>1. PICK h \in users : /\ Begin(s, "remove", "count members", e, None, h, TRUE)
                           /\ member[e] = h
    BY <1>6 DEF RemoveMember
  <2>2. h \in Households /\ UNCHANGED Committed
    BY <1>6 DEF RemoveMember, TypeInv, TypeOK
  <2> QED
    BY <2>1, <2>2, BeginExpel
<1>7. ASSUME NEW s \in Sessions, NEW b \in Emails, NEW h \in Households,
             DeleteHousehold(s, b, h)
      PROVE  ExpelInv'
  BY <1>7, BeginExpel DEF DeleteHousehold
<1>8. ASSUME NEW s \in Sessions, Step(s)
      PROVE  ExpelInv'
  BY <1>8, EarlyExpel, InsertExpel, RemoveExpel, CommitExpel DEF Step
<1>9. ASSUME NEW s \in Sessions, Fail(s)
      PROVE  ExpelInv'
  BY <1>9, EndsExpel DEF Fail
<1> QED
  BY <1>2, <1>3, <1>4, <1>5, <1>6, <1>7, <1>8, <1>9 DEF Next

\* Only a commit changes who belongs to what.
LEMMA OnlyCommits ==
  ASSUME Next, \A s \in Sessions : ~Commit(s)
  PROVE  UNCHANGED <<allowed, users, member, invite>>
<1>1. ASSUME NEW s \in Sessions, Step(s)
      PROVE  UNCHANGED <<allowed, users, member, invite>>
  BY <1>1 DEF Step, LookForInvite, Primary, CountUsers, Pick, Found, Attach, LookForPending,
              PutInvite, DropInvite, CountMembers, Expel, DeleteInvites, DeleteIdentities,
              DeleteUser, Committed
<1> QED
  BY <1>1 DEF Next, SignIn, Login, Invite, CancelInvite, RemoveMember, DeleteHousehold, Fail,
              Committed

LEMMA SomeoneStays ==
  TypeInv /\ WriteInv /\ ExpelInv /\ [Next]_vars =>
    [\A h \in users \cap users' :
       MembersOf(h) # {} /\ "removals" \notin raced => MembersOf(h)' # {}]_vars
<1> SUFFICES ASSUME TypeInv, WriteInv, ExpelInv, Next, NEW h \in users \cap users',
                    MembersOf(h) # {}, "removals" \notin raced
             PROVE  MembersOf(h)' # {}
  OBVIOUS
<1>1. CASE \A s \in Sessions : ~Commit(s)
  <2>1. member' = member
    BY <1>1, OnlyCommits
  <2> QED
    BY <2>1 DEF MembersOf
<1>2. ASSUME NEW s \in Sessions, Commit(s) PROVE MembersOf(h)' # {}
  <2>1. h \in Households /\ h # None
    BY HouseholdAssumption DEF TypeInv, TypeOK
  <2>2. PICK e \in Emails : member[e] = h
    BY DEF MembersOf
  <2>3. \E f \in Emails : member[f] = h /\ f \notin tx[s].expels
    <3>1. CASE e \notin tx[s].expels
      BY <2>2, <3>1
    <3>2. CASE e \in tx[s].expels
      <4>1. tx[s].house = h /\ (tx[s].op = "remove" \/ tx[s].wipes)
        BY <1>2, <2>2, <3>2, RemovesOneOrAll
      <4>2. ~tx[s].wipes
        BY <1>2, <4>1 DEF Commit
      <4>3. ExpelOK(tx[s]) /\ CountInv
        BY DEF ExpelInv
      <4>4. Remains(tx[s])
        BY <3>2, <4>1, <4>2, <4>3 DEF CountInv, Expels
      <4>5. tx[s].expels \subseteq {tx[s].email}
        BY <4>1, <4>2, <4>3 DEF ExpelOK
      <4> QED
        BY <4>1, <4>4, <4>5 DEF Remains
    <3> QED
      BY <3>1, <3>2
  <2>4. PICK f \in Emails : member[f] = h /\ f \notin tx[s].expels
    BY <2>3
  <2>5. member'[f] = h
    BY <1>2, <2>1, <2>4, MembersStay
  <2> QED
    BY <2>5 DEF MembersOf
<1> QED
  BY <1>1, <1>2

\* Until two removals from one household overlap, a household that has members keeps
\* one: what remove_household_member has counted is still so at its commit, also when
\* others join, or the household is deleted, meanwhile.
THEOREM AMemberStays == Spec => LastMemberStays
<1>1. TypeInv /\ WriteInv /\ [Next]_vars => WriteInv'
  BY WriteStep
<1> QED
  BY <1>1, InitWrite, InitExpel, ExpelStep, SomeoneStays, TypeInvariant, PTL
     DEF Spec, LastMemberStays

-----------------------------------------------------------------------------
(* Who joins *)

\* What a transaction knows of the invites and the household it writes.
RowsOK(w) ==
  /\ w.pc \in {"look for pending", "put invite"} => w.op = "invite"
  /\ w.pc = "drop invite" => w.op \in {"login", "cancel"}
  /\ w.op \in {"login", "invite", "cancel"} => w.email \in Emails
  /\ w.founds => w.op = "login"
  /\ w.invites => w.op = "invite" /\ invite[w.email] = None
  /\ w.drops # {} => w.op \in {"login", "cancel", "delete"}
  /\ w.op \in {"login", "cancel"} => w.drops \subseteq {w.email}
  /\ w.op = "delete" => w.drops \subseteq InvitesOf(w.house)

\* No two transactions write the invite of one email.
Aside(v, w) ==
  /\ v.drops \cap w.drops = {}
  /\ v.invites /\ w.invites => v.email # w.email

NoMembers == \A e \in Emails : member[e] = None

\* Without ALLOWED_EMAILS a login goes where it is invited, if anyone is there.
AskOK(w) ==
  w.op = "login" /\ allowed = {} =>
    /\ w.pc # "primary"
    /\ w.pc \in {"count users", "pick"} => NoMembers
    /\ w.pc \in {"join", "attach", "drop invite", "commit"}
         => NoMembers \/ invite[w.email] = w.house \/ w.house \notin users

\* With ALLOWED_EMAILS there is one household.
ListOK(w) ==
  allowed # {} =>
    /\ w.op # "delete" /\ w.pc \notin {"count users", "pick"}
    /\ w.pc = "found" \/ w.founds => users = {}

OneHousehold == allowed # {} => \A g, h \in users : g = h

\* Until two first logins overlap; invites last until one overlaps a login.
LoginInv ==
  "logins" \notin raced =>
    /\ \A s \in Sessions : \A t \in Sessions \ {s} :
         ~(tx[s].op = "login" /\ tx[t].op = "login")
    /\ OneHousehold
    /\ \A s \in Sessions : ListOK(tx[s])
    /\ "invites" \notin raced => \A s \in Sessions : AskOK(tx[s])

JoinInv ==
  /\ \A s \in Sessions : RowsOK(tx[s])
  /\ \A s \in Sessions : \A t \in Sessions \ {s} : Aside(tx[s], tx[t])
  /\ LoginInv

LEMMA InitJoin == Init => JoinInv
<1> SUFFICES ASSUME Init PROVE JoinInv
  OBVIOUS
<1>1. \A s \in Sessions :
        /\ tx[s].pc = "idle" /\ tx[s].op = "none"
        /\ ~tx[s].founds /\ ~tx[s].invites /\ tx[s].drops = {}
  BY DEF Init, NoTransaction
<1>2. \A s \in Sessions : RowsOK(tx[s]) /\ AskOK(tx[s]) /\ ListOK(tx[s])
  BY <1>1 DEF RowsOK, AskOK, ListOK
<1>3. OneHousehold
  BY DEF Init, OneHousehold
<1> QED
  BY <1>1, <1>2, <1>3 DEF JoinInv, LoginInv, Aside

\* A step of s that writes nothing that others see.
LEMMA JoinTurn ==
  ASSUME TypeInv, JoinInv, NEW s \in Sessions, NEW w, tx' = [tx EXCEPT ![s] = w],
         UNCHANGED <<Committed, raced>>, RowsOK(w),
         \A t \in Sessions \ {s} : Aside(w, tx[t]),
         w.op \in {tx[s].op, "none"},
         "logins" \notin raced => ListOK(w) /\ ("invites" \notin raced => AskOK(w))
  PROVE  JoinInv'
<1>1. tx'[s] = w /\ \A t \in Sessions \ {s} : tx'[t] = tx[t]
  BY DEF TypeInv, TypeOK
<1>2. /\ allowed' = allowed /\ users' = users /\ member' = member /\ invite' = invite
      /\ raced' = raced
  BY DEF Committed
<1>3. ASSUME NEW t \in Sessions PROVE RowsOK(tx[t])'
  <2>1. RowsOK(tx'[t])
    BY <1>1 DEF JoinInv
  <2> QED
    BY <1>2, <2>1 DEF RowsOK, InvitesOf
<1>4. \A t \in Sessions : \A v \in Sessions \ {t} : Aside(tx[t], tx[v])'
  <2> TAKE t \in Sessions
  <2> TAKE v \in Sessions \ {t}
  <2>1. Aside(tx'[t], tx'[v])
    <3>1. CASE t = s
      BY <1>1, <3>1
    <3>2. CASE v = s
      BY <1>1, <3>2 DEF Aside
    <3>3. CASE t # s /\ v # s
      BY <1>1, <3>3 DEF JoinInv
    <3> QED
      BY <3>1, <3>2, <3>3
  <2> QED
    BY <2>1 DEF Aside
<1>5. LoginInv'
  <2> SUFFICES ASSUME "logins" \notin raced PROVE LoginInv'
    BY <1>2 DEF LoginInv
  <2>0. LoginInv
    BY DEF JoinInv
  <2>1. \A t \in Sessions : \A v \in Sessions \ {t} :
          ~(tx'[t].op = "login" /\ tx'[v].op = "login")
    BY <1>1, <2>0 DEF LoginInv
  <2>2. OneHousehold'
    BY <1>2, <2>0 DEF LoginInv, OneHousehold
  <2>3. ASSUME NEW t \in Sessions PROVE ListOK(tx[t])'
    <3>1. ListOK(tx'[t])
      BY <1>1, <2>0 DEF LoginInv
    <3> QED
      BY <1>2, <3>1 DEF ListOK
  <2>4. ASSUME "invites" \notin raced, NEW t \in Sessions PROVE AskOK(tx[t])'
    <3>1. AskOK(tx'[t])
      BY <1>1, <2>0, <2>4 DEF LoginInv
    <3> QED
      BY <1>2, <3>1 DEF AskOK, NoMembers
  <2> QED
    BY <1>2, <2>1, <2>2, <2>3, <2>4 DEF LoginInv
<1> QED
  BY <1>3, <1>4, <1>5 DEF JoinInv

LEMMA EndsJoin ==
  ASSUME TypeInv, JoinInv, NEW s \in Sessions, Ends(s), UNCHANGED <<Committed, raced>>
  PROVE  JoinInv'
<1> DEFINE w == NoTransaction
<1>1. w.pc = "idle" /\ w.op = "none" /\ ~w.founds /\ ~w.invites /\ w.drops = {}
  BY DEF NoTransaction
<1>2. tx' = [tx EXCEPT ![s] = w]
  BY DEF Ends
<1> HIDE DEF w
<1>3. RowsOK(w) /\ AskOK(w) /\ ListOK(w)
  BY <1>1 DEF RowsOK, AskOK, ListOK
<1>4. \A t \in Sessions \ {s} : Aside(w, tx[t])
  BY <1>1 DEF Aside
<1> QED
  BY <1>1, <1>2, <1>3, <1>4, JoinTurn

\* w is tx[s] at another place, where it writes no invite.
Heads(s, w) ==
  /\ tx' = [tx EXCEPT ![s] = w]
  /\ w.op = tx[s].op /\ w.email = tx[s].email
  /\ w.invites = tx[s].invites /\ w.drops = tx[s].drops
  /\ w.house = tx[s].house \/ tx[s].op = "login"
  /\ w.founds => tx[s].op = "login"
  /\ w.pc \in {"look for pending", "put invite"} => w.op = "invite"
  /\ w.pc = "drop invite" => w.op \in {"login", "cancel"}

LEMMA HeadsJoin ==
  ASSUME TypeInv, JoinInv, NEW s \in Sessions, NEW w, Heads(s, w),
         UNCHANGED <<Committed, raced>>,
         "logins" \notin raced => ListOK(w) /\ ("invites" \notin raced => AskOK(w))
  PROVE  JoinInv'
<1>1. RowsOK(tx[s]) /\ (\A t \in Sessions \ {s} : Aside(tx[s], tx[t]))
  BY DEF JoinInv
<1>2. RowsOK(w)
  BY <1>1 DEF RowsOK, Heads
<1>3. \A t \in Sessions \ {s} : Aside(w, tx[t])
  BY <1>1 DEF Aside, Heads
<1> QED
  BY <1>2, <1>3, JoinTurn DEF Heads

\* The steps of a login before it has found its household.
LEMMA LoginJoin ==
  ASSUME TypeInv, ExpelInv, JoinInv, NEW s \in Sessions,
         LookForInvite(s) \/ Primary(s) \/ CountUsers(s) \/ Pick(s) \/ Found(s)
  PROVE  JoinInv'
<1>0. tx[s] \in Transaction /\ PlaceOK(tx[s]) /\ UNCHANGED <<Committed, raced>>
  BY DEF LookForInvite, Primary, CountUsers, Pick, Found, TypeInv, TypeOK
<1>1. tx[s].op = "login" /\ ~tx[s].founds
  <2>1. tx[s].pc \in Looks
    BY DEF LookForInvite, Primary, CountUsers, Pick, Found, Looks
  <2> QED
    BY <1>0, <2>1 DEF ExpelInv, ExpelOK, Entering, PlaceOK
<1>2. "logins" \notin raced => /\ ListOK(tx[s])
                               /\ "invites" \notin raced => AskOK(tx[s])
  BY DEF JoinInv, LoginInv
<1>3. ASSUME NEW p \in Looks, tx' = [tx EXCEPT ![s].pc = p],
             "logins" \notin raced /\ allowed # {}
               => p \notin {"count users", "pick"} /\ (p = "found" => users = {}),
             "logins" \notin raced /\ "invites" \notin raced /\ allowed = {}
               => p # "primary" /\ (p \in {"count users", "pick"} => NoMembers)
      PROVE  JoinInv'
  <2> DEFINE w == [tx[s] EXCEPT !.pc = p]
  <2>1. tx' = [tx EXCEPT ![s] = w]
    BY <1>3 DEF TypeInv, TypeOK
  <2>2. /\ w.pc = p /\ w.op = tx[s].op /\ w.email = tx[s].email /\ w.house = tx[s].house
        /\ w.founds = tx[s].founds /\ w.invites = tx[s].invites /\ w.drops = tx[s].drops
    BY <1>0 DEF Transaction
  <2> HIDE DEF w
  <2>3. Heads(s, w)
    BY <1>1, <1>3, <2>1, <2>2 DEF Heads, Looks
  <2>4. "logins" \notin raced => ListOK(w)
    BY <1>1, <1>3, <2>2 DEF ListOK
  <2>5. "logins" \notin raced /\ "invites" \notin raced => AskOK(w)
    BY <1>3, <2>2 DEF AskOK, Looks
  <2> QED
    BY <1>0, <2>3, <2>4, <2>5, HeadsJoin
<1>4. ASSUME NEW w, tx' = [tx EXCEPT ![s] = w], w.pc \in {"join", "attach"},
             w.op = tx[s].op, w.email = tx[s].email, w.invites = tx[s].invites,
             w.drops = tx[s].drops,
             "logins" \notin raced /\ allowed # {} /\ w.founds => users = {},
             "logins" \notin raced /\ "invites" \notin raced /\ allowed = {}
               => NoMembers \/ invite[w.email] = w.house \/ w.house \notin users
      PROVE  JoinInv'
  <2>1. Heads(s, w)
    BY <1>1, <1>4 DEF Heads
  <2>2. "logins" \notin raced => ListOK(w)
    BY <1>1, <1>4 DEF ListOK
  <2>3. "logins" \notin raced /\ "invites" \notin raced => AskOK(w)
    BY <1>4 DEF AskOK
  <2> QED
    BY <1>0, <2>1, <2>2, <2>3, HeadsJoin
<1>5. CASE LookForInvite(s)
  <2> DEFINE e == tx[s].email
  <2>1. CASE tx' = [tx EXCEPT ![s].house = invite[e], ![s].loaded = TRUE, ![s].pc = "join"]
    <3> DEFINE w == [tx[s] EXCEPT !.house = invite[e], !.loaded = TRUE, !.pc = "join"]
    <3>1. tx' = [tx EXCEPT ![s] = w]
      BY <2>1 DEF TypeInv, TypeOK
    <3>2. /\ w.pc = "join" /\ w.op = tx[s].op /\ w.email = e /\ w.house = invite[e]
          /\ ~w.founds /\ w.invites = tx[s].invites /\ w.drops = tx[s].drops
      BY <1>0, <1>1 DEF Transaction
    <3> HIDE DEF w
    <3> QED
      BY <1>4, <3>1, <3>2
  <2>2. CASE allowed # {} /\ tx' = [tx EXCEPT ![s].pc = "primary"]
    BY <1>3, <2>2 DEF Looks
  <2>3. CASE allowed = {} /\ NoMembers /\ tx' = [tx EXCEPT ![s].pc = "count users"]
    BY <1>3, <2>3 DEF Looks
  <2>4. CASE allowed = {} /\ tx' = [tx EXCEPT ![s].pc = "found"]
    BY <1>3, <2>4 DEF Looks
  <2>5. CASE Ends(s)
    BY <1>0, <2>5, EndsJoin
  <2> QED
    BY <1>5, <2>1, <2>2, <2>3, <2>4, <2>5 DEF LookForInvite, NoMembers
<1>6. ASSUME NEW h, tx' = [tx EXCEPT ![s].house = h, ![s].pc = "attach"],
             "logins" \notin raced /\ "invites" \notin raced /\ allowed = {} => NoMembers
      PROVE  JoinInv'
  <2> DEFINE w == [tx[s] EXCEPT !.house = h, !.pc = "attach"]
  <2>1. tx' = [tx EXCEPT ![s] = w]
    BY <1>6 DEF TypeInv, TypeOK
  <2>2. /\ w.pc = "attach" /\ w.op = tx[s].op /\ w.email = tx[s].email
        /\ ~w.founds /\ w.invites = tx[s].invites /\ w.drops = tx[s].drops
    BY <1>0, <1>1 DEF Transaction
  <2> HIDE DEF w
  <2> QED
    BY <1>4, <1>6, <2>1, <2>2
<1>7. CASE Primary(s)
  <2>1. "logins" \notin raced /\ "invites" \notin raced => allowed # {}
    BY <1>1, <1>2, <1>7 DEF Primary, AskOK
  <2>2. CASE users = {} /\ tx' = [tx EXCEPT ![s].pc = "found"]
    BY <1>3, <2>1, <2>2 DEF Looks
  <2>3. ASSUME NEW h, tx' = [tx EXCEPT ![s].house = h, ![s].pc = "attach"] PROVE JoinInv'
    BY <1>6, <2>1, <2>3
  <2> QED
    BY <1>7, <2>2, <2>3 DEF Primary
<1>8. CASE CountUsers(s)
  <2>1. "logins" \notin raced => /\ allowed = {}
                                 /\ "invites" \notin raced => NoMembers
    BY <1>1, <1>2, <1>8 DEF CountUsers, AskOK, ListOK
  <2>2. tx' = [tx EXCEPT ![s].pc = "pick"] \/ tx' = [tx EXCEPT ![s].pc = "found"]
    BY <1>8 DEF CountUsers
  <2> QED
    BY <1>3, <2>1, <2>2 DEF Looks
<1>9. CASE Pick(s)
  <2>1. "logins" \notin raced /\ "invites" \notin raced /\ allowed = {} => NoMembers
    BY <1>1, <1>2, <1>9 DEF Pick, AskOK
  <2> QED
    BY <1>0, <1>6, <1>9, <2>1, EndsJoin DEF Pick
<1>10. CASE Found(s)
  <2>1. PICK h \in Households :
          /\ h \notin users
          /\ tx' = [tx EXCEPT ![s].house = h, ![s].founds = TRUE, ![s].pc = "attach"]
    BY <1>10 DEF Found, IsUnknown
  <2> DEFINE w == [tx[s] EXCEPT !.house = h, !.founds = TRUE, !.pc = "attach"]
  <2>2. tx' = [tx EXCEPT ![s] = w]
    BY <2>1 DEF TypeInv, TypeOK
  <2>3. /\ w.pc = "attach" /\ w.op = tx[s].op /\ w.email = tx[s].email /\ w.house = h
        /\ w.invites = tx[s].invites /\ w.drops = tx[s].drops
    BY <1>0 DEF Transaction
  <2> HIDE DEF w
  <2>4. "logins" \notin raced /\ allowed # {} => users = {}
    BY <1>2, <1>10 DEF Found, ListOK
  <2> QED
    BY <1>4, <2>1, <2>2, <2>3, <2>4
<1> QED
  BY <1>5, <1>7, <1>8, <1>9, <1>10

\* The INSERT of an identity or an invite.
LEMMA InsertJoin ==
  ASSUME TypeInv, ExpelInv, JoinInv, NEW s \in Sessions, Attach(s) \/ PutInvite(s)
  PROVE  JoinInv'
<1>0. tx[s] \in Transaction /\ PlaceOK(tx[s]) /\ UNCHANGED <<Committed, raced>>
  BY DEF Attach, PutInvite, TypeInv, TypeOK
<1>1. /\ RowsOK(tx[s]) /\ (\A t \in Sessions \ {s} : Aside(tx[s], tx[t]))
      /\ "logins" \notin raced => /\ ListOK(tx[s])
                                  /\ "invites" \notin raced => AskOK(tx[s])
  BY DEF JoinInv, LoginInv
<1>2. CASE Ends(s)
  BY <1>0, <1>2, EndsJoin
<1>3. CASE Attach(s) /\ ~Ends(s)
  <2> DEFINE p == IF tx[s].pc = "join" THEN "drop invite" ELSE "commit"
             w == [tx[s] EXCEPT !.joins = TRUE, !.pc = p]
  <2>1. tx[s].pc \in {"attach", "join"} /\ tx' = [tx EXCEPT ![s] = w]
    BY <1>3 DEF Attach, TypeInv, TypeOK
  <2>2. /\ w.pc = p /\ w.op = tx[s].op /\ w.email = tx[s].email /\ w.house = tx[s].house
        /\ w.founds = tx[s].founds /\ w.invites = tx[s].invites /\ w.drops = tx[s].drops
    BY <1>0 DEF Transaction
  <2>3. tx[s].op = "login"
    BY <2>1 DEF ExpelInv, ExpelOK, Entering
  <2> HIDE DEF w
  <2>4. Heads(s, w)
    BY <2>1, <2>2, <2>3 DEF Heads
  <2>5. "logins" \notin raced => ListOK(w)
    BY <1>1, <2>2 DEF ListOK
  <2>6. "logins" \notin raced /\ "invites" \notin raced => AskOK(w)
    BY <1>1, <2>1, <2>2 DEF AskOK
  <2> QED
    BY <1>0, <2>4, <2>5, <2>6, HeadsJoin
<1>4. CASE PutInvite(s) /\ ~Ends(s)
  <2> DEFINE w == [tx[s] EXCEPT !.invites = TRUE, !.pc = "commit"]
  <2>1. /\ tx[s].pc = "put invite" /\ tx' = [tx EXCEPT ![s] = w]
        /\ invite[tx[s].email] = None
        /\ \A t \in Others(s) : ~(tx[t].invites /\ tx[t].email = tx[s].email)
    BY <1>4 DEF PutInvite, TypeInv, TypeOK
  <2>2. /\ w.pc = "commit" /\ w.op = tx[s].op /\ w.email = tx[s].email
        /\ w.founds = tx[s].founds /\ w.drops = tx[s].drops
    BY <1>0 DEF Transaction
  <2>3. tx[s].op = "invite"
    BY <1>1, <2>1 DEF RowsOK
  <2> HIDE DEF w
  <2>4. RowsOK(w)
    BY <1>1, <2>1, <2>2, <2>3 DEF RowsOK
  <2>5. \A t \in Sessions \ {s} : Aside(w, tx[t])
    <3>1. \A t \in Sessions : tx[t].pc = "idle" => ~tx[t].invites
      BY DEF TypeInv, PlaceOK
    <3> QED
      BY <1>1, <2>1, <2>2, <3>1 DEF Aside, Others
  <2>6. "logins" \notin raced => ListOK(w)
    BY <1>1, <2>2, <2>3 DEF ListOK
  <2>7. AskOK(w)
    BY <2>2, <2>3 DEF AskOK
  <2> QED
    BY <1>0, <2>1, <2>2, <2>4, <2>5, <2>6, <2>7, JoinTurn
<1> QED
  BY <1>2, <1>3, <1>4

\* The steps of invites and removals that write no invite.
LEMMA OtherJoin ==
  ASSUME TypeInv, ExpelInv, JoinInv, NEW s \in Sessions,
         LookForPending(s) \/ CountMembers(s) \/ Expel(s) \/ DeleteIdentities(s)
  PROVE  JoinInv'
<1>0. tx[s] \in Transaction /\ PlaceOK(tx[s]) /\ UNCHANGED <<Committed, raced>>
  BY DEF LookForPending, CountMembers, Expel, DeleteIdentities, TypeInv, TypeOK
<1>1. RowsOK(tx[s]) /\ ("logins" \notin raced => ListOK(tx[s]))
  BY DEF JoinInv, LoginInv
<1>2. ASSUME NEW w, tx' = [tx EXCEPT ![s] = w], tx[s].op # "login",
             w.pc \in {"put invite", "expel", "delete user", "commit"},
             w.pc = "put invite" => tx[s].op = "invite",
             w.op = tx[s].op, w.email = tx[s].email, w.house = tx[s].house,
             w.founds = tx[s].founds, w.invites = tx[s].invites, w.drops = tx[s].drops
      PROVE  JoinInv'
  <2>1. Heads(s, w)
    BY <1>1, <1>2 DEF Heads, RowsOK
  <2>2. "logins" \notin raced => ListOK(w)
    BY <1>1, <1>2 DEF ListOK
  <2>3. AskOK(w)
    BY <1>2 DEF AskOK
  <2> QED
    BY <1>0, <2>1, <2>2, <2>3, HeadsJoin
<1>3. CASE Ends(s)
  BY <1>0, <1>3, EndsJoin
<1>4. CASE LookForPending(s) /\ ~Ends(s)
  <2> DEFINE w == [tx[s] EXCEPT !.pc = "put invite"]
  <2>1. tx' = [tx EXCEPT ![s] = w] /\ tx[s].op = "invite"
    BY <1>1, <1>4 DEF LookForPending, RowsOK, TypeInv, TypeOK
  <2>2. /\ w.pc = "put invite" /\ w.op = tx[s].op /\ w.email = tx[s].email
        /\ w.house = tx[s].house /\ w.founds = tx[s].founds
        /\ w.invites = tx[s].invites /\ w.drops = tx[s].drops
    BY <1>0 DEF Transaction
  <2> HIDE DEF w
  <2> QED
    BY <1>2, <2>1, <2>2
<1>5. CASE CountMembers(s) /\ ~Ends(s)
  <2> DEFINE w == [tx[s] EXCEPT !.pc = "expel"]
  <2>1. tx' = [tx EXCEPT ![s] = w] /\ tx[s].op = "remove"
    BY <1>5 DEF CountMembers, ExpelInv, ExpelOK, TypeInv, TypeOK
  <2>2. /\ w.pc = "expel" /\ w.op = tx[s].op /\ w.email = tx[s].email
        /\ w.house = tx[s].house /\ w.founds = tx[s].founds
        /\ w.invites = tx[s].invites /\ w.drops = tx[s].drops
    BY <1>0 DEF Transaction
  <2> HIDE DEF w
  <2> QED
    BY <1>2, <2>1, <2>2
<1>6. CASE Expel(s)
  <2> DEFINE gone == IF tx[s].loaded THEN {tx[s].email} ELSE {}
             w == [tx[s] EXCEPT !.pc = "commit", !.expels = gone]
  <2>1. tx' = [tx EXCEPT ![s] = w] /\ tx[s].op = "remove"
    BY <1>6 DEF Expel, ExpelInv, ExpelOK, TypeInv, TypeOK
  <2>2. /\ w.pc = "commit" /\ w.op = tx[s].op /\ w.email = tx[s].email
        /\ w.house = tx[s].house /\ w.founds = tx[s].founds
        /\ w.invites = tx[s].invites /\ w.drops = tx[s].drops
    BY <1>0 DEF Transaction
  <2> HIDE DEF w
  <2> QED
    BY <1>2, <2>1, <2>2
<1>7. CASE DeleteIdentities(s)
  <2> DEFINE w == [tx[s] EXCEPT !.expels = MembersOf(tx[s].house), !.pc = "delete user"]
  <2>1. tx' = [tx EXCEPT ![s] = w] /\ tx[s].op = "delete"
    BY <1>0, <1>7 DEF DeleteIdentities, PlaceOK, Deletes, TypeInv, TypeOK
  <2>2. /\ w.pc = "delete user" /\ w.op = tx[s].op /\ w.email = tx[s].email
        /\ w.house = tx[s].house /\ w.founds = tx[s].founds
        /\ w.invites = tx[s].invites /\ w.drops = tx[s].drops
    BY <1>0 DEF Transaction
  <2> HIDE DEF w
  <2> QED
    BY <1>2, <2>1, <2>2
<1> QED
  BY <1>3, <1>4, <1>5, <1>6, <1>7

\* The steps that delete invites.
LEMMA DropJoin ==
  ASSUME TypeInv, JoinInv, NEW s \in Sessions,
         DropInvite(s) \/ DeleteInvites(s) \/ DeleteUser(s)
  PROVE  JoinInv'
<1>0. tx[s] \in Transaction /\ PlaceOK(tx[s]) /\ UNCHANGED <<Committed, raced>>
  BY DEF DropInvite, DeleteInvites, DeleteUser, TypeInv, TypeOK
<1>1. /\ RowsOK(tx[s]) /\ (\A t \in Sessions \ {s} : Aside(tx[s], tx[t]))
      /\ "logins" \notin raced => /\ ListOK(tx[s])
                                  /\ "invites" \notin raced => AskOK(tx[s])
  BY DEF JoinInv, LoginInv
<1>2. \A t \in Sessions : tx[t].pc = "idle" => tx[t].drops = {}
  <2>1. \A t \in Sessions : RowsOK(tx[t]) /\ (tx[t].pc = "idle" => tx[t].op = "none")
    BY DEF JoinInv, TypeInv, PlaceOK
  <2> QED
    BY <2>1 DEF RowsOK
<1>3. CASE DropInvite(s)
  <2> DEFINE gone == IF tx[s].loaded THEN {tx[s].email} ELSE {}
             w == [tx[s] EXCEPT !.pc = "commit", !.drops = gone]
  <2>1. /\ tx[s].pc = "drop invite" /\ tx' = [tx EXCEPT ![s] = w]
        /\ \A t \in Others(s) : tx[s].email \notin tx[t].drops
    BY <1>3 DEF DropInvite, TypeInv, TypeOK
  <2>2. /\ w.pc = "commit" /\ w.op = tx[s].op /\ w.email = tx[s].email
        /\ w.house = tx[s].house /\ w.founds = tx[s].founds
        /\ w.invites = tx[s].invites /\ w.drops = gone
    BY <1>0 DEF Transaction
  <2>3. tx[s].op \in {"login", "cancel"}
    BY <1>1, <2>1 DEF RowsOK
  <2> HIDE DEF w
  <2>4. RowsOK(w)
    BY <1>1, <2>2, <2>3 DEF RowsOK
  <2>5. \A t \in Sessions \ {s} : Aside(w, tx[t])
    BY <1>1, <1>2, <2>1, <2>2 DEF Aside, Others
  <2>6. "logins" \notin raced => ListOK(w)
    BY <1>1, <2>2 DEF ListOK
  <2>7. "logins" \notin raced /\ "invites" \notin raced => AskOK(w)
    BY <1>1, <2>1, <2>2 DEF AskOK
  <2> QED
    BY <1>0, <2>1, <2>2, <2>4, <2>5, <2>6, <2>7, JoinTurn
<1>4. ASSUME NEW w, tx' = [tx EXCEPT ![s] = w], tx[s].op = "delete",
             w.op = tx[s].op, w.house = tx[s].house, w.invites = tx[s].invites,
             w.founds = tx[s].founds, w.pc \in {"delete identities", "commit"},
             w.drops \subseteq tx[s].drops \cup InvitesOf(tx[s].house),
             \A t \in Others(s) : InvitesOf(tx[s].house) \cap tx[t].drops = {}
      PROVE  JoinInv'
  <2>1. RowsOK(w)
    BY <1>1, <1>4 DEF RowsOK
  <2>2. ASSUME NEW t \in Sessions \ {s} PROVE Aside(w, tx[t])
    <3>1. InvitesOf(tx[s].house) \cap tx[t].drops = {}
      BY <1>2, <1>4 DEF Others
    <3>2. tx[s].drops \cap tx[t].drops = {} /\ ~tx[s].invites
      BY <1>1, <1>4 DEF Aside, RowsOK
    <3> QED
      BY <1>4, <3>1, <3>2 DEF Aside
  <2>3. "logins" \notin raced => ListOK(w)
    BY <1>1, <1>4 DEF ListOK
  <2>4. AskOK(w)
    BY <1>4 DEF AskOK
  <2> QED
    BY <1>0, <1>4, <2>1, <2>2, <2>3, <2>4, JoinTurn
<1>5. CASE DeleteInvites(s)
  <2> DEFINE w == [tx[s] EXCEPT !.drops = InvitesOf(tx[s].house), !.pc = "delete identities"]
  <2>1. /\ tx[s].pc = "delete invites" /\ tx' = [tx EXCEPT ![s] = w]
        /\ \A t \in Others(s) : InvitesOf(tx[s].house) \cap tx[t].drops = {}
    BY <1>5 DEF DeleteInvites, TypeInv, TypeOK
  <2>2. /\ w.pc = "delete identities" /\ w.op = tx[s].op /\ w.house = tx[s].house
        /\ w.founds = tx[s].founds /\ w.invites = tx[s].invites
        /\ w.drops = InvitesOf(tx[s].house)
    BY <1>0 DEF Transaction
  <2>3. tx[s].op = "delete"
    BY <1>0, <2>1 DEF PlaceOK, Deletes
  <2> HIDE DEF w
  <2> QED
    BY <1>4, <2>1, <2>2, <2>3
<1>6. CASE DeleteUser(s)
  <2>1. PICK w : Wiped(s, w)
    BY <1>6, WipeShape
  <2>2. /\ w.pc = "commit" /\ w.op = tx[s].op /\ w.house = tx[s].house
        /\ w.founds = tx[s].founds /\ w.invites = tx[s].invites
        /\ w.drops = tx[s].drops \cup InvitesOf(tx[s].house)
    BY <1>0, <2>1 DEF Wiped, Transaction
  <2>3. tx[s].op = "delete"
    BY <1>0, <2>1 DEF Wiped, PlaceOK, Deletes
  <2>4. /\ tx' = [tx EXCEPT ![s] = w]
        /\ \A t \in Others(s) : InvitesOf(tx[s].house) \cap tx[t].drops = {}
    BY <2>1 DEF Wiped, RowsAreFree
  <2> QED
    BY <1>4, <2>2, <2>3, <2>4
<1> QED
  BY <1>3, <1>5, <1>6

\* A transaction begins: a first login beside another is a race.
LEMMA BeginJoin ==
  ASSUME TypeInv, JoinInv, NEW s \in Sessions, NEW op, NEW pc, NEW e, NEW h, NEW own,
         NEW loaded, Begin(s, op, pc, e, own, h, loaded), UNCHANGED Committed,
         \/ op = "login" /\ pc = "look for invite" /\ e \in Emails
         \/ op = "invite" /\ pc = "look for pending" /\ e \in Emails
         \/ op = "cancel" /\ pc = "drop invite" /\ e \in Emails
         \/ op = "remove" /\ pc = "count members"
         \/ /\ op = "delete" /\ pc = "delete invites"
            /\ {own, h} \subseteq users /\ own # h
  PROVE  JoinInv'
<1> DEFINE w == [NoTransaction EXCEPT !.pc = pc, !.op = op, !.email = e, !.by = own,
                   !.house = h, !.loaded = loaded]
<1>0. tx'[s] = w /\ \A t \in Sessions \ {s} : tx'[t] = tx[t]
  BY DEF Begin, TypeInv, TypeOK
<1>1. w.pc = pc /\ w.op = op /\ w.email = e /\ w.drops = {} /\ ~w.founds /\ ~w.invites
  BY DEF NoTransaction
<1> HIDE DEF w
<1>2. /\ allowed' = allowed /\ users' = users /\ member' = member /\ invite' = invite
      /\ raced' = raced \cup Races(s, op, e, h)
  BY DEF Begin, Committed
<1>3. RowsOK(w)
  BY <1>1 DEF RowsOK
<1>4. ASSUME NEW t \in Sessions PROVE RowsOK(tx[t])'
  <2>1. RowsOK(tx'[t])
    BY <1>0, <1>3 DEF JoinInv
  <2> QED
    BY <1>2, <2>1 DEF RowsOK, InvitesOf
<1>5. \A t \in Sessions : \A v \in Sessions \ {t} : Aside(tx[t], tx[v])'
  <2> TAKE t \in Sessions
  <2> TAKE v \in Sessions \ {t}
  <2>1. CASE t = s \/ v = s
    BY <1>0, <1>1, <2>1 DEF Aside
  <2>2. CASE t # s /\ v # s
    BY <1>0, <2>2 DEF JoinInv, Aside
  <2> QED
    BY <2>1, <2>2
<1>6. LoginInv'
  <2> SUFFICES ASSUME "logins" \notin raced' PROVE LoginInv'
    BY DEF LoginInv
  <2>0. LoginInv /\ "logins" \notin raced /\ "logins" \notin Races(s, op, e, h)
    BY <1>2 DEF JoinInv
  <2>1. op = "login" => \A t \in Sessions \ {s} : tx[t].op # "login"
    <3>1. op = "login" => \A t \in Others(s) : tx[t].op # "login"
      BY <2>0 DEF Races, Kinds
    <3>2. \A t \in Sessions : tx[t].pc = "idle" => tx[t].op = "none"
      BY DEF TypeInv, PlaceOK
    <3> QED
      BY <3>1, <3>2 DEF Others
  <2>2. \A t \in Sessions : \A v \in Sessions \ {t} :
          ~(tx'[t].op = "login" /\ tx'[v].op = "login")
    <3> TAKE t \in Sessions
    <3> TAKE v \in Sessions \ {t}
    <3>1. CASE t = s
      BY <1>0, <1>1, <2>1, <3>1
    <3>2. CASE v = s
      BY <1>0, <1>1, <2>1, <3>2
    <3>3. CASE t # s /\ v # s
      BY <1>0, <2>0, <3>3 DEF LoginInv
    <3> QED
      BY <3>1, <3>2, <3>3
  <2>3. OneHousehold'
    BY <1>2, <2>0 DEF LoginInv, OneHousehold
  <2>4. ListOK(w)
    <3>1. allowed # {} => op # "delete"
      BY <2>0 DEF LoginInv, OneHousehold
    <3> QED
      BY <1>1, <3>1 DEF ListOK
  <2>5. ASSUME NEW t \in Sessions PROVE ListOK(tx[t])'
    <3>1. ListOK(tx'[t])
      BY <1>0, <2>0, <2>4 DEF LoginInv
    <3> QED
      BY <1>2, <3>1 DEF ListOK
  <2>6. AskOK(w)
    BY <1>1 DEF AskOK
  <2>7. ASSUME "invites" \notin raced', NEW t \in Sessions PROVE AskOK(tx[t])'
    <3>1. AskOK(tx'[t])
      BY <1>0, <1>2, <2>0, <2>6, <2>7 DEF LoginInv
    <3> QED
      BY <1>2, <3>1 DEF AskOK, NoMembers
  <2> QED
    BY <2>2, <2>3, <2>5, <2>7 DEF LoginInv
<1> QED
  BY <1>4, <1>5, <1>6 DEF JoinInv

LEMMA CommitRows ==
  ASSUME TypeInv, JoinInv, NEW s \in Sessions, Commit(s), NEW t \in Sessions \ {s}
  PROVE  RowsOK(tx[t])'
<1>1. RowsOK(tx[t]) /\ RowsOK(tx[s]) /\ PlaceOK(tx[t]) /\ Aside(tx[t], tx[s])
  BY DEF JoinInv, TypeInv
<1>2. \A e \in Emails : invite'[e] = IF e \in tx[s].drops THEN None
                                     ELSE IF tx[s].invites /\ e = tx[s].email THEN tx[s].house
                                     ELSE invite[e]
  BY DEF Commit
<1>3. tx[t].invites => invite'[tx[t].email] = None
  BY <1>1, <1>2 DEF RowsOK, Aside
<1>4. ASSUME tx[t].op = "delete", NEW e \in tx[t].drops
      PROVE  e \in Emails /\ invite'[e] = tx[t].house
  <2>1. e \in Emails /\ invite[e] = tx[t].house /\ e \notin tx[s].drops
    BY <1>1, <1>4 DEF RowsOK, Aside, InvitesOf
  <2>2. tx[t].house # None
    BY <1>1, <1>4, HouseholdAssumption DEF PlaceOK
  <2>3. tx[s].invites => tx[s].email # e
    BY <1>1, <2>1, <2>2 DEF RowsOK
  <2> QED
    BY <1>2, <2>1, <2>3
<1> QED
  BY <1>1, <1>3, <1>4, CommitOthers DEF RowsOK, InvitesOf

\* A first login beside the commit of another transaction that is none.
LEMMA CommitAsk ==
  ASSUME TypeInv, ExpelInv, UsedInv, JoinInv, NEW s \in Sessions, Commit(s),
         NEW t \in Sessions \ {s}, "logins" \notin raced, "invites" \notin raced
  PROVE  AskOK(tx[t])'
<1> SUFFICES ASSUME tx[t].op = "login", allowed = {} PROVE AskOK(tx[t])'
  BY CommitOthers DEF AskOK, Commit
<1>1. /\ AskOK(tx[t]) /\ RowsOK(tx[t]) /\ RowsOK(tx[s]) /\ ExpelOK(tx[s]) /\ PlaceOK(tx[s])
      /\ tx[s].op # "login"
  BY DEF JoinInv, LoginInv, ExpelInv, TypeInv
<1>2. ~tx[s].joins /\ ~tx[s].founds
  BY <1>1 DEF RowsOK, ExpelOK
<1>3. NoMembers => NoMembers'
  BY <1>2 DEF NoMembers, Commit
<1>4. users' \subseteq users
  BY <1>2 DEF Commit
<1>5. ASSUME invite[tx[t].email] = tx[t].house, tx[t].house \in users'
      PROVE  invite'[tx[t].email] = tx[t].house
  <2> DEFINE e == tx[t].email
  <2>1. e \in Emails /\ tx[t].house # None
    BY <1>1, <1>4, <1>5, HouseholdAssumption DEF RowsOK, TypeInv, TypeOK
  <2>2. tx[s].invites => tx[s].email # e
    BY <1>1, <1>5, <2>1 DEF RowsOK
  <2>3. e \notin tx[s].drops
    <3> SUFFICES ASSUME e \in tx[s].drops PROVE FALSE
      OBVIOUS
    <3>1. tx[s].op \in {"cancel", "delete"}
      BY <1>1 DEF RowsOK
    <3>2. CASE tx[s].op = "cancel"
      <4>1. tx[s].email = e
        BY <1>1, <3>2 DEF RowsOK
      <4>2. tx[s].email # e
        BY <3>2 DEF UsedInv
      <4> QED
        BY <4>1, <4>2
    <3>3. CASE tx[s].op = "delete"
      <4>1. tx[s].wipes /\ tx[s].house = tx[t].house
        BY <1>1, <1>5, <3>3 DEF ExpelOK, RowsOK, InvitesOf, Commit
      <4> QED
        BY <1>5, <4>1 DEF Commit
    <3> QED
      BY <3>1, <3>2, <3>3
  <2>4. invite'[e] = IF e \in tx[s].drops THEN None
                     ELSE IF tx[s].invites /\ e = tx[s].email THEN tx[s].house ELSE invite[e]
    BY <2>1 DEF Commit
  <2> QED
    BY <1>5, <2>2, <2>3, <2>4
<1>6. /\ tx'[t].pc = tx[t].pc /\ tx'[t].op = "login" /\ tx'[t].email = tx[t].email
      /\ tx'[t].house = tx[t].house
  BY CommitOthers
<1>7. ASSUME tx[t].pc \in {"join", "attach", "drop invite", "commit"}
      PROVE  NoMembers' \/ invite'[tx[t].email] = tx[t].house \/ tx[t].house \notin users'
  BY <1>1, <1>3, <1>4, <1>5, <1>7 DEF AskOK
<1> QED
  BY <1>1, <1>3, <1>6, <1>7 DEF AskOK

LEMMA CommitJoin ==
  ASSUME TypeInv, ExpelInv, UsedInv, JoinInv, NEW s \in Sessions, Commit(s)
  PROVE  JoinInv'
<1>1. /\ tx'[s].pc = "idle" /\ tx'[s].op = "none" /\ tx'[s].drops = {}
      /\ ~tx'[s].invites /\ ~tx'[s].founds
  BY DEF Commit, NoTransaction
<1>2. allowed' = allowed /\ raced' = raced
  BY DEF Commit
<1>3. \A t \in Sessions : RowsOK(tx[t])'
  <2>1. RowsOK(tx[s])'
    BY <1>1 DEF RowsOK
  <2> QED
    BY <2>1, CommitRows
<1>4. \A t \in Sessions : \A v \in Sessions \ {t} : Aside(tx[t], tx[v])'
  <2> TAKE t \in Sessions
  <2> TAKE v \in Sessions \ {t}
  <2>1. CASE t = s \/ v = s
    BY <1>1, <2>1 DEF Aside
  <2>2. CASE t # s /\ v # s
    <3>1. Aside(tx[t], tx[v])
      BY DEF JoinInv
    <3> QED
      BY <2>2, <3>1, CommitOthers DEF Aside
  <2> QED
    BY <2>1, <2>2
<1>5. LoginInv'
  <2> SUFFICES ASSUME "logins" \notin raced PROVE LoginInv'
    BY <1>2 DEF LoginInv
  <2>0. /\ LoginInv /\ ListOK(tx[s]) /\ RowsOK(tx[s]) /\ PlaceOK(tx[s])
    BY DEF JoinInv, LoginInv, TypeInv
  <2>1. \A t \in Sessions : \A v \in Sessions \ {t} :
          ~(tx'[t].op = "login" /\ tx'[v].op = "login")
    BY <1>1, <2>0, CommitOthers DEF LoginInv
  <2>2. OneHousehold'
    <3> SUFFICES ASSUME allowed # {} PROVE \A g, h \in users' : g = h
      BY <1>2 DEF OneHousehold
    <3>1. (\A g, h \in users : g = h) /\ (tx[s].founds => users = {})
      BY <2>0 DEF LoginInv, OneHousehold, ListOK
    <3> QED
      BY <3>1 DEF Commit
  <2>3. ASSUME NEW t \in Sessions PROVE ListOK(tx[t])'
    <3>1. CASE t = s
      BY <1>1, <3>1 DEF ListOK
    <3>2. CASE t # s
      <4> SUFFICES ASSUME allowed # {} PROVE ListOK(tx[t])'
        BY <1>2 DEF ListOK
      <4>1. ListOK(tx[t]) /\ RowsOK(tx[t]) /\ ExpelOK(tx[t])
        BY <2>0 DEF LoginInv, JoinInv, ExpelInv
      <4>2. tx[t].pc = "found" \/ tx[t].founds => tx[t].op = "login"
        BY <4>1 DEF RowsOK, ExpelOK, Entering, Looks
      <4>3. tx[t].op = "login" => ~tx[s].founds
        BY <2>0, <3>2 DEF LoginInv, RowsOK
      <4>4. tx[t].op = "login" /\ users = {} => users' = {}
        BY <4>3 DEF Commit
      <4> QED
        BY <3>2, <4>1, <4>2, <4>4, CommitOthers DEF ListOK
    <3> QED
      BY <3>1, <3>2
  <2>4. ASSUME "invites" \notin raced, NEW t \in Sessions PROVE AskOK(tx[t])'
    <3>1. CASE t = s
      BY <1>1, <3>1 DEF AskOK
    <3>2. CASE t # s
      BY <2>4, <3>2, CommitAsk
    <3> QED
      BY <3>1, <3>2
  <2> QED
    BY <1>2, <2>1, <2>2, <2>3, <2>4 DEF LoginInv
<1> QED
  BY <1>3, <1>4, <1>5 DEF JoinInv

LEMMA JoinStep == TypeInv /\ ExpelInv /\ UsedInv /\ JoinInv /\ [Next]_vars => JoinInv'
<1> SUFFICES ASSUME TypeInv, ExpelInv, UsedInv, JoinInv, [Next]_vars PROVE JoinInv'
  OBVIOUS
<1>1. ASSUME allowed' = allowed, users' = users, member' = member, invite' = invite,
             tx' = tx, raced' = raced
      PROVE  JoinInv'
  <2>1. \A s \in Sessions : RowsOK(tx[s])'
    BY <1>1 DEF JoinInv, RowsOK, InvitesOf
  <2>2. \A s \in Sessions : \A t \in Sessions \ {s} : Aside(tx[s], tx[t])'
    BY <1>1 DEF JoinInv, Aside
  <2>3. LoginInv'
    BY <1>1 DEF JoinInv, LoginInv, OneHousehold, ListOK, AskOK, NoMembers
  <2> QED
    BY <2>1, <2>2, <2>3 DEF JoinInv
<1>2. CASE UNCHANGED vars
  BY <1>1, <1>2 DEF vars
<1>3. ASSUME NEW e \in Emails, SignIn(e)
      PROVE  JoinInv'
  BY <1>1, <1>3 DEF SignIn
<1>4. ASSUME NEW s \in Sessions, NEW e \in Emails, Login(s, e)
      PROVE  JoinInv'
  BY <1>4, BeginJoin DEF Login
<1>5. ASSUME NEW s \in Sessions, NEW b \in Emails, NEW e \in Emails,
             Invite(s, b, e) \/ CancelInvite(s, b, e) \/ RemoveMember(s, b, e)
      PROVE  JoinInv'
  BY <1>5, BeginJoin DEF Invite, CancelInvite, RemoveMember
<1>6. ASSUME NEW s \in Sessions, NEW b \in Emails, NEW h \in Households,
             DeleteHousehold(s, b, h)
      PROVE  JoinInv'
  <2>1. /\ UNCHANGED Committed /\ h \in users
        /\ \E own \in users \ {h} : Begin(s, "delete", "delete invites", None, own, h, FALSE)
    BY <1>6 DEF DeleteHousehold
  <2> QED
    BY <2>1, BeginJoin
<1>7. ASSUME NEW s \in Sessions, Step(s)
      PROVE  JoinInv'
  BY <1>7, LoginJoin, InsertJoin, OtherJoin, DropJoin, CommitJoin DEF Step
<1>8. ASSUME NEW s \in Sessions, Fail(s)
      PROVE  JoinInv'
  BY <1>8, EndsJoin DEF Fail
<1> QED
  BY <1>2, <1>3, <1>4, <1>5, <1>6, <1>7, <1>8 DEF Next

\* The formula of JoinsAsAllowed, for one email.
JoinsRight(e) ==
  member[e] = None /\ member'[e] # None
    => /\ allowed = {} /\ {"logins", "invites"} \cap raced = {} /\ MembersOf(member'[e]) # {}
          => invite[e] = member'[e]
       /\ allowed # {} /\ "logins" \notin raced
          => \A f \in Emails \ {e} : member[f] \in {None, member'[e]}

LEMMA CommitJoinsRight ==
  ASSUME TypeInv, WriteInv, ExpelInv, JoinInv, NEW s \in Sessions, Commit(s), NEW e \in Emails
  PROVE  JoinsRight(e)
<1> SUFFICES ASSUME member[e] = None, member'[e] # None PROVE JoinsRight(e)
  BY DEF JoinsRight
<1> DEFINE h == tx[s].house
<1>1. tx[s].joins /\ e = tx[s].email /\ member'[e] = h /\ tx[s].pc = "commit"
  BY DEF Commit
<1>2. tx[s].op = "login" /\ h \in Households
  BY <1>1 DEF ExpelInv, ExpelOK, TypeInv, PlaceOK
<1>3. \A f \in Emails : member[f] \in users \cup {None}
  BY DEF WriteInv, HouseholdsExist
<1>4. ASSUME allowed = {}, "logins" \notin raced, "invites" \notin raced, MembersOf(h) # {}
      PROVE  invite[e] = h
  <2>1. AskOK(tx[s])
    BY <1>4 DEF JoinInv, LoginInv
  <2>2. PICK f \in Emails : member[f] = h
    BY <1>4 DEF MembersOf
  <2>3. h # None
    BY <1>2, HouseholdAssumption
  <2>4. ~NoMembers /\ h \in users
    BY <1>3, <2>2, <2>3 DEF NoMembers
  <2> QED
    BY <1>1, <1>2, <1>4, <2>1, <2>4 DEF AskOK
<1>5. ASSUME allowed # {}, "logins" \notin raced, NEW f \in Emails \ {e}
      PROVE  member[f] \in {None, h}
  <2>1. ListOK(tx[s]) /\ \A g, k \in users : g = k
    BY <1>5 DEF JoinInv, LoginInv, OneHousehold
  <2>2. h \in users \/ tx[s].founds
    BY <1>1 DEF WriteInv, RowsHeld, HasHousehold
  <2>3. h \in users \/ users = {}
    BY <1>5, <2>1, <2>2 DEF ListOK
  <2> QED
    BY <1>3, <2>1, <2>3
<1> QED
  BY <1>1, <1>4, <1>5 DEF JoinsRight

LEMMA AllJoinRight ==
  TypeInv /\ WriteInv /\ ExpelInv /\ JoinInv /\ [Next]_vars =>
    [\A e \in Emails :
       /\ member[e] = None /\ member'[e] # None
       => /\ allowed = {} /\ {"logins", "invites"} \cap raced = {} /\ MembersOf(member'[e]) # {}
             => invite[e] = member'[e]
          /\ allowed # {} /\ "logins" \notin raced
             => \A f \in Emails \ {e} : member[f] \in {None, member'[e]}]_vars
<1> SUFFICES ASSUME TypeInv, WriteInv, ExpelInv, JoinInv, Next, NEW e \in Emails
             PROVE  JoinsRight(e)
  BY DEF JoinsRight
<1>1. CASE \A s \in Sessions : ~Commit(s)
  <2>1. member' = member
    BY <1>1, OnlyCommits
  <2> QED
    BY <2>1 DEF JoinsRight
<1>2. CASE \E s \in Sessions : Commit(s)
  BY <1>2, CommitJoinsRight
<1> QED
  BY <1>1, <1>2

\* Until two first logins, or a login and an invite of the same email, overlap, whoever
\* joins a household with members was invited to it and still is at the commit, and with
\* ALLOWED_EMAILS all members are of one household.
THEOREM AllJoinAsAllowed == Spec => JoinsAsAllowed
<1>1. Spec => []ExpelInv
  BY InitWrite, WriteStep, InitExpel, ExpelStep, TypeInvariant, PTL DEF Spec
<1>2. Spec => []WriteInv
  BY InitWrite, WriteStep, TypeInvariant, PTL DEF Spec
<1>3. Spec => []UsedInv
  BY InitUsed, UsedStep, TypeInvariant, PTL DEF Spec
<1>4. Spec => []JoinInv
  BY <1>1, <1>3, InitJoin, JoinStep, TypeInvariant, PTL DEF Spec
<1> QED
  BY <1>1, <1>2, <1>4, AllJoinRight, TypeInvariant, PTL DEF Spec, JoinsAsAllowed

=============================================================================
