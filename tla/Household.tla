----------------------------- MODULE Household -----------------------------
(***************************************************************************)
(* Who belongs to which household: Google logins, invites, the removal of  *)
(* members and the deletion of households by an administrator              *)
(* (auth/service.py, auth/router.py), as PostgreSQL transactions that      *)
(* overlap.                                                                *)
(*                                                                         *)
(* A household is a row of users.  Each email has at most one row of       *)
(* auth_identities and one of household_invites; both columns are unique.  *)
(* A transaction reads what is committed, and its writes show at its       *)
(* commit; a write to a row or key another one has written waits for it.   *)
(***************************************************************************)
EXTENDS Naturals, FiniteSets

CONSTANTS
  Emails,         \* Google accounts, each with a browser of its own
  Admins,         \* ADMIN_EMAILS
  AllowLists,     \* values of ALLOWED_EMAILS to consider
  MaxHouseholds,  \* bound: households at a time
  Sessions,       \* bound: transactions at a time
  None

Households == 1..MaxHouseholds

ASSUME HouseholdAssumption ==
  /\ Admins \subseteq Emails
  /\ AllowLists \subseteq SUBSET Emails
  /\ MaxHouseholds \in Nat \ {0}
  /\ None \notin Households \cup Emails

VARIABLES
  allowed,  \* settings.allowed_email_set
  users,    \* committed households
  member,   \* the household of each email: auth_identities
  invite,   \* the household each email is invited to: household_invites
  cookie,   \* the user_id in the session cookie of each browser
  tx,       \* transactions in flight
  raced     \* history: kinds of transactions that have overlapped

vars == <<allowed, users, member, invite, cookie, tx, raced>>

-----------------------------------------------------------------------------
(* Values *)

Places ==
  {"idle",
   \* resolve_google_user
   "look for invite", "join", "primary", "count users", "pick", "found", "attach",
   \* create_household_invite, remove_household_member
   "look for pending", "put invite", "count members", "expel",
   \* delete_household
   "delete invites", "delete identities", "delete user",
   "drop invite", "commit"}

Kinds == {"logins", "invites", "removals", "deletions"}

Transaction ==
  [ pc      : Places,
    op      : {"none", "login", "invite", "cancel", "remove", "delete"},
    email   : Emails \cup {None},       \* the email it is about
    by      : Households \cup {None},   \* the household that acts
    house   : Households \cup {None},   \* the household it is about
    loaded  : BOOLEAN,                  \* the row it loaded to delete is still there
    \* uncommitted writes
    founds  : BOOLEAN,                  \* the row of house in users
    joins   : BOOLEAN,                  \* the identity of email in house
    invites : BOOLEAN,                  \* the invite of email to house
    drops   : SUBSET Emails,            \* deleted invites
    expels  : SUBSET Emails,            \* deleted identities
    wipes   : BOOLEAN ]                 \* house deleted from users

NoTransaction ==
  [ pc |-> "idle", op |-> "none", email |-> None, by |-> None, house |-> None,
    loaded |-> FALSE, founds |-> FALSE, joins |-> FALSE, invites |-> FALSE,
    drops |-> {}, expels |-> {}, wipes |-> FALSE ]

TypeOK ==
  /\ allowed \in AllowLists
  /\ users \subseteq Households
  /\ member \in [Emails -> Households \cup {None}]
  /\ invite \in [Emails -> Households \cup {None}]
  /\ cookie \in [Emails -> Households \cup {None}]
  /\ tx \in [Sessions -> Transaction]
  /\ raced \subseteq Kinds

\* A new database, or one with the household of the time before Google logins.
Init ==
  /\ allowed \in AllowLists
  /\ users \in {{}, {1}}
  /\ member = [e \in Emails |-> None]
  /\ invite = [e \in Emails |-> None]
  /\ cookie = [e \in Emails |-> None]
  /\ tx = [s \in Sessions |-> NoTransaction]
  /\ raced = {}

-----------------------------------------------------------------------------
(* Transactions *)

Others(s) == {t \in Sessions \ {s} : tx[t].pc # "idle"}

MembersOf(h) == {e \in Emails : member[e] = h}
InvitesOf(h) == {e \in Emails : invite[e] = h}

\* Kinds of transactions that run side by side when s begins.
Races(s, op, e, h) ==
  {k \in Kinds : \E t \in Others(s) :
     \/ k = "logins" /\ op = "login" /\ tx[t].op = "login"
     \/ k = "invites" /\ tx[t].email = e /\ "login" \in {op, tx[t].op}
          /\ {op, tx[t].op} \cap {"invite", "cancel"} # {}
     \/ k = "removals" /\ op = "remove" /\ tx[t].op = "remove" /\ tx[t].house = h
     \/ k = "deletions" /\ op = "delete" /\ tx[t].op = "delete"}

\* s begins, after its first read.
Begin(s, op, pc, e, by, h, loaded) ==
  /\ tx[s].pc = "idle"
  /\ tx' = [tx EXCEPT ![s] = [NoTransaction EXCEPT
              !.pc = pc, !.op = op, !.email = e, !.by = by, !.house = h,
              !.loaded = loaded]]
  /\ raced' = raced \cup Races(s, op, e, h)

\* Nothing was written, or everything is rolled back.
Ends(s) == tx' = [tx EXCEPT ![s] = NoTransaction]

Committed == <<allowed, users, member, invite, cookie>>

\* get_current_user: the household of the cookie, as long as it exists.
SignedIn(b, h) == h = cookie[b] /\ h \in users

\* The lock a foreign key takes on the household waits for its deletion.
HouseholdIsFree(s, h) == \A t \in Others(s) : ~(tx[t].wipes /\ tx[t].house = h)

\* s has the household: it is committed or s has inserted it.
HasHousehold(s) == tx[s].house \in users \/ tx[s].founds

\* A household that no row, cookie or transaction knows: a new uuid.
IsUnknown(h) ==
  /\ h \notin users
  /\ \A e \in Emails : cookie[e] # h
  /\ \A t \in Sessions : h \notin {tx[t].house, tx[t].by}

-----------------------------------------------------------------------------
(* resolve_google_user *)

\* A member signs in again: the cookie gets its household.
SignIn(e) ==
  /\ member[e] # None /\ member[e] \in users
  /\ cookie' = [cookie EXCEPT ![e] = member[e]]
  /\ UNCHANGED <<allowed, users, member, invite, tx, raced>>

\* An email without an identity: the invite is looked up next.
Login(s, e) ==
  /\ member[e] = None
  /\ Begin(s, "login", "look for invite", e, None, None, FALSE)
  /\ UNCHANGED Committed

\* Fault: the identities are not counted.
LookForInviteUncounted(s) ==
  /\ tx[s].pc = "look for invite"
  /\ LET e == tx[s].email
     IN  \/ /\ invite[e] # None
            /\ tx' = [tx EXCEPT ![s].house = invite[e], ![s].loaded = TRUE,
                                ![s].pc = "join"]
         \/ /\ invite[e] = None /\ allowed # {} /\ e \notin allowed
            /\ Ends(s)
         \/ /\ invite[e] = None /\ (allowed = {} \/ e \in allowed)
            /\ tx' = [tx EXCEPT ![s].pc = IF allowed = {} THEN "count users" ELSE "primary"]
  /\ UNCHANGED <<Committed, raced>>

\* The invite, else ALLOWED_EMAILS, else the count of identities, decide.
LookForInvite(s) ==
  /\ tx[s].pc = "look for invite"
  /\ LET e == tx[s].email
     IN  \/ /\ invite[e] # None
            /\ tx' = [tx EXCEPT ![s].house = invite[e], ![s].loaded = TRUE,
                                ![s].pc = "join"]
         \/ /\ invite[e] = None /\ allowed # {} /\ e \notin allowed
            /\ Ends(s)
         \/ /\ invite[e] = None /\ e \in allowed
            /\ tx' = [tx EXCEPT ![s].pc = "primary"]
         \/ /\ invite[e] = None /\ allowed = {}
            /\ tx' = [tx EXCEPT ![s].pc =
                 IF \A d \in Emails : member[d] = None THEN "count users" ELSE "found"]
  /\ UNCHANGED <<Committed, raced>>

\* primary_household_user: the household of an allowlisted member, else the first
\* of users, else a new one.
Primary(s) ==
  /\ tx[s].pc = "primary"
  /\ LET shared == {member[d] : d \in allowed} \ {None}
     IN  IF shared \cup users = {}
         THEN tx' = [tx EXCEPT ![s].pc = "found"]
         ELSE \E h \in IF shared = {} THEN users ELSE shared :
                tx' = [tx EXCEPT ![s].house = h, ![s].pc = "attach"]
  /\ UNCHANGED <<Committed, raced>>

\* The household of a database without identities is claimed if it is the only one.
CountUsers(s) ==
  /\ tx[s].pc = "count users"
  /\ tx' = [tx EXCEPT ![s].pc = IF Cardinality(users) = 1 THEN "pick" ELSE "found"]
  /\ UNCHANGED <<Committed, raced>>

\* list_active_users()[0], which fails if there is none any more.
Pick(s) ==
  /\ tx[s].pc = "pick"
  /\ \/ \E h \in users : tx' = [tx EXCEPT ![s].house = h, ![s].pc = "attach"]
     \/ users = {} /\ Ends(s)
  /\ UNCHANGED <<Committed, raced>>

\* A household of its own.
Found(s) ==
  /\ tx[s].pc = "found"
  /\ \E h \in Households :
       /\ IsUnknown(h)
       /\ tx' = [tx EXCEPT ![s].house = h, ![s].founds = TRUE, ![s].pc = "attach"]
  /\ UNCHANGED <<Committed, raced>>

\* The INSERT of the identity; a login by invite deletes the invite next.
Attach(s) ==
  /\ tx[s].pc \in {"attach", "join"}
  /\ LET e == tx[s].email
     IN  /\ \A t \in Others(s) : ~(tx[t].joins /\ tx[t].email = e) /\ e \notin tx[t].expels
         /\ HouseholdIsFree(s, tx[s].house)
         /\ IF member[e] = None /\ HasHousehold(s)
            THEN tx' = [tx EXCEPT ![s].joins = TRUE,
                   ![s].pc = IF tx[s].pc = "join" THEN "drop invite" ELSE "commit"]
            ELSE Ends(s)
  /\ UNCHANGED <<Committed, raced>>

-----------------------------------------------------------------------------
(* Members and invites *)

\* Fault: the invite keeps the inviter in the place of the household.
InviteOfInviter(s, b, e) ==
  /\ member[e] = None
  /\ \E h \in users :
       /\ SignedIn(b, h)
       /\ Begin(s, "invite", "look for pending", e, None, b, FALSE)
  /\ UNCHANGED Committed

\* create_household_invite: refused if the email is a member somewhere.
Invite(s, b, e) ==
  /\ member[e] = None
  /\ \E h \in users :
       /\ SignedIn(b, h)
       /\ Begin(s, "invite", "look for pending", e, None, h, FALSE)
  /\ UNCHANGED Committed

\* A pending invite is returned, or refused if it is of another household.
LookForPending(s) ==
  /\ tx[s].pc = "look for pending"
  /\ IF invite[tx[s].email] = None
     THEN tx' = [tx EXCEPT ![s].pc = "put invite"]
     ELSE Ends(s)
  /\ UNCHANGED <<Committed, raced>>

\* The INSERT of the invite.
PutInvite(s) ==
  /\ tx[s].pc = "put invite"
  /\ LET e == tx[s].email
     IN  /\ \A t \in Others(s) : ~(tx[t].invites /\ tx[t].email = e) /\ e \notin tx[t].drops
         /\ HouseholdIsFree(s, tx[s].house)
         /\ IF invite[e] = None /\ HasHousehold(s)
            THEN tx' = [tx EXCEPT ![s].invites = TRUE, ![s].pc = "commit"]
            ELSE Ends(s)
  /\ UNCHANGED <<Committed, raced>>

\* delete_household_invite, up to the DELETE.
CancelInvite(s, b, e) ==
  /\ \E h \in users :
       /\ SignedIn(b, h) /\ invite[e] = h
       /\ Begin(s, "cancel", "drop invite", e, None, h, TRUE)
  /\ UNCHANGED Committed

\* Fault: a login leaves the invite behind.
DropInviteKept(s) ==
  /\ tx[s].pc = "drop invite"
  /\ tx' = [tx EXCEPT ![s].pc = "commit"]
  /\ UNCHANGED <<Committed, raced>>

\* The DELETE of the invite that was loaded, which may be gone by now.
DropInvite(s) ==
  /\ tx[s].pc = "drop invite"
  /\ LET e == tx[s].email
     IN  /\ \A t \in Others(s) : e \notin tx[t].drops
         /\ tx' = [tx EXCEPT ![s].pc = "commit",
                             ![s].drops = IF tx[s].loaded THEN {e} ELSE {}]
  /\ UNCHANGED <<Committed, raced>>

\* remove_household_member loads the identity.
RemoveMember(s, b, e) ==
  /\ \E h \in users :
       /\ SignedIn(b, h) /\ member[e] = h
       /\ Begin(s, "remove", "count members", e, None, h, TRUE)
  /\ UNCHANGED Committed

\* Fault: the check is off by one.
CountMembersOff(s) ==
  /\ tx[s].pc = "count members"
  /\ IF Cardinality(MembersOf(tx[s].house)) < 1
     THEN Ends(s)
     ELSE tx' = [tx EXCEPT ![s].pc = "expel"]
  /\ UNCHANGED <<Committed, raced>>

\* The last member of a household is not removed.
CountMembers(s) ==
  /\ tx[s].pc = "count members"
  /\ IF Cardinality(MembersOf(tx[s].house)) <= 1
     THEN Ends(s)
     ELSE tx' = [tx EXCEPT ![s].pc = "expel"]
  /\ UNCHANGED <<Committed, raced>>

\* The DELETE of the identity that was loaded, which may be gone by now.
Expel(s) ==
  /\ tx[s].pc = "expel"
  /\ LET e == tx[s].email
     IN  /\ \A t \in Others(s) : e \notin tx[t].expels
         /\ tx' = [tx EXCEPT ![s].pc = "commit",
                             ![s].expels = IF tx[s].loaded THEN {e} ELSE {}]
  /\ UNCHANGED <<Committed, raced>>

-----------------------------------------------------------------------------
(* delete_household *)

\* Fault: administrators may delete their own household.
DeleteHouseholdAny(s, b, h) ==
  /\ b \in Admins /\ h \in users
  /\ \E own \in users :
       /\ SignedIn(b, own)
       /\ Begin(s, "delete", "delete invites", None, own, h, FALSE)
  /\ UNCHANGED Committed

\* An administrator deletes another household than the one of the cookie.
DeleteHousehold(s, b, h) ==
  /\ b \in Admins /\ h \in users
  /\ \E own \in users \ {h} :
       /\ SignedIn(b, own)
       /\ Begin(s, "delete", "delete invites", None, own, h, FALSE)
  /\ UNCHANGED Committed

DeleteInvites(s) ==
  /\ tx[s].pc = "delete invites"
  /\ LET rows == InvitesOf(tx[s].house)
     IN  /\ \A t \in Others(s) : rows \cap tx[t].drops = {}
         /\ tx' = [tx EXCEPT ![s].drops = rows, ![s].pc = "delete identities"]
  /\ UNCHANGED <<Committed, raced>>

DeleteIdentities(s) ==
  /\ tx[s].pc = "delete identities"
  /\ LET rows == MembersOf(tx[s].house)
     IN  /\ \A t \in Others(s) : rows \cap tx[t].expels = {}
         /\ tx' = [tx EXCEPT ![s].expels = rows, ![s].pc = "delete user"]
  /\ UNCHANGED <<Committed, raced>>

\* The household's row is free for s to delete when no other transaction holds it
\* by a foreign key, by deleting it, or holds a row that refers to it.
RowsAreFree(s) ==
  LET h == tx[s].house
  IN  \A t \in Others(s) :
        /\ tx[t].house = h => ~(tx[t].joins \/ tx[t].invites \/ tx[t].wipes)
        /\ InvitesOf(h) \cap tx[t].drops = {}
        /\ MembersOf(h) \cap tx[t].expels = {}

\* Fault: what joined since the first DELETE stays.
DeleteUserOnly(s) ==
  /\ tx[s].pc = "delete user"
  /\ tx' = [tx EXCEPT ![s].wipes = TRUE, ![s].pc = "commit"]
  /\ UNCHANGED <<Committed, raced>>

\* The DELETE of the household cascades to what has joined it meanwhile (with the
\* constraints of the migrations, which do not cascade, it fails: see Fail).
DeleteUser(s) ==
  /\ tx[s].pc = "delete user"
  /\ RowsAreFree(s)
  /\ tx' = [tx EXCEPT ![s].wipes = TRUE, ![s].pc = "commit",
                      ![s].drops = @ \cup InvitesOf(tx[s].house),
                      ![s].expels = @ \cup MembersOf(tx[s].house)]
  /\ UNCHANGED <<Committed, raced>>

-----------------------------------------------------------------------------
(* The end *)

\* A loaded row is gone once s has committed its deletion.
StillThere(s, t) ==
  /\ tx[t].loaded
  /\ tx[t].email \notin IF tx[t].op = "remove" THEN tx[s].expels ELSE tx[s].drops

\* The transaction commits; after a login the browser gets the cookie.  A cookie
\* of a household that is gone is worth none.
Commit(s) ==
  LET w == tx[s]
  IN  /\ w.pc = "commit"
      /\ users' = (users \cup IF w.founds THEN {w.house} ELSE {})
                    \ IF w.wipes THEN {w.house} ELSE {}
      /\ member' = [e \in Emails |-> IF e \in w.expels THEN None
                                     ELSE IF w.joins /\ e = w.email THEN w.house
                                     ELSE member[e]]
      /\ invite' = [e \in Emails |-> IF e \in w.drops THEN None
                                     ELSE IF w.invites /\ e = w.email THEN w.house
                                     ELSE invite[e]]
      /\ cookie' = [e \in Emails |-> IF w.wipes /\ cookie[e] = w.house THEN None
                                     ELSE IF w.joins /\ e = w.email THEN w.house
                                     ELSE cookie[e]]
      /\ tx' = [t \in Sessions |->
                  IF t = s THEN NoTransaction
                  ELSE [tx[t] EXCEPT !.loaded = StillThere(s, t)]]
      /\ UNCHANGED <<allowed, raced>>

\* A failed statement, a deadlock PostgreSQL resolves, a lost process.
Fail(s) ==
  /\ tx[s].pc # "idle"
  /\ Ends(s)
  /\ UNCHANGED <<Committed, raced>>

Step(s) ==
  \/ LookForInvite(s)
  \/ Primary(s)
  \/ CountUsers(s)
  \/ Pick(s)
  \/ Found(s)
  \/ Attach(s)
  \/ LookForPending(s)
  \/ PutInvite(s)
  \/ DropInvite(s)
  \/ CountMembers(s)
  \/ Expel(s)
  \/ DeleteInvites(s)
  \/ DeleteIdentities(s)
  \/ DeleteUser(s)
  \/ Commit(s)

Next ==
  \/ \E e \in Emails : SignIn(e)
  \/ \E s \in Sessions :
       \/ \E e \in Emails : Login(s, e)
       \/ \E b, e \in Emails : Invite(s, b, e) \/ CancelInvite(s, b, e) \/ RemoveMember(s, b, e)
       \/ \E b \in Emails, h \in Households : DeleteHousehold(s, b, h)
       \/ Step(s)
       \/ Fail(s)

Spec == Init /\ [][Next]_vars

-----------------------------------------------------------------------------
(* Properties *)

\* Members and invites are of a household that exists, also when someone joins
\* or invites while it is being deleted.
HouseholdsExist ==
  \A e \in Emails : {member[e], invite[e]} \subseteq users \cup {None}

\* An invite is used up by the login it lets in, and a member is not invited
\* elsewhere, unless the email logged in while it was being invited.
InviteIsUsedUp ==
  "invites" \notin raced => \A e \in Emails : member[e] = None \/ invite[e] = None

\* A household that has members keeps one until it is deleted, unless two
\* removals ran side by side.
LastMemberStays ==
  [][\A h \in users \cap users' :
       MembersOf(h) # {} /\ "removals" \notin raced => MembersOf(h)' # {}]_vars

\* Whoever joins a household that has members was invited to it, and with
\* ALLOWED_EMAILS whoever joins comes to the household of the others, unless two first
\* logins, or a login and an invite of the same email, ran side by side.
JoinsAsAllowed ==
  [][\A e \in Emails :
       /\ member[e] = None /\ member'[e] # None
       => /\ allowed = {} /\ {"logins", "invites"} \cap raced = {} /\ MembersOf(member'[e]) # {}
             => invite[e] = member'[e]
          /\ allowed # {} /\ "logins" \notin raced
             => \A f \in Emails \ {e} : member[f] \in {None, member'[e]}]_vars

\* Administrators never delete the last household, unless two delete at once.
SomeHouseholdStays ==
  [][users # {} /\ "deletions" \notin raced => users' # {}]_vars
=============================================================================
