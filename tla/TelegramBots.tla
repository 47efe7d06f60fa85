----------------------------- MODULE TelegramBots -----------------------------
(***************************************************************************)
(* The Telegram bots of the households: one poller per household           *)
(* (telegram_bot/bot.py), the token that starts it and the chat that is    *)
(* linked to it (telegram_bot/router.py, linking.py, handlers/start.py,    *)
(* users/service.py).                                                      *)
(*                                                                         *)
(* A session is a request, the handler of a message, or the start of the   *)
(* app.  The registry of pollers and the link codes are in the memory of   *)
(* the one process; between two awaits of a session, others run.  Rows of  *)
(* users are written by flushes, which lock them until the commit.         *)
(***************************************************************************)
EXTENDS Integers, FiniteSetsExt

CONSTANTS
  Households, Tokens, Chats, \* private chats
  EnvToken,                  \* TELEGRAM_BOT_TOKEN, the token of those without one
  Sessions,                  \* bound: what runs at the same time
  Apps,                      \* bound: Applications that exist at the same time
  Codes,                     \* bound: link codes made
  MaxEvents,                 \* bound: new tokens, deletions, unlinks, stops of the app
  None

ASSUME BotsAssumption ==
  /\ EnvToken \in Tokens \cup {None}
  /\ None \notin Households \cup Tokens \cup Chats \cup Apps
  /\ \A h \in Households, t \in Tokens : None # [h |-> h, token |-> t]
  /\ Apps \subseteq Nat /\ MaxEvents \in Nat

VARIABLES
  \* committed rows
  alive,     \* users
  token,     \* telegram_bot_token_encrypted
  chat,      \* telegram_id, unique
  \* memory of the process
  phase,     \* "down", "boot" while lifespan starts the bots, "up"
  bots,      \* _bot_apps
  apps,      \* the Applications that poll, with their household and token
  codes,     \* _codes
  work,      \* the sessions
  \* bounds and history
  fresh,     \* codes not made yet
  unborn,    \* households not founded yet
  events,    \* new tokens, deletions, unlinks and stops of the app so far
  unstarted, \* households whose bot could not be started or was stopped for a deletion
             \* that was rolled back, and those founded since the app started
  stray,     \* households whose last new token was rolled back with its poller started
  raced      \* households with a deletion and a new token at the same time

rows    == <<alive, token, chat>>
memory  == <<bots, apps, codes>>
bounds  == <<fresh, unborn, events>>
history == <<unstarted, stray, raced>>
vars    == <<rows, phase, memory, work, bounds, history>>

-----------------------------------------------------------------------------
(* Sessions *)

NoWork ==
  [ job   |-> "none", pc |-> "idle",
    h     |-> None,   \* the household it is about
    token |-> None,   \* the token it starts a poller with
    chat  |-> None,   \* the chat a message came from
    via   |-> None,   \* the Application it came to
    app   |-> None,   \* the Application it stops or starts
    found |-> None,   \* the household the chat was linked to
    sees  |-> None,   \* telegram_id as the session has loaded it
    left  |-> {},     \* households whose bots are still to be started
    saved |-> FALSE,  \* it has flushed the token
    put   |-> {},     \* <<household, chat>> it has flushed
    drops |-> FALSE,  \* it has deleted the row
    alone |-> TRUE ]  \* history: none of the other sessions has committed since it began

Session ==
  [ job   : {"none", "token", "delete", "unlink", "start", "boot"},
    pc    : {"idle", "save", "pop", "stop", "token", "register", "delete", "write", "find",
             "clear", "set", "boot", "commit"},
    h     : Households \cup {None},
    token : Tokens \cup {None},
    chat  : Chats \cup {None},
    via   : Apps \cup {None},
    app   : Apps \cup {None},
    found : Households \cup {None},
    sees  : Chats \cup {None},
    left  : SUBSET Households,
    saved : BOOLEAN,
    put   : SUBSET (Households \X (Chats \cup {None})),
    drops : BOOLEAN,
    alone : BOOLEAN ]

Busy(s) == work[s].job # "none"
At(s, pc) == Busy(s) /\ work[s].pc = pc

Put(s, w) == work' = [work EXCEPT ![s] = w]
Ends(s) == Put(s, NoWork)

\* telegram_token_for_user
TokenOf(h) == IF token[h] = None THEN EnvToken ELSE token[h]

\* Fault: the new token is written by the commit only, without a flush before the
\* poller is started.
HeldByCommit(s) ==
  LET w == work[s] IN {p[1] : p \in w.put} \cup (IF w.drops THEN {w.h} ELSE {})
                      \cup ({p[2] : p \in w.put} \ {None})

\* The rows a session has locked, and the chats it has entered in the unique index.
Held(s) ==
  LET w == work[s] IN {p[1] : p \in w.put} \cup (IF w.drops \/ w.saved THEN {w.h} ELSE {})
                      \cup ({p[2] : p \in w.put} \ {None})

\* What the next flush of s needs.
Wants(s) ==
  LET w == work[s]
  IN  CASE w.pc \in {"save", "delete", "write"} -> {w.h}
        [] w.pc = "clear" -> {w.found} \ {None, w.h}
        [] w.pc = "set"   -> IF w.sees = w.chat THEN {} ELSE {w.h, w.chat}
        [] OTHER -> {}

BlockedBy(s, t) == s # t /\ Wants(s) \cap Held(t) # {}
MayFlush(s) == \A t \in Sessions : ~BlockedBy(s, t)

\* An exception rolls the session back, not what it has done to pollers.
Raise(s) ==
  /\ Ends(s)
  /\ unstarted' = IF work[s].job \in {"token", "delete"} /\ bots[work[s].h] = None
                  THEN unstarted \cup {work[s].h} ELSE unstarted
  /\ stray' = IF work[s].job = "token" /\ work[s].pc = "commit" /\ bots[work[s].h] # None
              THEN stray \cup {work[s].h} ELSE stray
  /\ UNCHANGED <<rows, phase, memory, bounds, raced>>

\* PostgreSQL ends a deadlock by raising in one of the sessions.
Deadlocked(s) ==
  /\ \E t \in Sessions : BlockedBy(s, t) /\ BlockedBy(t, s)
  /\ Raise(s)

-----------------------------------------------------------------------------

TypeOK ==
  /\ alive \subseteq Households
  /\ token \in [Households -> Tokens \cup {None}]
  /\ chat \in [Households -> Chats \cup {None}]
  /\ phase \in {"down", "boot", "up"}
  /\ bots \in [Households -> Apps \cup {None}]
  /\ apps \in [Apps -> {None} \cup [h : Households, token : Tokens]]
  /\ codes \in [Codes -> Households \cup {None}]
  /\ work \in [Sessions -> Session]
  /\ \A s \in Sessions : work[s].app # None => apps[work[s].app] # None
  /\ \A h \in Households : bots[h] # None => apps[bots[h]] # None /\ apps[bots[h]].h = h
  /\ fresh \subseteq Codes /\ unborn \subseteq Households /\ events \in 0..MaxEvents
  /\ unstarted \subseteq Households /\ stray \subseteq Households /\ raced \subseteq Households

\* The rows as earlier runs of the app have left them.
Init ==
  /\ alive \in SUBSET Households /\ unborn = Households \ alive
  /\ token \in [Households -> Tokens \cup {None}]
  /\ chat \in [Households -> Chats \cup {None}]
  /\ \A h \in unborn : token[h] = None /\ chat[h] = None
  /\ \A g, h \in Households : g # h /\ chat[g] # None => chat[g] # chat[h]
  /\ phase = "down"
  /\ bots = [h \in Households |-> None] /\ apps = [a \in Apps |-> None]
  /\ codes = [k \in Codes |-> None]
  /\ work = [s \in Sessions |-> NoWork]
  /\ fresh = Codes /\ events = 0
  /\ unstarted = {} /\ stray = {} /\ raced = {}

-----------------------------------------------------------------------------
(* Pollers *)

\* Fault: the Application stays in the registry when it is stopped.
PopKeeps(s) ==
  /\ At(s, "pop")
  /\ LET h == work[s].h
     IN  Put(s, [work[s] EXCEPT !.app = bots[h],
                   !.pc = IF bots[h] = None THEN work[s].job ELSE "stop"])
  /\ UNCHANGED <<rows, phase, memory, bounds, history>>

\* stop_polling_for_user takes the Application from the registry ...
Pop(s) ==
  /\ At(s, "pop")
  /\ LET h == work[s].h
     IN  /\ Put(s, [work[s] EXCEPT !.app = bots[h],
                      !.pc = IF bots[h] = None THEN work[s].job ELSE "stop"])
         /\ bots' = [bots EXCEPT ![h] = None]
  /\ UNCHANGED <<rows, phase, apps, codes, bounds, history>>

\* ... and waits until it has stopped, after the message it is handling.  The session
\* goes on with the step named like its job.  (An error would be logged and ignored: it
\* is assumed that there is none.)
Stop(s) ==
  /\ At(s, "stop")
  /\ \A t \in Sessions : work[t].via # work[s].app
  /\ apps' = [apps EXCEPT ![work[s].app] = None]
  /\ Put(s, [work[s] EXCEPT !.app = None, !.pc = work[s].job])
  /\ UNCHANGED <<rows, phase, bots, codes, bounds, history>>

\* start_polling_for_user has a new Application, which polls.
Create(s) ==
  /\ work[s].job \in {"token", "boot"} /\ At(s, work[s].job)
  /\ work[s].h # None
  /\ \E a \in Apps :
       /\ apps[a] = None /\ \A b \in Apps : b < a => apps[b] # None
       /\ apps' = [apps EXCEPT ![a] = [h |-> work[s].h, token |-> work[s].token]]
       /\ Put(s, [work[s] EXCEPT !.app = a, !.pc = "register"])
  /\ UNCHANGED <<rows, phase, bots, codes, bounds, history>>

Register(s) ==
  /\ At(s, "register")
  /\ LET h == work[s].h
     IN  /\ bots' = [bots EXCEPT ![h] = work[s].app]
         /\ unstarted' = unstarted \ {h} /\ stray' = stray \ {h}
         /\ IF work[s].job = "token" THEN Put(s, [work[s] EXCEPT !.app = None, !.pc = "commit"])
            ELSE Put(s, [work[s] EXCEPT !.app = None, !.h = None, !.token = None, !.pc = "boot"])
  /\ UNCHANGED <<rows, phase, apps, codes, bounds, raced>>

-----------------------------------------------------------------------------
(* Start and end of the app *)

\* One of the events the bound allows.
Happens == events < MaxEvents /\ events' = events + 1

\* start_all_household_bots reads the users.
Boot(s) ==
  /\ phase = "down" /\ ~Busy(s)
  /\ phase' = "boot"
  /\ Put(s, [NoWork EXCEPT !.job = "boot", !.pc = "boot",
                           !.left = {h \in alive : TokenOf(h) # None}])
  /\ UNCHANGED <<rows, memory, bounds, history>>

\* The next household; the app serves requests when all have had their turn.
BootNext(s) ==
  /\ work[s].job = "boot" /\ work[s].h = None
  /\ IF work[s].left = {} THEN phase' = "up" /\ Ends(s)
     ELSE /\ phase' = phase
          /\ \E h \in work[s].left :
               Put(s, [work[s] EXCEPT !.h = h, !.token = TokenOf(h), !.pc = "pop",
                                      !.left = @ \ {h}])
  /\ UNCHANGED <<rows, memory, bounds, history>>

\* Fault: an error ends the loop over the households.
BootFailsAtAll(s) ==
  /\ At(s, "boot") /\ work[s].job = "boot" /\ work[s].h # None
  /\ unstarted' = unstarted \cup {work[s].h}
  /\ Put(s, [work[s] EXCEPT !.h = None, !.token = None, !.left = {}])
  /\ UNCHANGED <<rows, phase, memory, bounds, stray, raced>>

\* Telegram does not answer, or rejects the token: the next household has its turn.
BootFails(s) ==
  /\ At(s, "boot") /\ work[s].job = "boot" /\ work[s].h # None
  /\ unstarted' = unstarted \cup {work[s].h}
  /\ Put(s, [work[s] EXCEPT !.h = None, !.token = None])
  /\ UNCHANGED <<rows, phase, memory, bounds, stray, raced>>

\* The process ends: open transactions are rolled back, its memory is gone.
Down ==
  /\ phase # "down" /\ Happens
  /\ phase' = "down"
  /\ bots' = [h \in Households |-> None] /\ apps' = [a \in Apps |-> None]
  /\ codes' = [k \in Codes |-> None]
  /\ work' = [s \in Sessions |-> NoWork]
  /\ unstarted' = {} /\ stray' = {} /\ raced' = {}
  /\ UNCHANGED <<rows, fresh, unborn>>

-----------------------------------------------------------------------------
(* Requests *)

\* A request begins; the session of the browser has loaded the user.
Request(s, h) ==
  /\ phase = "up" /\ ~Busy(s) /\ h \in alive
  /\ Happens
  /\ UNCHANGED <<rows, phase, memory, fresh, unborn, unstarted, stray>>

\* Two sessions are at work on h, one of them to delete it.
Races(s, h, job) ==
  raced' = IF \E t \in Sessions \ {s} : work[t].h = h /\ {job, work[t].job} = {"token", "delete"}
           THEN raced \cup {h} ELSE raced

\* set_telegram_token_endpoint: validate_bot_token has accepted the token.
PostToken(s, h, t) ==
  /\ Request(s, h) /\ Races(s, h, "token")
  /\ Put(s, [NoWork EXCEPT !.job = "token", !.pc = "save", !.h = h, !.token = t])

\* The flush; the row of a household that is gone cannot be written.
SaveToken(s) ==
  /\ At(s, "save") /\ MayFlush(s)
  /\ IF work[s].h \notin alive THEN Raise(s)
     ELSE /\ Put(s, [work[s] EXCEPT !.saved = TRUE, !.pc = "pop"])
          /\ UNCHANGED <<rows, phase, memory, bounds, history>>

\* Polling fails to start: 502, and the token is not stored.
StartFails(s) == At(s, "token") /\ Raise(s)

\* delete_household, by a member of another household.
DeleteHousehold(s, h) ==
  /\ Request(s, h) /\ Races(s, h, "delete") /\ \E k \in alive : k # h
  /\ Put(s, [NoWork EXCEPT !.job = "delete", !.pc = "pop", !.h = h])

\* The rows of the household and then the user, or an error: a row that another
\* session has committed meanwhile still refers to the user.
DeleteRows(s) ==
  /\ At(s, "delete") /\ MayFlush(s)
  /\ \/ Raise(s)
     \/ /\ Put(s, [work[s] EXCEPT !.drops = TRUE, !.pc = "commit"])
        /\ UNCHANGED <<rows, phase, memory, bounds, history>>

\* unlink_telegram_account
Unlink(s, h) ==
  /\ Request(s, h)
  /\ Put(s, [NoWork EXCEPT !.job = "unlink", !.pc = "write", !.h = h, !.sees = chat[h]])
  /\ UNCHANGED raced

\* Nothing is written if the session has loaded no chat.
WriteUnlink(s) ==
  /\ At(s, "write") /\ MayFlush(s)
  /\ IF work[s].sees # None /\ work[s].h \notin alive THEN Raise(s)
     ELSE /\ Put(s, [work[s] EXCEPT !.pc = "commit",
                       !.put = IF work[s].sees = None THEN {} ELSE {<<work[s].h, None>>}])
          /\ UNCHANGED <<rows, phase, memory, bounds, history>>

\* resolve_google_user founds a household: it has the token of the settings, if they
\* have one, and nothing starts a poller for it.
Found(h) ==
  /\ phase = "up" /\ h \in unborn
  /\ alive' = alive \cup {h}
  /\ unborn' = unborn \ {h}
  /\ unstarted' = unstarted \cup {h}
  /\ UNCHANGED <<token, chat, phase, memory, work, fresh, events, stray, raced>>

\* create_telegram_link: a code for ten minutes.
CreateLink(h, k) ==
  /\ phase = "up" /\ h \in alive /\ TokenOf(h) # None /\ k \in fresh
  /\ fresh' = fresh \ {k}
  /\ codes' = [codes EXCEPT ![k] = h]
  /\ UNCHANGED <<rows, phase, bots, apps, work, unborn, events, history>>

\* _purge_expired
Expire(k) ==
  /\ codes[k] # None
  /\ codes' = [codes EXCEPT ![k] = None]
  /\ UNCHANGED <<rows, phase, bots, apps, work, bounds, history>>

-----------------------------------------------------------------------------
(* Messages *)

\* Updates are handed to one poller of the token, which handles one at a time.
Receives(s, a) ==
  /\ ~Busy(s) /\ apps[a] # None
  /\ \A t \in Sessions : work[t].via # a
  /\ UNCHANGED <<rows, phase, bots, apps, bounds, history>>

\* start_handler with a code, which is taken: any poller takes any code.
StartCommand(s, a, c, k) ==
  /\ Receives(s, a) /\ codes[k] # None
  /\ codes' = [codes EXCEPT ![k] = None]
  /\ Put(s, [NoWork EXCEPT !.job = "start", !.pc = "find", !.h = codes[k], !.chat = c,
                           !.via = a])

\* link_telegram_id looks for the household that has the chat ...
FindLinked(s) ==
  /\ At(s, "find")
  /\ \E h \in {g \in alive : chat[g] = work[s].chat} \cup {None} :
       /\ h = None => \A g \in alive : chat[g] # work[s].chat
       /\ Put(s, [work[s] EXCEPT !.found = h, !.pc = "clear"])
  /\ UNCHANGED <<rows, phase, memory, bounds, history>>

\* Fault: without autoflush, the chat is cleared and set by the same flush, in the
\* order of the primary keys.
ClearLater(s) ==
  /\ At(s, "clear")
  /\ IF work[s].h \notin alive THEN Raise(s)
     ELSE /\ Put(s, [work[s] EXCEPT !.pc = "set",
                       !.sees = IF work[s].found = work[s].h THEN work[s].chat
                                ELSE chat[work[s].h]])
          /\ UNCHANGED <<rows, phase, memory, bounds, history>>

\* ... clears it there, which the query for the user flushes, and loads the user.
Clear(s) ==
  /\ At(s, "clear") /\ MayFlush(s)
  /\ LET w == work[s]
     IN  IF w.h \notin alive \/ w.found \notin alive \cup {None} THEN Raise(s)
         ELSE /\ Put(s, [w EXCEPT !.pc = "set",
                           !.sees = IF w.found = w.h THEN w.chat ELSE chat[w.h],
                           !.put = {<<g, None>> : g \in {w.found} \ {None, w.h}}])
              /\ UNCHANGED <<rows, phase, memory, bounds, history>>

\* It sets the chat, which no other user may have.
SetChat(s) ==
  /\ At(s, "set") /\ MayFlush(s)
  /\ LET w == work[s]
         taken == \E g \in alive \ {w.h} : chat[g] = w.chat /\ <<g, None>> \notin w.put
     IN  IF w.sees # w.chat /\ (w.h \notin alive \/ taken) THEN Raise(s)
         ELSE /\ Put(s, [w EXCEPT !.pc = "commit",
                           !.put = IF w.sees = w.chat THEN @ ELSE @ \cup {<<w.h, w.chat>>}])
              /\ UNCHANGED <<rows, phase, memory, bounds, history>>

-----------------------------------------------------------------------------
(* Commit and specification *)

Commit(s) ==
  LET w == work[s]
      new(h) == {p[2] : p \in {q \in w.put : q[1] = h}}
  IN  /\ At(s, "commit")
      /\ work' = [t \in Sessions |-> IF t = s \/ ~Busy(t) THEN NoWork
                                     ELSE [work[t] EXCEPT !.alone = FALSE]]
      /\ alive' = IF w.drops THEN alive \ {w.h} ELSE alive
      /\ token' = [h \in Households |-> IF w.drops /\ h = w.h THEN None
                                        ELSE IF w.saved /\ h = w.h THEN w.token
                                        ELSE token[h]]
      /\ chat' = [h \in Households |-> IF w.drops /\ h = w.h THEN None
                                       ELSE IF new(h) # {} THEN CHOOSE c \in new(h) : TRUE
                                       ELSE chat[h]]
      /\ UNCHANGED <<phase, memory, bounds, history>>

\* get_db, get_standalone_session: the commit raises, as when the database has gone
\* away.
CommitFails(s) == At(s, "commit") /\ Raise(s)

Step(s) ==
  \/ Pop(s) \/ Stop(s) \/ Create(s) \/ Register(s) \/ BootNext(s) \/ BootFails(s)
  \/ SaveToken(s) \/ StartFails(s) \/ DeleteRows(s) \/ WriteUnlink(s)
  \/ FindLinked(s) \/ Clear(s) \/ SetChat(s) \/ Commit(s) \/ CommitFails(s)
  \/ Deadlocked(s)

Starts(s) ==
  \/ Boot(s)
  \/ \E h \in Households : \/ \E t \in Tokens : PostToken(s, h, t)
                           \/ DeleteHousehold(s, h) \/ Unlink(s, h)
  \/ \E a \in Apps, c \in Chats, k \in Codes : StartCommand(s, a, c, k)

Next ==
  \/ \E s \in Sessions : Step(s) \/ Starts(s)
  \/ \E h \in Households : Found(h)
  \/ \E h \in Households, k \in Codes : CreateLink(h, k)
  \/ \E k \in Codes : Expire(k)
  \/ Down

Spec == Init /\ [][Next]_vars

-----------------------------------------------------------------------------
(* Properties *)

\* The sessions that are changing the poller of h.
Changing(h) ==
  {s \in Sessions : work[s].job \in {"token", "delete", "boot"} /\ work[s].h = h}

\* No poller is left over: each is the registered one of its household or being
\* stopped or started, and one that nobody is changing has the stored token of a
\* household that exists, unless it was started while the household was deleted or the
\* commit of its token failed after it was started.
PollersFollowRows ==
  /\ \A a \in Apps : apps[a] # None =>
       \/ bots[apps[a].h] = a
       \/ \E s \in Changing(apps[a].h) : work[s].app = a
  /\ \A h \in Households \ (raced \cup stray) : bots[h] # None /\ Changing(h) = {} =>
       h \in alive /\ apps[bots[h]].token = TokenOf(h)

\* Every household with a token has a poller while the app is up, unless its last
\* start failed, a deletion stopped it and was rolled back, or the household was
\* founded after the app had started: one with the token of the settings then has no
\* poller until it posts a token or the app starts again.
EveryBotPolls ==
  phase = "up" =>
    \A h \in alive \ unstarted : TokenOf(h) # None /\ Changing(h) = {} => bots[h] # None

\* A chat that sends the code of a household is linked to it, wherever it was linked
\* before, unless another session commits meanwhile or ends it by a deadlock, or its
\* own commit fails.
CodeLinksTheChat ==
  [][\A s \in Sessions :
       /\ work[s].job = "start" /\ work[s].alone /\ work[s].h \in alive
       /\ work'[s] = NoWork /\ phase' # "down" /\ MayFlush(s) /\ ~CommitFails(s)
       => chat'[work[s].h] = work[s].chat]_vars
=============================================================================
