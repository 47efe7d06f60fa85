-------------------------- MODULE TelegramBotsProofs --------------------------
(***************************************************************************)
(* Theorems about TelegramBots, for every number of households, tokens,    *)
(* chats, sessions and Applications: pollers follow the rows, every        *)
(* household with a token keeps one, and a code links its chat.            *)
(***************************************************************************)
EXTENDS TelegramBots, TLAPS

-----------------------------------------------------------------------------
(* What each place of a session says of its fields *)

\* The poller of its household is out of the registry and not there again.
Swaps(w) ==
  \/ w.job \in {"token", "boot"} /\ w.h # None /\ w.pc \in {"stop", w.job, "register"}
  \/ w.job = "delete" /\ w.pc \in {"stop", "delete", "commit"}

TokenOK(w) ==
  w.job = "token" =>
    /\ w.pc \in {"save", "pop", "stop", "token", "register", "commit"}
    /\ w.h \in Households /\ w.token \in Tokens
    /\ w.put = {} /\ ~w.drops /\ (w.saved <=> w.pc # "save")

DeleteOK(w) ==
  w.job = "delete" =>
    /\ w.pc \in {"pop", "stop", "delete", "commit"}
    /\ w.h \in Households
    /\ w.put = {} /\ ~w.saved /\ (w.drops <=> w.pc = "commit")

UnlinkOK(w) ==
  w.job = "unlink" =>
    /\ w.pc \in {"write", "commit"}
    /\ w.h \in Households
    /\ w.put \subseteq {<<w.h, None>>} /\ ~w.saved /\ ~w.drops

BootOK(w) ==
  w.job = "boot" =>
    /\ w.pc \in {"boot", "pop", "stop", "register"}
    /\ w.h = None => w.pc = "boot"
    /\ w.h # None => w.token \in Tokens
    /\ w.put = {} /\ ~w.saved /\ ~w.drops

\* The chat it clears, and the one it sets.
Cleared(w) == {<<g, None>> : g \in {w.found} \ {None, w.h}}
Linked(w)  == IF w.sees = w.chat THEN {} ELSE {<<w.h, w.chat>>}

StartOK(w) ==
  w.job = "start" =>
    /\ w.pc \in {"find", "clear", "set", "commit"}
    /\ w.h \in Households /\ w.chat \in Chats
    /\ w.put = CASE w.pc = "set"    -> Cleared(w)
                 [] w.pc = "commit" -> Cleared(w) \cup Linked(w)
                 [] OTHER           -> {}
    /\ ~w.saved /\ ~w.drops

PlaceOK(w) ==
  /\ w.job = "none" => w = NoWork
  /\ TokenOK(w) /\ DeleteOK(w) /\ UnlinkOK(w) /\ BootOK(w) /\ StartOK(w)
  /\ w.app # None <=> w.pc \in {"stop", "register"}

\* An Application that a session stops or starts is its own.
AppInv ==
  /\ \A s \in Sessions : work[s].app # None =>
       /\ apps[work[s].app] # None /\ apps[work[s].app].h = work[s].h
       /\ bots[work[s].h] # work[s].app
       /\ work[s].pc = "register" => apps[work[s].app].token = work[s].token
  /\ \A s, t \in Sessions : work[s].app # None /\ work[s].app = work[t].app => s = t

\* While the app is down nothing runs, and while it starts the bots nothing else
\* changes a poller.
PhaseInv ==
  /\ phase = "down" => /\ \A s \in Sessions : work[s].job = "none"
                       /\ \A h \in Households : bots[h] = None
                       /\ \A a \in Apps : apps[a] = None
  /\ \A s \in Sessions : work[s].job = "boot" => phase = "boot"
  /\ \A s \in Sessions : work[s].job \in {"token", "delete", "unlink"} => phase = "up"
  /\ \A s, t \in Sessions : work[s].job = "boot" /\ work[t].job = "boot" => s = t
  /\ phase = "boot" => \E s \in Sessions : work[s].job = "boot"

\* The households whose bots are still to be started have a token.
BootInv ==
  \A s \in Sessions : work[s].job = "boot" =>
    /\ \A h \in work[s].left : h \in alive /\ TokenOf(h) # None
    /\ work[s].h # None => /\ work[s].h \in alive /\ TokenOf(work[s].h) # None
                           /\ work[s].token = TokenOf(work[s].h)

\* TypeOK is not inductive: a session that stops or starts an Application has one, which
\* no other has.
TypeInv ==
  /\ TypeOK
  /\ \A s \in Sessions : PlaceOK(work[s])
  /\ AppInv /\ PhaseInv /\ BootInv

-----------------------------------------------------------------------------
(* What the row locks give *)

LockInv ==
  /\ \A s, t \in Sessions : s # t => Held(s) \cap Held(t) = {}
  /\ \A s \in Sessions : work[s].saved => work[s].h \in alive

-----------------------------------------------------------------------------
(* Pollers *)

\* An Application is in one place, and nobody is in the registry for a household whose
\* poller is being replaced.
PollerInv ==
  /\ \A a \in Apps : apps[a] # None =>
       bots[apps[a].h] = a \/ \E s \in Sessions : work[s].app = a
  /\ \A s \in Sessions : Swaps(work[s]) /\ work[s].job # "delete" => bots[work[s].h] = None

\* s has registered a poller with a token that is about to be committed.
Announces(s, h) == work[s].job = "token" /\ work[s].pc = "commit" /\ work[s].h = h

TokenInv ==
  /\ \A s, t \in Sessions :
       work[s].job = "token" /\ work[t].job = "delete" /\ work[s].h = work[t].h
         => work[s].h \in raced
  /\ \A s \in Sessions :
       Swaps(work[s]) /\ work[s].job = "delete" /\ work[s].h \notin raced => bots[work[s].h] = None
  /\ \A s \in Sessions, h \in Households :
       Announces(s, h) /\ bots[h] # None => apps[bots[h]].token = work[s].token
  /\ \A h \in Households \ (raced \cup stray) : bots[h] # None =>
       \/ h \in alive /\ apps[bots[h]].token = TokenOf(h)
       \/ \E s \in Sessions : Announces(s, h)

\* A household without a poller that should have one is about to get it, or its deletion
\* has stopped it.
BotInv ==
  /\ phase = "up" => \A h \in alive \ unstarted :
       /\ TokenOf(h) # None \/ \E s \in Sessions : Announces(s, h)
       /\ bots[h] = None
       => \E s \in Sessions : Swaps(work[s]) /\ work[s].h = h
  /\ \A s \in Sessions : work[s].job = "boot" =>
       \A h \in alive \ unstarted : TokenOf(h) # None =>
         bots[h] # None \/ h \in work[s].left \/ h = work[s].h

-----------------------------------------------------------------------------
(* Chats *)

\* Chats are unique, also with those that a session is about to commit.
ChatInv ==
  /\ \A g, h \in Households : g # h /\ chat[g] # None => chat[g] # chat[h]
  /\ \A h \in Households \ alive : chat[h] = None
  /\ \A s \in Sessions : \A p \in work[s].put : p[2] # None =>
       /\ p[1] \in alive
       /\ \A g \in Households \ {p[1]} : chat[g] = p[2] => <<g, None>> \in work[s].put

\* What a session that nobody commits beside has read is still so.
LinkInv ==
  \A s \in Sessions :
    LET w == work[s]
    IN  /\ w.job = "start" /\ w.alone /\ w.pc # "find" =>
             /\ w.found # None => w.found \in alive /\ chat[w.found] = w.chat
             /\ w.found = None => \A g \in alive : chat[g] # w.chat
        /\ w.job = "start" /\ w.alone /\ w.pc \in {"set", "commit"} =>
             w.h \in alive /\ w.sees = IF w.found = w.h THEN w.chat ELSE chat[w.h]

-----------------------------------------------------------------------------
(* What each step does to its session *)

LEMMA NoWorkOK ==
  /\ NoWork \in Session /\ PlaceOK(NoWork)
  /\ NoWork.job = "none" /\ NoWork.app = None /\ NoWork.h = None /\ NoWork.put = {}
  /\ ~NoWork.saved /\ ~NoWork.drops
BY DEF NoWork, Session, PlaceOK, TokenOK, DeleteOK, UnlinkOK, BootOK, StartOK

Places ==
  {"idle", "save", "pop", "stop", "token", "register", "delete", "write", "find",
   "clear", "set", "boot", "commit"}

\* Only s moves, to a well-formed place.
Moves(s) ==
  /\ work' \in [Sessions -> Session] /\ PlaceOK(work'[s])
  /\ \A t \in Sessions \ {s} : work'[t] = work[t]

\* Its job, its household, and what it has read of chats, stay.
SameJob(s) ==
  LET v == work'[s] w == work[s]
  IN  /\ v.job = w.job /\ v.h = w.h /\ v.token = w.token /\ v.left = w.left
      /\ v.chat = w.chat /\ v.alone = w.alone

SameReads(s)  == work'[s].found = work[s].found /\ work'[s].sees = work[s].sees
SameWrites(s) ==
  work'[s].saved = work[s].saved /\ work'[s].put = work[s].put /\ work'[s].drops = work[s].drops

LEMMA WorkType ==
  ASSUME TypeInv, NEW s \in Sessions
  PROVE  work[s] \in Session /\ PlaceOK(work[s]) /\ work \in [Sessions -> Session]
BY DEF TypeInv, TypeOK

LEMMA PutMoves ==
  ASSUME TypeInv, NEW s \in Sessions, NEW v \in Session, PlaceOK(v), Put(s, v)
  PROVE  Moves(s) /\ work'[s] = v
BY WorkType DEF Put, Moves

LEMMA AppUpdate ==
  ASSUME NEW w \in Session, NEW a \in Apps \cup {None}, NEW p \in Places
  PROVE  [w EXCEPT !.app = a, !.pc = p] \in Session
BY DEF Session, Places

LEMMA PopFacts ==
  ASSUME TypeInv, NEW s \in Sessions, Pop(s)
  PROVE  /\ Moves(s) /\ SameJob(s) /\ SameReads(s) /\ SameWrites(s)
         /\ work[s].pc = "pop" /\ work[s].job \in {"token", "delete", "boot"}
         /\ work[s].h \in Households /\ work[s].app = None
         /\ bots[work[s].h] = None => work'[s].app = None /\ work'[s].pc = work[s].job
         /\ bots[work[s].h] # None => work'[s].app = bots[work[s].h] /\ work'[s].pc = "stop"
         /\ bots' = [bots EXCEPT ![work[s].h] = None]
         /\ UNCHANGED <<rows, phase, apps, codes, bounds, history>>
<1> DEFINE w == work[s]
           v == [w EXCEPT !.app = bots[w.h], !.pc = IF bots[w.h] = None THEN w.job ELSE "stop"]
<1>1. w \in Session /\ PlaceOK(w) /\ w.pc = "pop" /\ w.job # "none" /\ Put(s, v)
  BY WorkType DEF Pop, At, Busy
<1>2. w.job \in {"token", "delete", "boot"}
  BY <1>1 DEF PlaceOK, UnlinkOK, StartOK, Session
<1>3. w.h \in Households /\ w.app = None
  BY <1>1, <1>2 DEF PlaceOK, TokenOK, DeleteOK, BootOK, Session
<1>4. bots[w.h] \in Apps \cup {None}
  BY <1>3 DEF TypeInv, TypeOK
<1>5. v \in Session
  BY <1>1, <1>2, <1>4, AppUpdate DEF Places
<1>6. /\ v.job = w.job /\ v.h = w.h /\ v.token = w.token /\ v.left = w.left
      /\ v.chat = w.chat /\ v.alone = w.alone /\ v.found = w.found /\ v.sees = w.sees
      /\ v.saved = w.saved /\ v.put = w.put /\ v.drops = w.drops
      /\ v.app = bots[w.h] /\ v.pc = IF bots[w.h] = None THEN w.job ELSE "stop"
  BY <1>1 DEF Session
<1>7. Put(s, v)
  BY <1>1
<1> HIDE DEF v
<1>8. PlaceOK(v)
  <2>1. TokenOK(v)
    BY <1>1, <1>2, <1>6 DEF PlaceOK, TokenOK
  <2>2. DeleteOK(v)
    BY <1>1, <1>2, <1>6 DEF PlaceOK, DeleteOK
  <2>3. BootOK(v)
    BY <1>1, <1>2, <1>3, <1>6 DEF PlaceOK, BootOK
  <2>4. UnlinkOK(v) /\ StartOK(v) /\ v.job # "none"
    BY <1>2, <1>6 DEF UnlinkOK, StartOK
  <2>5. v.app # None <=> v.pc \in {"stop", "register"}
    BY <1>2, <1>6
  <2> QED
    BY <2>1, <2>2, <2>3, <2>4, <2>5 DEF PlaceOK
<1>9. Moves(s) /\ work'[s] = v
  BY <1>5, <1>7, <1>8, PutMoves
<1> QED
  BY <1>1, <1>2, <1>3, <1>6, <1>9 DEF Pop, SameJob, SameReads, SameWrites

LEMMA EndsMoves ==
  ASSUME TypeInv, NEW s \in Sessions, Ends(s)
  PROVE  Moves(s) /\ work'[s] = NoWork
BY PutMoves, NoWorkOK DEF Ends

LEMMA StopFacts ==
  ASSUME TypeInv, NEW s \in Sessions, Stop(s)
  PROVE  /\ Moves(s) /\ SameJob(s) /\ SameReads(s) /\ SameWrites(s)
         /\ work[s].pc = "stop" /\ work[s].job \in {"token", "delete", "boot"}
         /\ work[s].h \in Households /\ work[s].app \in Apps
         /\ work'[s].app = None /\ work'[s].pc = work[s].job
         /\ apps' = [apps EXCEPT ![work[s].app] = None]
         /\ UNCHANGED <<rows, phase, bots, codes, bounds, history>>
<1> DEFINE w == work[s]
           v == [w EXCEPT !.app = None, !.pc = w.job]
<1>1. w \in Session /\ PlaceOK(w) /\ w.pc = "stop" /\ w.job # "none" /\ Put(s, v)
  BY WorkType DEF Stop, At, Busy
<1>2. w.job \in {"token", "delete", "boot"}
  BY <1>1 DEF PlaceOK, UnlinkOK, StartOK, Session
<1>3. w.h \in Households /\ w.app \in Apps
  BY <1>1, <1>2 DEF PlaceOK, TokenOK, DeleteOK, BootOK, Session
<1>5. v \in Session
  BY <1>1, <1>2, AppUpdate DEF Places
<1>6. /\ v.job = w.job /\ v.h = w.h /\ v.token = w.token /\ v.left = w.left
      /\ v.chat = w.chat /\ v.alone = w.alone /\ v.found = w.found /\ v.sees = w.sees
      /\ v.saved = w.saved /\ v.put = w.put /\ v.drops = w.drops
      /\ v.app = None /\ v.pc = w.job
  BY <1>1 DEF Session
<1>7. Put(s, v)
  BY <1>1
<1> HIDE DEF v
<1>8. PlaceOK(v)
  <2>1. TokenOK(v)
    BY <1>1, <1>2, <1>6 DEF PlaceOK, TokenOK
  <2>2. DeleteOK(v)
    BY <1>1, <1>2, <1>6 DEF PlaceOK, DeleteOK
  <2>3. BootOK(v)
    BY <1>1, <1>2, <1>3, <1>6 DEF PlaceOK, BootOK
  <2>4. UnlinkOK(v) /\ StartOK(v) /\ v.job # "none"
    BY <1>2, <1>6 DEF UnlinkOK, StartOK
  <2>5. v.app # None <=> v.pc \in {"stop", "register"}
    BY <1>2, <1>6
  <2> QED
    BY <2>1, <2>2, <2>3, <2>4, <2>5 DEF PlaceOK
<1>9. Moves(s) /\ work'[s] = v
  BY <1>5, <1>7, <1>8, PutMoves
<1> QED
  BY <1>1, <1>2, <1>3, <1>6, <1>9 DEF Stop, SameJob, SameReads, SameWrites

LEMMA CreateFacts ==
  ASSUME TypeInv, NEW s \in Sessions, Create(s)
  PROVE  /\ Moves(s) /\ SameJob(s) /\ SameReads(s) /\ SameWrites(s)
         /\ work[s].pc = work[s].job /\ work[s].job \in {"token", "boot"}
         /\ work[s].h \in Households /\ work[s].app = None /\ work[s].token \in Tokens
         /\ work'[s].pc = "register"
         /\ \E a \in Apps :
              /\ apps[a] = None /\ work'[s].app = a
              /\ apps' = [apps EXCEPT ![a] = [h |-> work[s].h, token |-> work[s].token]]
         /\ UNCHANGED <<rows, phase, bots, codes, bounds, history>>
<1>0. PICK a \in Apps :
        /\ apps[a] = None
        /\ apps' = [apps EXCEPT ![a] = [h |-> work[s].h, token |-> work[s].token]]
        /\ Put(s, [work[s] EXCEPT !.app = a, !.pc = "register"])
  BY DEF Create
<1> DEFINE w == work[s]
           v == [w EXCEPT !.app = a, !.pc = "register"]
<1>1. w \in Session /\ PlaceOK(w) /\ w.pc = w.job /\ w.job \in {"token", "boot"} /\ w.h # None
  BY WorkType DEF Create, At
<1>3. w.h \in Households /\ w.app = None /\ w.token \in Tokens
  BY <1>1 DEF PlaceOK, TokenOK, BootOK, Session
<1>5. v \in Session
  BY <1>1, AppUpdate DEF Places
<1>6. /\ v.job = w.job /\ v.h = w.h /\ v.token = w.token /\ v.left = w.left
      /\ v.chat = w.chat /\ v.alone = w.alone /\ v.found = w.found /\ v.sees = w.sees
      /\ v.saved = w.saved /\ v.put = w.put /\ v.drops = w.drops
      /\ v.app = a /\ v.pc = "register"
  BY <1>1 DEF Session
<1>7. Put(s, v)
  BY <1>0
<1> HIDE DEF v
<1>8. PlaceOK(v)
  <2>1. TokenOK(v)
    BY <1>1, <1>6 DEF PlaceOK, TokenOK
  <2>3. BootOK(v)
    BY <1>1, <1>3, <1>6, BotsAssumption DEF PlaceOK, BootOK
  <2>4. DeleteOK(v) /\ UnlinkOK(v) /\ StartOK(v) /\ v.job # "none"
    BY <1>1, <1>6 DEF DeleteOK, UnlinkOK, StartOK
  <2>5. v.app # None <=> v.pc \in {"stop", "register"}
    BY <1>6, BotsAssumption
  <2> QED
    BY <2>1, <2>3, <2>4, <2>5 DEF PlaceOK
<1>9. Moves(s) /\ work'[s] = v
  BY <1>5, <1>7, <1>8, PutMoves
<1> QED
  BY <1>0, <1>1, <1>3, <1>6, <1>9 DEF Create, SameJob, SameReads, SameWrites

LEMMA BootUpdate ==
  ASSUME NEW w \in Session, NEW h \in Households \cup {None}, NEW t \in Tokens \cup {None}
  PROVE  [w EXCEPT !.h = h, !.token = t] \in Session
BY ZenonT(60) DEF Session

LEMMA LeftUpdate ==
  ASSUME NEW w \in Session, NEW L \in SUBSET Households
  PROVE  [w EXCEPT !.left = L, !.pc = "pop"] \in Session
BY ZenonT(60) DEF Session

LEMMA RegisterUpdate ==
  ASSUME NEW w \in Session
  PROVE  [w EXCEPT !.app = None, !.h = None, !.token = None, !.pc = "boot"] \in Session
<1> DEFINE u == [w EXCEPT !.h = None, !.token = None]
<1>1. u \in Session
  BY BootUpdate
<1>2. [u EXCEPT !.app = None, !.pc = "boot"] \in Session
  BY <1>1, AppUpdate DEF Places
<1>3. [u EXCEPT !.app = None, !.pc = "boot"]
        = [w EXCEPT !.app = None, !.h = None, !.token = None, !.pc = "boot"]
  BY DEF Session
<1> QED
  BY <1>2, <1>3

LEMMA RegisterFacts ==
  ASSUME TypeInv, NEW s \in Sessions, Register(s)
  PROVE  /\ Moves(s) /\ SameReads(s) /\ SameWrites(s)
         /\ work'[s].job = work[s].job /\ work'[s].left = work[s].left
         /\ work[s].pc = "register" /\ work[s].job \in {"token", "boot"}
         /\ work[s].h \in Households /\ work[s].app \in Apps /\ work[s].token \in Tokens
         /\ work'[s].app = None
         /\ work[s].job = "token" => /\ work'[s].h = work[s].h /\ work'[s].token = work[s].token
                                     /\ work'[s].pc = "commit"
         /\ work[s].job = "boot" => /\ work'[s].h = None /\ work'[s].token = None
                                    /\ work'[s].pc = "boot"
         /\ bots' = [bots EXCEPT ![work[s].h] = work[s].app]
         /\ unstarted' = unstarted \ {work[s].h} /\ stray' = stray \ {work[s].h}
         /\ UNCHANGED <<rows, phase, apps, codes, bounds, raced>>
<1> DEFINE w == work[s]
<1>1. w \in Session /\ PlaceOK(w) /\ w.pc = "register" /\ w.job # "none"
  BY WorkType DEF Register, At, Busy
<1>2. w.job \in {"token", "boot"}
  BY <1>1 DEF PlaceOK, DeleteOK, UnlinkOK, StartOK, Session
<1>3. w.h \in Households /\ w.app \in Apps /\ w.token \in Tokens
  BY <1>1, <1>2 DEF PlaceOK, TokenOK, BootOK, Session
<1>4. CASE w.job = "token"
  <2> DEFINE v == [w EXCEPT !.app = None, !.pc = "commit"]
  <2>1. v \in Session
    BY <1>1, AppUpdate DEF Places
  <2>2. /\ v.job = w.job /\ v.h = w.h /\ v.token = w.token /\ v.left = w.left
        /\ v.found = w.found /\ v.sees = w.sees
        /\ v.saved = w.saved /\ v.put = w.put /\ v.drops = w.drops
        /\ v.app = None /\ v.pc = "commit"
    BY <1>1 DEF Session
  <2>3. Put(s, v)
    BY <1>4 DEF Register
  <2> HIDE DEF v
  <2>4. TokenOK(v)
    BY <1>1, <1>4, <2>2 DEF PlaceOK, TokenOK
  <2>5. PlaceOK(v)
    BY <1>4, <2>2, <2>4 DEF PlaceOK, BootOK, DeleteOK, UnlinkOK, StartOK
  <2>6. Moves(s) /\ work'[s] = v
    BY <2>1, <2>3, <2>5, PutMoves
  <2> QED
    BY <1>1, <1>3, <1>4, <2>2, <2>6 DEF Register, SameReads, SameWrites
<1>5. CASE w.job = "boot"
  <2> DEFINE v == [w EXCEPT !.app = None, !.h = None, !.token = None, !.pc = "boot"]
  <2>1. v \in Session
    BY <1>1, RegisterUpdate
  <2>2. /\ v.job = w.job /\ v.h = None /\ v.token = None /\ v.left = w.left
        /\ v.found = w.found /\ v.sees = w.sees
        /\ v.saved = w.saved /\ v.put = w.put /\ v.drops = w.drops
        /\ v.app = None /\ v.pc = "boot"
    BY <1>1 DEF Session
  <2>3. Put(s, v)
    BY <1>5 DEF Register
  <2> HIDE DEF v
  <2>4. BootOK(v)
    BY <1>1, <1>5, <2>2 DEF PlaceOK, BootOK
  <2>5. PlaceOK(v)
    BY <1>5, <2>2, <2>4 DEF PlaceOK, TokenOK, DeleteOK, UnlinkOK, StartOK
  <2>6. Moves(s) /\ work'[s] = v
    BY <2>1, <2>3, <2>5, PutMoves
  <2> QED
    BY <1>1, <1>3, <1>5, <2>2, <2>6 DEF Register, SameReads, SameWrites
<1> QED
  BY <1>2, <1>4, <1>5

LEMMA NextBotUpdate ==
  ASSUME NEW w \in Session, NEW h \in Households, NEW t \in Tokens, NEW L \in SUBSET Households
  PROVE  [w EXCEPT !.h = h, !.token = t, !.pc = "pop", !.left = L] \in Session
<1> DEFINE u == [w EXCEPT !.h = h, !.token = t]
<1>1. u \in Session
  BY BootUpdate
<1>2. [u EXCEPT !.left = L, !.pc = "pop"] \in Session
  BY <1>1, LeftUpdate
<1>3. [u EXCEPT !.left = L, !.pc = "pop"]
        = [w EXCEPT !.h = h, !.token = t, !.pc = "pop", !.left = L]
  BY DEF Session
<1> QED
  BY <1>2, <1>3

\* The next household, or the app serves requests.
LEMMA BootNextFacts ==
  ASSUME TypeInv, NEW s \in Sessions, BootNext(s)
  PROVE  /\ Moves(s)
         /\ work[s].job = "boot" /\ work[s].h = None /\ work[s].app = None
         /\ \/ work[s].left = {} /\ phase' = "up" /\ work'[s] = NoWork
            \/ /\ phase' = phase /\ SameReads(s) /\ SameWrites(s)
               /\ work'[s].job = "boot" /\ work'[s].pc = "pop" /\ work'[s].app = None
               /\ \E h \in work[s].left : /\ work'[s].h = h /\ work'[s].token = TokenOf(h)
                                          /\ work'[s].left = work[s].left \ {h}
         /\ UNCHANGED <<rows, memory, bounds, history>>
<1> DEFINE w == work[s]
<1>1. w \in Session /\ PlaceOK(w) /\ w.job = "boot" /\ w.h = None
  BY WorkType DEF BootNext
<1>2. w.pc = "boot" /\ w.app = None /\ w.left \in SUBSET Households
  BY <1>1 DEF PlaceOK, BootOK, Session
<1>3. CASE w.left = {}
  BY <1>1, <1>2, <1>3, EndsMoves DEF BootNext
<1>4. CASE w.left # {}
  <2>1. PICK h \in w.left :
          Put(s, [w EXCEPT !.h = h, !.token = TokenOf(h), !.pc = "pop", !.left = w.left \ {h}])
    BY <1>4 DEF BootNext
  <2> DEFINE v == [w EXCEPT !.h = h, !.token = TokenOf(h), !.pc = "pop", !.left = w.left \ {h}]
  <2>2. h \in Households /\ TokenOf(h) \in Tokens
    BY <1>1, <1>2, BotsAssumption DEF TokenOf, TypeInv, TypeOK, BootInv
  <2>3. v \in Session
    BY <1>1, <1>2, <2>2, NextBotUpdate
  <2>4. /\ v.job = w.job /\ v.h = h /\ v.token = TokenOf(h) /\ v.left = w.left \ {h}
        /\ v.found = w.found /\ v.sees = w.sees
        /\ v.saved = w.saved /\ v.put = w.put /\ v.drops = w.drops
        /\ v.app = w.app /\ v.pc = "pop"
    BY <1>1 DEF Session
  <2>5. Put(s, v)
    BY <2>1
  <2> HIDE DEF v
  <2>6. BootOK(v)
    BY <1>1, <1>2, <2>2, <2>4, BotsAssumption DEF PlaceOK, BootOK
  <2>7. PlaceOK(v)
    BY <1>1, <1>2, <2>4, <2>6 DEF PlaceOK, TokenOK, DeleteOK, UnlinkOK, StartOK
  <2>8. Moves(s) /\ work'[s] = v
    BY <2>3, <2>5, <2>7, PutMoves
  <2> QED
    BY <1>1, <1>2, <1>4, <2>4, <2>8 DEF BootNext, SameReads, SameWrites
<1> QED
  BY <1>3, <1>4

LEMMA BootFailsFacts ==
  ASSUME TypeInv, NEW s \in Sessions, BootFails(s)
  PROVE  /\ Moves(s) /\ SameReads(s) /\ SameWrites(s)
         /\ work[s].job = "boot" /\ work[s].pc = "boot" /\ work[s].h \in Households
         /\ work[s].app = None
         /\ work'[s].job = "boot" /\ work'[s].pc = "boot" /\ work'[s].app = None
         /\ work'[s].h = None /\ work'[s].token = None /\ work'[s].left = work[s].left
         /\ unstarted' = unstarted \cup {work[s].h}
         /\ UNCHANGED <<rows, phase, memory, bounds, stray, raced>>
<1> DEFINE w == work[s]
           v == [w EXCEPT !.h = None, !.token = None]
<1>1. w \in Session /\ PlaceOK(w) /\ w.job = "boot" /\ w.pc = "boot" /\ w.h # None /\ Put(s, v)
  BY WorkType DEF BootFails, At
<1>2. w.h \in Households /\ w.app = None
  BY <1>1 DEF PlaceOK, Session
<1>3. v \in Session
  BY <1>1, BootUpdate
<1>4. /\ v.job = w.job /\ v.h = None /\ v.token = None /\ v.left = w.left
      /\ v.found = w.found /\ v.sees = w.sees
      /\ v.saved = w.saved /\ v.put = w.put /\ v.drops = w.drops
      /\ v.app = w.app /\ v.pc = w.pc
  BY <1>1 DEF Session
<1>5. Put(s, v)
  BY <1>1
<1> HIDE DEF v
<1>6. BootOK(v)
  BY <1>1, <1>4 DEF PlaceOK, BootOK
<1>7. PlaceOK(v)
  BY <1>1, <1>2, <1>4, <1>6 DEF PlaceOK, TokenOK, DeleteOK, UnlinkOK, StartOK
<1>8. Moves(s) /\ work'[s] = v
  BY <1>3, <1>5, <1>7, PutMoves
<1> QED
  BY <1>1, <1>2, <1>4, <1>8 DEF BootFails, SameReads, SameWrites

\* An exception takes the session away.
LEMMA RaiseFacts ==
  ASSUME TypeInv, NEW s \in Sessions, Raise(s)
  PROVE  /\ Moves(s) /\ work'[s] = NoWork
         /\ UNCHANGED <<rows, phase, memory, bounds, raced>>
         /\ unstarted' = IF work[s].job \in {"token", "delete"} /\ bots[work[s].h] = None
                         THEN unstarted \cup {work[s].h} ELSE unstarted
         /\ stray' = IF work[s].job = "token" /\ work[s].pc = "commit" /\ bots[work[s].h] # None
                     THEN stray \cup {work[s].h} ELSE stray
BY EndsMoves DEF Raise

LEMMA SavedUpdate ==
  ASSUME NEW w \in Session, NEW p \in Places
  PROVE  /\ [w EXCEPT !.saved = TRUE, !.pc = p] \in Session
         /\ [w EXCEPT !.drops = TRUE, !.pc = p] \in Session
<1>1. [w EXCEPT !.saved = TRUE, !.pc = p] \in Session
  BY Zenon DEF Session, Places
<1>2. [w EXCEPT !.drops = TRUE, !.pc = p] \in Session
  BY Zenon DEF Session, Places
<1> QED
  BY <1>1, <1>2

LEMMA SaveFacts ==
  ASSUME TypeInv, NEW s \in Sessions, SaveToken(s), work[s].h \in alive
  PROVE  /\ Moves(s) /\ SameJob(s) /\ SameReads(s)
         /\ work[s].pc = "save" /\ work[s].job = "token" /\ work[s].app = None
         /\ work[s].h \in Households
         /\ work'[s].app = None /\ work'[s].pc = "pop"
         /\ work'[s].saved /\ work'[s].put = work[s].put /\ work'[s].drops = work[s].drops
         /\ MayFlush(s)
         /\ UNCHANGED <<rows, phase, memory, bounds, history>>
<1> DEFINE w == work[s]
           v == [w EXCEPT !.saved = TRUE, !.pc = "pop"]
<1>1. w \in Session /\ PlaceOK(w) /\ w.pc = "save" /\ w.job # "none" /\ Put(s, v)
  BY WorkType DEF SaveToken, At, Busy
<1>2. w.job = "token"
  BY <1>1 DEF PlaceOK, DeleteOK, UnlinkOK, StartOK, BootOK, Session
<1>3. w.h \in Households /\ w.app = None
  BY <1>1, <1>2 DEF PlaceOK, TokenOK, Session
<1>5. v \in Session
  BY <1>1, SavedUpdate DEF Places
<1>6. /\ v.job = w.job /\ v.h = w.h /\ v.token = w.token /\ v.left = w.left
      /\ v.chat = w.chat /\ v.alone = w.alone /\ v.found = w.found /\ v.sees = w.sees
      /\ v.saved = TRUE /\ v.put = w.put /\ v.drops = w.drops
      /\ v.app = w.app /\ v.pc = "pop"
  BY <1>1 DEF Session
<1>7. Put(s, v)
  BY <1>1
<1> HIDE DEF v
<1>8. TokenOK(v)
  BY <1>1, <1>2, <1>6 DEF PlaceOK, TokenOK
<1>9. PlaceOK(v)
  BY <1>2, <1>3, <1>6, <1>8 DEF PlaceOK, BootOK, DeleteOK, UnlinkOK, StartOK
<1>10. Moves(s) /\ work'[s] = v
  BY <1>5, <1>7, <1>9, PutMoves
<1> QED
  BY <1>1, <1>2, <1>3, <1>6, <1>10 DEF SaveToken, SameJob, SameReads

LEMMA DeleteFacts ==
  ASSUME TypeInv, NEW s \in Sessions, DeleteRows(s), ~Raise(s)
  PROVE  /\ Moves(s) /\ SameJob(s) /\ SameReads(s)
         /\ work[s].pc = "delete" /\ work[s].job = "delete" /\ work[s].app = None
         /\ work[s].h \in Households
         /\ work'[s].app = None /\ work'[s].pc = "commit"
         /\ work'[s].saved = work[s].saved /\ work'[s].put = work[s].put /\ work'[s].drops
         /\ MayFlush(s)
         /\ UNCHANGED <<rows, phase, memory, bounds, history>>
<1> DEFINE w == work[s]
           v == [w EXCEPT !.drops = TRUE, !.pc = "commit"]
<1>1. w \in Session /\ PlaceOK(w) /\ w.pc = "delete" /\ w.job # "none" /\ Put(s, v)
  BY WorkType DEF DeleteRows, At, Busy
<1>2. w.job = "delete"
  BY <1>1 DEF PlaceOK, TokenOK, UnlinkOK, StartOK, BootOK, Session
<1>3. w.h \in Households /\ w.app = None
  BY <1>1, <1>2 DEF PlaceOK, DeleteOK, Session
<1>5. v \in Session
  BY <1>1, SavedUpdate DEF Places
<1>6. /\ v.job = w.job /\ v.h = w.h /\ v.token = w.token /\ v.left = w.left
      /\ v.chat = w.chat /\ v.alone = w.alone /\ v.found = w.found /\ v.sees = w.sees
      /\ v.saved = w.saved /\ v.put = w.put /\ v.drops = TRUE
      /\ v.app = w.app /\ v.pc = "commit"
  BY <1>1 DEF Session
<1>7. Put(s, v)
  BY <1>1
<1> HIDE DEF v
<1>8. DeleteOK(v)
  BY <1>1, <1>2, <1>6 DEF PlaceOK, DeleteOK
<1>9. PlaceOK(v)
  BY <1>2, <1>3, <1>6, <1>8 DEF PlaceOK, BootOK, TokenOK, UnlinkOK, StartOK
<1>10. Moves(s) /\ work'[s] = v
  BY <1>5, <1>7, <1>9, PutMoves
<1> QED
  BY <1>1, <1>2, <1>3, <1>6, <1>10 DEF DeleteRows, SameJob, SameReads

LEMMA PutUpdate ==
  ASSUME NEW w \in Session, NEW P \in SUBSET (Households \X (Chats \cup {None}))
  PROVE  /\ [w EXCEPT !.pc = "set", !.put = P] \in Session
         /\ [w EXCEPT !.pc = "commit", !.put = P] \in Session
<1>1. [w EXCEPT !.pc = "set", !.put = P] \in Session
  BY ZenonT(60) DEF Session
<1>2. [w EXCEPT !.pc = "commit", !.put = P] \in Session
  BY ZenonT(60) DEF Session
<1> QED
  BY <1>1, <1>2

LEMMA FoundUpdate ==
  ASSUME NEW w \in Session, NEW h \in Households \cup {None}
  PROVE  [w EXCEPT !.found = h, !.pc = "clear"] \in Session
BY ZenonT(60) DEF Session

LEMMA SeesUpdate ==
  ASSUME NEW w \in Session, NEW c \in Chats \cup {None}
  PROVE  [w EXCEPT !.sees = c] \in Session
BY ZenonT(60) DEF Session

LEMMA UnlinkFacts ==
  ASSUME TypeInv, NEW s \in Sessions, WriteUnlink(s), ~Raise(s)
  PROVE  /\ Moves(s) /\ SameJob(s) /\ SameReads(s)
         /\ work[s].pc = "write" /\ work[s].job = "unlink" /\ work[s].app = None
         /\ work[s].h \in Households
         /\ work'[s].app = None /\ work'[s].pc = "commit"
         /\ work'[s].saved = work[s].saved /\ work'[s].drops = work[s].drops
         /\ work'[s].put = IF work[s].sees = None THEN {} ELSE {<<work[s].h, None>>}
         /\ MayFlush(s)
         /\ UNCHANGED <<rows, phase, memory, bounds, history>>
<1> DEFINE w == work[s]
           P == IF w.sees = None THEN {} ELSE {<<w.h, None>>}
           v == [w EXCEPT !.pc = "commit", !.put = P]
<1>1. w \in Session /\ PlaceOK(w) /\ w.pc = "write" /\ w.job # "none" /\ Put(s, v)
  BY WorkType DEF WriteUnlink, At, Busy
<1>2. w.job = "unlink"
  BY <1>1 DEF PlaceOK, TokenOK, DeleteOK, StartOK, BootOK, Session
<1>3. w.h \in Households /\ w.app = None
  BY <1>1, <1>2 DEF PlaceOK, UnlinkOK, Session
<1>4. P \in SUBSET (Households \X (Chats \cup {None}))
  BY <1>3
<1>5. v \in Session
  BY <1>1, <1>4, PutUpdate
<1>6. /\ v.job = w.job /\ v.h = w.h /\ v.token = w.token /\ v.left = w.left
      /\ v.chat = w.chat /\ v.alone = w.alone /\ v.found = w.found /\ v.sees = w.sees
      /\ v.saved = w.saved /\ v.put = P /\ v.drops = w.drops
      /\ v.app = w.app /\ v.pc = "commit"
  BY <1>1 DEF Session
<1>7. Put(s, v)
  BY <1>1
<1> HIDE DEF v
<1>8. UnlinkOK(v)
  BY <1>1, <1>2, <1>6 DEF PlaceOK, UnlinkOK
<1>9. PlaceOK(v)
  BY <1>2, <1>3, <1>6, <1>8 DEF PlaceOK, BootOK, TokenOK, DeleteOK, StartOK
<1>10. Moves(s) /\ work'[s] = v
  BY <1>5, <1>7, <1>9, PutMoves
<1> QED
  BY <1>1, <1>2, <1>3, <1>6, <1>10 DEF WriteUnlink, SameJob, SameReads

LEMMA FindFacts ==
  ASSUME TypeInv, NEW s \in Sessions, FindLinked(s)
  PROVE  /\ Moves(s) /\ SameJob(s) /\ SameWrites(s)
         /\ work[s].pc = "find" /\ work[s].job = "start" /\ work[s].app = None
         /\ work[s].h \in Households
         /\ work'[s].app = None /\ work'[s].pc = "clear" /\ work'[s].put = {}
         /\ work'[s].found # None => /\ work'[s].found \in alive
                                     /\ chat[work'[s].found] = work[s].chat
         /\ work'[s].found = None => \A g \in alive : chat[g] # work[s].chat
         /\ UNCHANGED <<rows, phase, memory, bounds, history>>
<1>0. PICK h \in {g \in alive : chat[g] = work[s].chat} \cup {None} :
        /\ h = None => \A g \in alive : chat[g] # work[s].chat
        /\ Put(s, [work[s] EXCEPT !.found = h, !.pc = "clear"])
  BY DEF FindLinked
<1> DEFINE w == work[s]
           v == [w EXCEPT !.found = h, !.pc = "clear"]
<1>1. w \in Session /\ PlaceOK(w) /\ w.pc = "find" /\ w.job # "none"
  BY WorkType DEF FindLinked, At, Busy
<1>2. w.job = "start"
  BY <1>1 DEF PlaceOK, TokenOK, DeleteOK, UnlinkOK, BootOK, Session
<1>3. w.h \in Households /\ w.app = None /\ w.put = {}
  BY <1>1, <1>2 DEF PlaceOK, StartOK, Session
<1>4. h \in Households \cup {None}
  BY DEF TypeInv, TypeOK
<1>5. v \in Session
  BY <1>1, <1>4, FoundUpdate
<1>6. /\ v.job = w.job /\ v.h = w.h /\ v.token = w.token /\ v.left = w.left
      /\ v.chat = w.chat /\ v.alone = w.alone /\ v.found = h /\ v.sees = w.sees
      /\ v.saved = w.saved /\ v.put = w.put /\ v.drops = w.drops
      /\ v.app = w.app /\ v.pc = "clear"
  BY <1>1 DEF Session
<1>7. Put(s, v)
  BY <1>0
<1> HIDE DEF v
<1>8. StartOK(v)
  BY <1>1, <1>2, <1>3, <1>6 DEF PlaceOK, StartOK
<1>9. PlaceOK(v)
  BY <1>2, <1>3, <1>6, <1>8 DEF PlaceOK, BootOK, TokenOK, DeleteOK, UnlinkOK
<1>10. Moves(s) /\ work'[s] = v
  BY <1>5, <1>7, <1>9, PutMoves
<1> QED
  BY <1>0, <1>1, <1>2, <1>3, <1>6, <1>10 DEF FindLinked, SameJob, SameWrites

LEMMA ClearFacts ==
  ASSUME TypeInv, NEW s \in Sessions, Clear(s), ~Raise(s)
  PROVE  /\ Moves(s) /\ SameJob(s)
         /\ work[s].pc = "clear" /\ work[s].job = "start" /\ work[s].app = None
         /\ work[s].h \in Households /\ work[s].put = {}
         /\ work[s].h \in alive /\ work[s].found \in alive \cup {None}
         /\ work'[s].app = None /\ work'[s].pc = "set"
         /\ work'[s].saved = work[s].saved /\ work'[s].drops = work[s].drops
         /\ work'[s].found = work[s].found
         /\ work'[s].sees = IF work[s].found = work[s].h THEN work[s].chat ELSE chat[work[s].h]
         /\ work'[s].put = Cleared(work[s])
         /\ MayFlush(s)
         /\ UNCHANGED <<rows, phase, memory, bounds, history>>
<1> DEFINE w == work[s]
           c == IF w.found = w.h THEN w.chat ELSE chat[w.h]
           P == {<<g, None>> : g \in {w.found} \ {None, w.h}}
           v == [w EXCEPT !.pc = "set", !.sees = c, !.put = P]
<1>1. /\ w \in Session /\ PlaceOK(w) /\ w.pc = "clear" /\ w.job # "none" /\ Put(s, v)
      /\ w.h \in alive /\ w.found \in alive \cup {None}
  BY WorkType DEF Clear, At, Busy
<1>2. w.job = "start"
  BY <1>1 DEF PlaceOK, TokenOK, DeleteOK, UnlinkOK, BootOK, Session
<1>3. w.h \in Households /\ w.app = None /\ w.put = {} /\ w.chat \in Chats
  BY <1>1, <1>2 DEF PlaceOK, StartOK, Session
<1>4. /\ P \in SUBSET (Households \X (Chats \cup {None}))
      /\ c \in Chats \cup {None}
  <2>1. w.found \in Households \cup {None} /\ chat[w.h] \in Chats \cup {None}
    BY <1>1, <1>3 DEF Session, TypeInv, TypeOK
  <2> QED
    BY <1>3, <2>1
<1>5. v \in Session
  <2> DEFINE u == [w EXCEPT !.sees = c]
  <2> HIDE DEF c, P
  <2>1. u \in Session
    BY <1>1, <1>4, SeesUpdate
  <2>2. [u EXCEPT !.pc = "set", !.put = P] \in Session
    BY <1>4, <2>1, PutUpdate
  <2>3. [u EXCEPT !.pc = "set", !.put = P] = v
    BY <1>1 DEF Session
  <2> QED
    BY <2>2, <2>3
<1>6. /\ v.job = w.job /\ v.h = w.h /\ v.token = w.token /\ v.left = w.left
      /\ v.chat = w.chat /\ v.alone = w.alone /\ v.found = w.found /\ v.sees = c
      /\ v.saved = w.saved /\ v.put = P /\ v.drops = w.drops
      /\ v.app = w.app /\ v.pc = "set"
  BY <1>1 DEF Session
<1>7. Put(s, v)
  BY <1>1
<1> HIDE DEF v
<1>11. v.put = Cleared(v) /\ P = Cleared(w)
  BY <1>6 DEF Cleared
<1>8. StartOK(v)
  BY <1>1, <1>2, <1>3, <1>6, <1>11 DEF PlaceOK, StartOK
<1>9. PlaceOK(v)
  BY <1>2, <1>3, <1>6, <1>8 DEF PlaceOK, BootOK, TokenOK, DeleteOK, UnlinkOK
<1>10. Moves(s) /\ work'[s] = v
  BY <1>5, <1>7, <1>9, PutMoves
<1> QED
  BY <1>1, <1>2, <1>3, <1>6, <1>10, <1>11 DEF Clear, SameJob

LEMMA SetFacts ==
  ASSUME TypeInv, NEW s \in Sessions, SetChat(s), ~Raise(s)
  PROVE  /\ Moves(s) /\ SameJob(s) /\ SameReads(s)
         /\ work[s].pc = "set" /\ work[s].job = "start" /\ work[s].app = None
         /\ work[s].h \in Households /\ work[s].chat \in Chats
         /\ work[s].put = Cleared(work[s])
         /\ work'[s].app = None /\ work'[s].pc = "commit"
         /\ work'[s].saved = work[s].saved /\ work'[s].drops = work[s].drops
         /\ work'[s].put = Cleared(work[s]) \cup Linked(work[s])
         /\ work[s].sees # work[s].chat =>
              /\ work[s].h \in alive
              /\ \A g \in alive \ {work[s].h} : chat[g] = work[s].chat => <<g, None>> \in work[s].put
         /\ MayFlush(s)
         /\ UNCHANGED <<rows, phase, memory, bounds, history>>
<1> DEFINE w == work[s]
           P == IF w.sees = w.chat THEN w.put ELSE w.put \cup {<<w.h, w.chat>>}
           v == [w EXCEPT !.pc = "commit", !.put = P]
<1>1. /\ w \in Session /\ PlaceOK(w) /\ w.pc = "set" /\ w.job # "none"
  BY WorkType DEF SetChat, At, Busy
<1>12. v = [w EXCEPT !.pc = "commit",
                       !.put = IF w.sees = w.chat THEN @ ELSE @ \cup {<<w.h, w.chat>>}]
  BY <1>1 DEF Session
<1>13. /\ Put(s, v)
       /\ w.sees # w.chat =>
            /\ w.h \in alive
            /\ ~(\E g \in alive \ {w.h} : chat[g] = w.chat /\ <<g, None>> \notin w.put)
  BY <1>12 DEF SetChat
<1>2. w.job = "start"
  BY <1>1 DEF PlaceOK, TokenOK, DeleteOK, UnlinkOK, BootOK, Session
<1>3. w.h \in Households /\ w.app = None /\ w.put = Cleared(w) /\ w.chat \in Chats
  BY <1>1, <1>2 DEF PlaceOK, StartOK, Session
<1>4. P \in SUBSET (Households \X (Chats \cup {None}))
  <2>1. w.put \in SUBSET (Households \X (Chats \cup {None}))
    BY <1>1 DEF Session
  <2> QED
    BY <1>3, <2>1
<1>5. v \in Session
  BY <1>1, <1>4, PutUpdate
<1>6. /\ v.job = w.job /\ v.h = w.h /\ v.token = w.token /\ v.left = w.left
      /\ v.chat = w.chat /\ v.alone = w.alone /\ v.found = w.found /\ v.sees = w.sees
      /\ v.saved = w.saved /\ v.put = P /\ v.drops = w.drops
      /\ v.app = w.app /\ v.pc = "commit"
  BY <1>1 DEF Session
<1>7. Put(s, v)
  BY <1>13
<1>11. P = Cleared(w) \cup Linked(w) /\ P = Cleared(v) \cup Linked(v)
  BY <1>3, <1>6 DEF Cleared, Linked
<1> HIDE DEF v, P
<1>8. StartOK(v)
  BY <1>1, <1>2, <1>3, <1>6, <1>11 DEF PlaceOK, StartOK
<1>9. PlaceOK(v)
  BY <1>2, <1>3, <1>6, <1>8 DEF PlaceOK, BootOK, TokenOK, DeleteOK, UnlinkOK
<1>10. Moves(s) /\ work'[s] = v
  BY <1>5, <1>7, <1>9, PutMoves
<1>14. MayFlush(s) /\ UNCHANGED <<rows, phase, memory, bounds, history>>
  BY <1>12, <1>13 DEF SetChat, Raise
<1> QED
  BY <1>1, <1>2, <1>3, <1>6, <1>10, <1>11, <1>13, <1>14 DEF SameJob, SameReads

\* A commit ends s, and the others have no longer been alone.
SameFields(t) ==
  LET v == work'[t] w == work[t]
  IN  /\ v.job = w.job /\ v.pc = w.pc /\ v.h = w.h /\ v.token = w.token /\ v.chat = w.chat
      /\ v.via = w.via /\ v.app = w.app /\ v.found = w.found /\ v.sees = w.sees
      /\ v.left = w.left /\ v.saved = w.saved /\ v.put = w.put /\ v.drops = w.drops

LEMMA SameFieldsOK ==
  ASSUME NEW t, SameFields(t), PlaceOK(work[t]), work[t].job # "none"
  PROVE  PlaceOK(work'[t])
<1> DEFINE v == work'[t]
           w == work[t]
<1>1. /\ v.job = w.job /\ v.pc = w.pc /\ v.h = w.h /\ v.token = w.token /\ v.chat = w.chat
      /\ v.via = w.via /\ v.app = w.app /\ v.found = w.found /\ v.sees = w.sees
      /\ v.left = w.left /\ v.saved = w.saved /\ v.put = w.put /\ v.drops = w.drops
  BY DEF SameFields
<1>2. PlaceOK(w) /\ w.job # "none"
  OBVIOUS
<1> SUFFICES PlaceOK(v)
  OBVIOUS
<1> HIDE DEF v, w
<1>3. TokenOK(v) /\ DeleteOK(v)
  BY <1>1, <1>2 DEF PlaceOK, TokenOK, DeleteOK
<1>4. UnlinkOK(v) /\ BootOK(v)
  BY <1>1, <1>2 DEF PlaceOK, UnlinkOK, BootOK
<1>5. StartOK(v)
  <2>1. Cleared(v) = Cleared(w) /\ Linked(v) = Linked(w)
    BY <1>1 DEF Cleared, Linked
  <2> QED
    BY <1>1, <1>2, <2>1 DEF PlaceOK, StartOK
<1> QED
  BY <1>1, <1>2, <1>3, <1>4, <1>5 DEF PlaceOK

LEMMA CommitFacts ==
  ASSUME TypeInv, NEW s \in Sessions, Commit(s)
  PROVE  /\ work' \in [Sessions -> Session] /\ work'[s] = NoWork
         /\ \A t \in Sessions : PlaceOK(work'[t])
         /\ \A t \in Sessions \ {s} :
              SameFields(t) /\ (work[t].job # "none" => ~work'[t].alone)
         /\ work[s].pc = "commit" /\ work[s].job \in {"token", "delete", "unlink", "start"}
         /\ work[s].h \in Households /\ work[s].app = None
         /\ UNCHANGED <<phase, memory, bounds, history>>
<1> DEFINE w == work[s]
<1>1. w \in Session /\ PlaceOK(w) /\ w.pc = "commit" /\ w.job # "none"
  BY WorkType DEF Commit, At, Busy
<1>2. w.job \in {"token", "delete", "unlink", "start"}
  BY <1>1 DEF PlaceOK, BootOK, Session
<1>3. w.h \in Households /\ w.app = None
  BY <1>1, <1>2 DEF PlaceOK, TokenOK, DeleteOK, UnlinkOK, StartOK, Session
<1>4. /\ work' = [t \in Sessions |-> IF t = s \/ ~Busy(t) THEN NoWork
                                     ELSE [work[t] EXCEPT !.alone = FALSE]]
      /\ UNCHANGED <<phase, memory, bounds, history>>
  BY DEF Commit
<1>5. work'[s] = NoWork
  BY <1>4
<1>6. \A t \in Sessions \ {s} :
        /\ SameFields(t) /\ (work[t].job # "none" => ~work'[t].alone)
        /\ work'[t] \in Session /\ PlaceOK(work'[t])
  <2> TAKE t \in Sessions \ {s}
  <2>1. work[t] \in Session /\ PlaceOK(work[t])
    BY WorkType
  <2>2. CASE work[t].job = "none"
    <3>1. work[t] = NoWork /\ work'[t] = NoWork
      BY <1>4, <2>1, <2>2 DEF PlaceOK, Busy
    <3> QED
      BY <2>2, <3>1, NoWorkOK DEF SameFields
  <2>3. CASE work[t].job # "none"
    <3> DEFINE u == work[t]
               v == [u EXCEPT !.alone = FALSE]
    <3>1. work'[t] = v
      BY <1>4, <2>3 DEF Busy
    <3>2. v \in Session
      BY <2>1, Zenon DEF Session
    <3>3. SameFields(t) /\ ~work'[t].alone
      BY <2>1, <3>1 DEF SameFields, Session
    <3>4. PlaceOK(work'[t])
      BY <2>1, <2>3, <3>3, SameFieldsOK
    <3> QED
      BY <3>1, <3>2, <3>3, <3>4
  <2> QED
    BY <2>2, <2>3
<1>7. work' \in [Sessions -> Session]
  BY <1>4, <1>5, <1>6, NoWorkOK
<1> QED
  BY <1>1, <1>2, <1>3, <1>4, <1>5, <1>6, <1>7, NoWorkOK

LEMMA BootFacts ==
  ASSUME TypeInv, NEW s \in Sessions, Boot(s)
  PROVE  /\ Moves(s) /\ work[s] = NoWork
         /\ phase = "down" /\ phase' = "boot"
         /\ work'[s].job = "boot" /\ work'[s].pc = "boot" /\ work'[s].h = None
         /\ work'[s].app = None /\ work'[s].put = {} /\ ~work'[s].saved /\ ~work'[s].drops
         /\ work'[s].left = {h \in alive : TokenOf(h) # None}
         /\ UNCHANGED <<rows, memory, bounds, history>>
<1> DEFINE L == {h \in alive : TokenOf(h) # None}
           v == [NoWork EXCEPT !.job = "boot", !.pc = "boot", !.left = L]
<1>1. work[s] = NoWork
  BY WorkType DEF Boot, Busy, PlaceOK
<1>2. L \subseteq Households
  BY DEF TypeInv, TypeOK
<1>3. /\ v.job = "boot" /\ v.pc = "boot" /\ v.h = None /\ v.app = None /\ v.put = {}
      /\ ~v.saved /\ ~v.drops /\ v.left = L
  BY DEF NoWork
<1>4. v \in Session
  <2> HIDE DEF L
  <2> QED
    BY <1>2 DEF NoWork, Session
<1>5. Put(s, v)
  BY DEF Boot
<1> HIDE DEF v
<1>6. BootOK(v)
  BY <1>3 DEF BootOK
<1>7. PlaceOK(v)
  BY <1>3, <1>6 DEF PlaceOK, TokenOK, DeleteOK, UnlinkOK, StartOK
<1>8. Moves(s) /\ work'[s] = v
  BY <1>4, <1>5, <1>7, PutMoves
<1> QED
  BY <1>1, <1>3, <1>8 DEF Boot

LEMMA PostFacts ==
  ASSUME TypeInv, NEW s \in Sessions, NEW h \in Households, NEW t \in Tokens, PostToken(s, h, t)
  PROVE  /\ Moves(s) /\ work[s] = NoWork
         /\ phase = "up" /\ h \in alive /\ Races(s, h, "token")
         /\ work'[s].job = "token" /\ work'[s].pc = "save" /\ work'[s].h = h
         /\ work'[s].app = None /\ work'[s].put = {} /\ ~work'[s].saved /\ ~work'[s].drops
         /\ work'[s].token = t
         /\ events' \in 0..MaxEvents
         /\ UNCHANGED <<rows, phase, memory, fresh, unborn, unstarted, stray>>
<1> DEFINE v == [NoWork EXCEPT !.job = "token", !.pc = "save", !.h = h, !.token = t]
<1>1. work[s] = NoWork
  BY WorkType DEF PostToken, Request, Busy, PlaceOK
<1>3. /\ v.job = "token" /\ v.pc = "save" /\ v.h = h /\ v.app = None /\ v.put = {}
      /\ ~v.saved /\ ~v.drops /\ v.token = t
  BY DEF NoWork
<1>4. v \in Session
  BY DEF NoWork, Session
<1>5. Put(s, v)
  BY DEF PostToken
<1> HIDE DEF v
<1>6. TokenOK(v)
  BY <1>3 DEF TokenOK
<1>7. PlaceOK(v)
  BY <1>3, <1>6 DEF PlaceOK, BootOK, DeleteOK, UnlinkOK, StartOK
<1>8. Moves(s) /\ work'[s] = v
  BY <1>4, <1>5, <1>7, PutMoves
<1>9. events' \in 0..MaxEvents
  BY BotsAssumption DEF PostToken, Request, Happens, TypeInv, TypeOK
<1> QED
  BY <1>1, <1>3, <1>8, <1>9 DEF PostToken, Request

LEMMA DeleteHouseholdFacts ==
  ASSUME TypeInv, NEW s \in Sessions, NEW h \in Households, DeleteHousehold(s, h)
  PROVE  /\ Moves(s) /\ work[s] = NoWork
         /\ phase = "up" /\ h \in alive /\ Races(s, h, "delete")
         /\ work'[s].job = "delete" /\ work'[s].pc = "pop" /\ work'[s].h = h
         /\ work'[s].app = None /\ work'[s].put = {} /\ ~work'[s].saved /\ ~work'[s].drops
         /\ events' \in 0..MaxEvents
         /\ UNCHANGED <<rows, phase, memory, fresh, unborn, unstarted, stray>>
<1> DEFINE v == [NoWork EXCEPT !.job = "delete", !.pc = "pop", !.h = h]
<1>1. work[s] = NoWork
  BY WorkType DEF DeleteHousehold, Request, Busy, PlaceOK
<1>3. /\ v.job = "delete" /\ v.pc = "pop" /\ v.h = h /\ v.app = None /\ v.put = {}
      /\ ~v.saved /\ ~v.drops
  BY DEF NoWork
<1>4. v \in Session
  BY DEF NoWork, Session
<1>5. Put(s, v)
  BY DEF DeleteHousehold
<1> HIDE DEF v
<1>6. DeleteOK(v)
  BY <1>3 DEF DeleteOK
<1>7. PlaceOK(v)
  BY <1>3, <1>6 DEF PlaceOK, BootOK, TokenOK, UnlinkOK, StartOK
<1>8. Moves(s) /\ work'[s] = v
  BY <1>4, <1>5, <1>7, PutMoves
<1>9. events' \in 0..MaxEvents
  BY BotsAssumption DEF DeleteHousehold, Request, Happens, TypeInv, TypeOK
<1> QED
  BY <1>1, <1>3, <1>8, <1>9 DEF DeleteHousehold, Request

LEMMA UnlinkRequestFacts ==
  ASSUME TypeInv, NEW s \in Sessions, NEW h \in Households, Unlink(s, h)
  PROVE  /\ Moves(s) /\ work[s] = NoWork
         /\ phase = "up" /\ h \in alive
         /\ work'[s].job = "unlink" /\ work'[s].pc = "write" /\ work'[s].h = h
         /\ work'[s].app = None /\ work'[s].put = {} /\ ~work'[s].saved /\ ~work'[s].drops
         /\ events' \in 0..MaxEvents
         /\ UNCHANGED <<rows, phase, memory, fresh, unborn, unstarted, stray, raced>>
<1> DEFINE v == [NoWork EXCEPT !.job = "unlink", !.pc = "write", !.h = h, !.sees = chat[h]]
<1>1. work[s] = NoWork
  BY WorkType DEF Unlink, Request, Busy, PlaceOK
<1>2. chat[h] \in Chats \cup {None}
  BY DEF TypeInv, TypeOK
<1>3. /\ v.job = "unlink" /\ v.pc = "write" /\ v.h = h /\ v.app = None /\ v.put = {}
      /\ ~v.saved /\ ~v.drops
  BY DEF NoWork
<1>4. v \in Session
  BY <1>2 DEF NoWork, Session
<1>5. Put(s, v)
  BY DEF Unlink
<1> HIDE DEF v
<1>6. UnlinkOK(v)
  BY <1>3 DEF UnlinkOK
<1>7. PlaceOK(v)
  BY <1>3, <1>6 DEF PlaceOK, BootOK, TokenOK, DeleteOK, StartOK
<1>8. Moves(s) /\ work'[s] = v
  BY <1>4, <1>5, <1>7, PutMoves
<1>9. events' \in 0..MaxEvents
  BY BotsAssumption DEF Unlink, Request, Happens, TypeInv, TypeOK
<1> QED
  BY <1>1, <1>3, <1>8, <1>9 DEF Unlink, Request

LEMMA StartFacts ==
  ASSUME TypeInv, NEW s \in Sessions, NEW a \in Apps, NEW c \in Chats, NEW k \in Codes,
         StartCommand(s, a, c, k)
  PROVE  /\ Moves(s) /\ work[s] = NoWork
         /\ apps[a] # None /\ codes[k] \in Households
         /\ work'[s].job = "start" /\ work'[s].pc = "find" /\ work'[s].h = codes[k]
         /\ work'[s].app = None /\ work'[s].put = {} /\ ~work'[s].saved /\ ~work'[s].drops
         /\ codes' \in [Codes -> Households \cup {None}]
         /\ UNCHANGED <<rows, phase, bots, apps, bounds, history>>
<1> DEFINE v == [NoWork EXCEPT !.job = "start", !.pc = "find", !.h = codes[k], !.chat = c,
                               !.via = a]
<1>1. work[s] = NoWork
  BY WorkType DEF StartCommand, Receives, Busy, PlaceOK
<1>2. codes[k] \in Households
  BY DEF StartCommand, TypeInv, TypeOK
<1>3. /\ v.job = "start" /\ v.pc = "find" /\ v.h = codes[k] /\ v.app = None /\ v.put = {}
      /\ ~v.saved /\ ~v.drops /\ v.chat = c
  BY DEF NoWork
<1>4. v \in Session
  BY <1>2 DEF NoWork, Session
<1>5. Put(s, v)
  BY DEF StartCommand
<1> HIDE DEF v
<1>6. StartOK(v)
  BY <1>2, <1>3 DEF StartOK
<1>7. PlaceOK(v)
  BY <1>3, <1>6 DEF PlaceOK, BootOK, TokenOK, UnlinkOK, DeleteOK
<1>8. Moves(s) /\ work'[s] = v
  BY <1>4, <1>5, <1>7, PutMoves
<1>9. codes' \in [Codes -> Households \cup {None}]
  BY DEF StartCommand, TypeInv, TypeOK
<1> QED
  BY <1>1, <1>2, <1>3, <1>8, <1>9 DEF StartCommand, Receives

-----------------------------------------------------------------------------
(* Types *)

LEMMA PlacesStay ==
  ASSUME TypeInv, NEW s \in Sessions, Moves(s)
  PROVE  \A t \in Sessions : PlaceOK(work'[t])
BY WorkType DEF Moves

\* s goes on with its Application, or has none.
AppQuiet(s) ==
  \/ work'[s].app = None
  \/ /\ work'[s].app = work[s].app /\ work'[s].h = work[s].h
     /\ work'[s].token = work[s].token /\ work'[s].pc = work[s].pc

LEMMA AppStep ==
  ASSUME TypeInv, NEW s \in Sessions, Moves(s), AppQuiet(s), UNCHANGED <<bots, apps>>
  PROVE  AppInv'
<1>1. AppInv
  BY DEF TypeInv
<1>2. \A t \in Sessions : \/ work'[t].app = None
                          \/ /\ work'[t].app = work[t].app /\ work'[t].h = work[t].h
                             /\ work'[t].token = work[t].token /\ work'[t].pc = work[t].pc
  BY DEF Moves, AppQuiet
<1>3. apps' = apps /\ bots' = bots
  OBVIOUS
<1> QED
  BY <1>1, <1>2, <1>3 DEF AppInv

LEMMA PhaseStep ==
  ASSUME TypeInv, NEW s \in Sessions, Moves(s), phase' = phase, phase # "down",
         \/ work'[s].job = work[s].job
         \/ /\ work[s].job # "boot" /\ work'[s].job # "boot"
            /\ work'[s].job \in {"token", "delete", "unlink"} => phase = "up"
  PROVE  PhaseInv'
<1>1. PhaseInv
  BY DEF TypeInv
<1>2. \A t \in Sessions : \/ work'[t].job = work[t].job
                          \/ /\ work[t].job # "boot" /\ work'[t].job # "boot"
                             /\ work'[t].job \in {"token", "delete", "unlink"} => phase = "up"
  BY DEF Moves
<1> QED
  BY <1>1, <1>2 DEF PhaseInv

LEMMA BootStep ==
  ASSUME TypeInv, NEW s \in Sessions, Moves(s), alive' = alive, token' = token,
         work'[s].job = "boot" =>
           /\ work[s].job = "boot" /\ work'[s].left \subseteq work[s].left
           /\ \/ work'[s].h = None
              \/ work'[s].h = work[s].h /\ work'[s].token = work[s].token
              \/ work'[s].h \in work[s].left /\ work'[s].token = TokenOf(work'[s].h)
  PROVE  BootInv'
<1>1. \A h : TokenOf(h)' = TokenOf(h)
  BY DEF TokenOf
<1>2. \A t \in Sessions : work'[t].job = "boot" =>
        /\ work[t].job = "boot" /\ work'[t].left \subseteq work[t].left
        /\ \/ work'[t].h = None
           \/ work'[t].h = work[t].h /\ work'[t].token = work[t].token
           \/ work'[t].h \in work[t].left /\ work'[t].token = TokenOf(work'[t].h)
  BY DEF Moves
<1>3. BootInv
  BY DEF TypeInv
<1> SUFFICES ASSUME NEW t \in Sessions, work'[t].job = "boot"
             PROVE  /\ \A h \in work'[t].left : h \in alive /\ TokenOf(h) # None
                    /\ work'[t].h # None => /\ work'[t].h \in alive /\ TokenOf(work'[t].h) # None
                                            /\ work'[t].token = TokenOf(work'[t].h)
  BY <1>1 DEF BootInv, TokenOf
<1>4. /\ \A h \in work[t].left : h \in alive /\ TokenOf(h) # None
      /\ work[t].h # None => /\ work[t].h \in alive /\ TokenOf(work[t].h) # None
                             /\ work[t].token = TokenOf(work[t].h)
  BY <1>2, <1>3 DEF BootInv
<1> QED
  BY <1>1, <1>2, <1>4

\* A step of one session that leaves the rows and the pollers alone.
LEMMA QuietType ==
  ASSUME TypeInv, NEW s \in Sessions, Moves(s), AppQuiet(s), UNCHANGED <<rows, bots, apps>>,
         phase' = phase, phase # "down",
         \/ work'[s].job = work[s].job
         \/ /\ work[s].job # "boot" /\ work'[s].job # "boot"
            /\ work'[s].job \in {"token", "delete", "unlink"} => phase = "up",
         work'[s].job = "boot" =>
           /\ work[s].job = "boot" /\ work'[s].left \subseteq work[s].left
           /\ \/ work'[s].h = None
              \/ work'[s].h = work[s].h /\ work'[s].token = work[s].token
              \/ work'[s].h \in work[s].left /\ work'[s].token = TokenOf(work'[s].h),
         codes' \in [Codes -> Households \cup {None}],
         fresh' \subseteq Codes, unborn' \subseteq Households, events' \in 0..MaxEvents,
         unstarted' \subseteq Households, stray' \subseteq Households, raced' \subseteq Households
  PROVE  TypeInv'
<1>0. alive' = alive /\ token' = token /\ chat' = chat /\ bots' = bots /\ apps' = apps
  BY DEF rows
<1>1. AppInv'
  BY AppStep
<1>2. PhaseInv'
  BY PhaseStep
<1>3. BootInv'
  BY <1>0, BootStep
<1>4. \A t \in Sessions : PlaceOK(work'[t])
  BY PlacesStay
<1>5. TypeOK'
  <2>1. work' \in [Sessions -> Session]
    BY DEF Moves
  <2>2. \A t \in Sessions : work'[t].app # None => apps'[work'[t].app] # None
    BY <1>1 DEF AppInv
  <2> QED
    BY <1>0, <2>1, <2>2 DEF TypeInv, TypeOK
<1> QED
  BY <1>1, <1>2, <1>3, <1>4, <1>5 DEF TypeInv

LEMMA Running ==
  ASSUME TypeInv, NEW s \in Sessions, work[s].job # "none"
  PROVE  phase # "down"
BY DEF TypeInv, PhaseInv

LEMMA TypeFacts ==
  ASSUME TypeInv
  PROVE  /\ codes \in [Codes -> Households \cup {None}] /\ fresh \subseteq Codes
         /\ unborn \subseteq Households /\ events \in 0..MaxEvents
         /\ unstarted \subseteq Households /\ stray \subseteq Households /\ raced \subseteq Households
         /\ alive \subseteq Households /\ token \in [Households -> Tokens \cup {None}]
         /\ chat \in [Households -> Chats \cup {None}]
         /\ bots \in [Households -> Apps \cup {None}]
         /\ apps \in [Apps -> {None} \cup [h : Households, token : Tokens]]
         /\ \A h \in Households : bots[h] # None => apps[bots[h]] # None /\ apps[bots[h]].h = h
BY DEF TypeInv, TypeOK

LEMMA RaiseType ==
  ASSUME TypeInv, NEW s \in Sessions, Raise(s), work[s].job \notin {"none", "boot"}
  PROVE  TypeInv'
<1>1. /\ Moves(s) /\ work'[s] = NoWork
      /\ UNCHANGED <<rows, phase, memory, bounds, raced>>
  BY RaiseFacts
<1>2. unstarted' \subseteq Households /\ stray' \subseteq Households
  <2>1. work[s].job \in {"token", "delete"} => work[s].h \in Households
    BY WorkType DEF PlaceOK, TokenOK, DeleteOK
  <2> QED
    BY <2>1, RaiseFacts, TypeFacts
<1>3. AppQuiet(s) /\ work'[s].job = "none"
  BY <1>1, NoWorkOK DEF AppQuiet
<1>4. UNCHANGED <<bots, apps, codes, fresh, unborn, events, raced>>
  BY <1>1 DEF memory, bounds
<1> QED
  BY <1>1, <1>2, <1>3, <1>4, Running, TypeFacts, QuietType

LEMMA SaveType ==
  ASSUME TypeInv, NEW s \in Sessions, SaveToken(s)
  PROVE  TypeInv'
<1>1. CASE work[s].h \notin alive
  <2>1. work[s].job \notin {"none", "boot"}
    BY WorkType DEF SaveToken, At, Busy, PlaceOK, BootOK
  <2> QED
    BY <1>1, <2>1, RaiseType DEF SaveToken
<1>2. CASE work[s].h \in alive
  <2>1. UNCHANGED <<bots, apps, codes, fresh, unborn, events, raced, unstarted, stray, phase, rows>>
    BY <1>2, SaveFacts DEF memory, bounds, history
  <2>2. Moves(s) /\ SameJob(s) /\ work[s].job = "token" /\ work'[s].app = None
    BY <1>2, SaveFacts
  <2> QED
    BY <2>1, <2>2, Running, TypeFacts, QuietType DEF SameJob, AppQuiet
<1> QED
  BY <1>1, <1>2

LEMMA DeleteRowsType ==
  ASSUME TypeInv, NEW s \in Sessions, DeleteRows(s)
  PROVE  TypeInv'
<1>1. CASE Raise(s)
  <2>1. work[s].job \notin {"none", "boot"}
    BY WorkType DEF DeleteRows, At, Busy, PlaceOK, BootOK
  <2> QED
    BY <1>1, <2>1, RaiseType
<1>2. CASE ~Raise(s)
  <2>1. UNCHANGED <<bots, apps, codes, fresh, unborn, events, raced, unstarted, stray, phase, rows>>
    BY <1>2, DeleteFacts DEF memory, bounds, history
  <2>2. Moves(s) /\ SameJob(s) /\ work[s].job = "delete" /\ work'[s].app = None
    BY <1>2, DeleteFacts
  <2> QED
    BY <2>1, <2>2, Running, TypeFacts, QuietType DEF SameJob, AppQuiet
<1> QED
  BY <1>1, <1>2

LEMMA WriteUnlinkType ==
  ASSUME TypeInv, NEW s \in Sessions, WriteUnlink(s)
  PROVE  TypeInv'
<1>1. CASE Raise(s)
  <2>1. work[s].job \notin {"none", "boot"}
    BY WorkType DEF WriteUnlink, At, Busy, PlaceOK, BootOK
  <2> QED
    BY <1>1, <2>1, RaiseType
<1>2. CASE ~Raise(s)
  <2>1. UNCHANGED <<bots, apps, codes, fresh, unborn, events, raced, unstarted, stray, phase, rows>>
    BY <1>2, UnlinkFacts DEF memory, bounds, history
  <2>2. Moves(s) /\ SameJob(s) /\ work[s].job = "unlink" /\ work'[s].app = None
    BY <1>2, UnlinkFacts
  <2> QED
    BY <2>1, <2>2, Running, TypeFacts, QuietType DEF SameJob, AppQuiet
<1> QED
  BY <1>1, <1>2

LEMMA LinkingType ==
  ASSUME TypeInv, NEW s \in Sessions, FindLinked(s) \/ Clear(s) \/ SetChat(s)
  PROVE  TypeInv'
<1>1. CASE Raise(s)
  <2>1. work[s].job \notin {"none", "boot"}
    BY WorkType DEF FindLinked, Clear, SetChat, At, Busy, PlaceOK, BootOK
  <2> QED
    BY <1>1, <2>1, RaiseType
<1>2. CASE ~Raise(s)
  <2>1. UNCHANGED <<bots, apps, codes, fresh, unborn, events, raced, unstarted, stray, phase, rows>>
    BY <1>2, FindFacts, ClearFacts, SetFacts DEF memory, bounds, history
  <2>2. Moves(s) /\ SameJob(s) /\ work[s].job = "start" /\ work'[s].app = None
    BY <1>2, FindFacts, ClearFacts, SetFacts
  <2> QED
    BY <2>1, <2>2, Running, TypeFacts, QuietType DEF SameJob, AppQuiet
<1> QED
  BY <1>1, <1>2

LEMMA DeadlockedType ==
  ASSUME TypeInv, NEW s \in Sessions, Deadlocked(s)
  PROVE  TypeInv'
<1>1. Wants(s) # {}
  BY DEF Deadlocked, BlockedBy
<1>2. work[s].pc \in {"save", "delete", "write", "clear", "set"}
  BY <1>1 DEF Wants
<1>3. work[s].job \notin {"none", "boot"}
  BY <1>2, WorkType DEF PlaceOK, BootOK, NoWork
<1> QED
  BY <1>3, RaiseType DEF Deadlocked

LEMMA StartFailsType ==
  ASSUME TypeInv, NEW s \in Sessions, StartFails(s)
  PROVE  TypeInv'
<1>1. work[s].job \notin {"none", "boot"}
  BY WorkType DEF StartFails, At, Busy, PlaceOK, BootOK
<1> QED
  BY <1>1, RaiseType DEF StartFails

LEMMA CommitFailsType ==
  ASSUME TypeInv, NEW s \in Sessions, CommitFails(s)
  PROVE  TypeInv'
<1>1. work[s].job \notin {"none", "boot"}
  BY WorkType DEF CommitFails, At, Busy, PlaceOK, BootOK
<1> QED
  BY <1>1, RaiseType DEF CommitFails

LEMMA BootFailsType ==
  ASSUME TypeInv, NEW s \in Sessions, BootFails(s)
  PROVE  TypeInv'
<1>1. UNCHANGED <<bots, apps, codes, fresh, unborn, events, stray, raced, phase, rows>>
  BY BootFailsFacts DEF memory, bounds
<1>2. /\ Moves(s) /\ work[s].job = "boot" /\ work'[s].job = "boot" /\ work'[s].app = None
      /\ work'[s].left = work[s].left /\ work'[s].h = None
  BY BootFailsFacts
<1>3. unstarted' \subseteq Households
  BY BootFailsFacts, TypeFacts
<1> QED
  BY <1>1, <1>2, <1>3, Running, TypeFacts, QuietType DEF AppQuiet

LEMMA BootNextType ==
  ASSUME TypeInv, NEW s \in Sessions, BootNext(s)
  PROVE  TypeInv'
<1>1. UNCHANGED <<bots, apps, codes, fresh, unborn, events, raced, unstarted, stray, rows>>
  BY BootNextFacts DEF memory, bounds, history
<1>2. CASE work[s].left = {} /\ phase' = "up" /\ work'[s] = NoWork
  <2>1. Moves(s) /\ work'[s].app = None /\ work[s].job = "boot" /\ work'[s].job = "none"
    BY <1>2, BootNextFacts, NoWorkOK
  <2>2. AppInv'
    BY <1>1, <2>1, AppStep DEF AppQuiet
  <2>3. PhaseInv'
    <3>1. phase = "boot" /\ \A t \in Sessions \ {s} : work[t].job \notin {"boot", "token", "delete", "unlink"}
      BY <2>1 DEF TypeInv, PhaseInv
    <3>2. \A t \in Sessions : work'[t].job \notin {"boot", "token", "delete", "unlink"}
      BY <2>1, <3>1 DEF Moves
    <3> QED
      BY <1>2, <3>2 DEF PhaseInv
  <2>4. BootInv'
    BY <1>1, <2>1, BootStep DEF rows
  <2>5. \A t \in Sessions : PlaceOK(work'[t])
    BY <2>1, PlacesStay
  <2>6. TypeOK'
    <3>1. work' \in [Sessions -> Session]
      BY <2>1 DEF Moves
    <3>2. \A t \in Sessions : work'[t].app # None => apps'[work'[t].app] # None
      BY <2>2 DEF AppInv
    <3> QED
      BY <1>1, <1>2, <3>1, <3>2 DEF TypeInv, TypeOK, rows
  <2> QED
    BY <2>2, <2>3, <2>4, <2>5, <2>6 DEF TypeInv
<1>3. CASE phase' = phase /\ work'[s].job = "boot"
  <2>1. /\ Moves(s) /\ work[s].job = "boot"
        /\ work'[s].app = None
    BY <1>3, BootNextFacts, NoWorkOK
  <2>2. PICK h \in work[s].left : /\ work'[s].h = h /\ work'[s].token = TokenOf(h)
                                  /\ work'[s].left = work[s].left \ {h}
    BY <1>3, BootNextFacts, NoWorkOK
  <2> QED
    BY <1>1, <1>3, <2>1, <2>2, Running, TypeFacts, QuietType DEF AppQuiet
<1> QED
  BY <1>2, <1>3, BootNextFacts

LEMMA BootType ==
  ASSUME TypeInv, NEW s \in Sessions, Boot(s)
  PROVE  TypeInv'
<1>1. UNCHANGED <<bots, apps, codes, fresh, unborn, events, raced, unstarted, stray, rows>>
  BY BootFacts DEF memory, bounds, history
<1>0. /\ Moves(s) /\ work'[s].app = None /\ work'[s].job = "boot" /\ work'[s].h = None
      /\ phase = "down" /\ phase' = "boot" /\ work'[s].left = {h \in alive : TokenOf(h) # None}
  BY BootFacts
<1>2. AppInv'
  BY <1>0, <1>1, AppStep DEF AppQuiet
<1>3. \A t \in Sessions \ {s} : work'[t].job = "none"
  BY <1>0 DEF Moves, TypeInv, PhaseInv
<1>4. PhaseInv'
  BY <1>0, <1>3 DEF PhaseInv
<1>5. BootInv'
  <2>1. \A h : TokenOf(h)' = TokenOf(h)
    BY <1>1 DEF TokenOf, rows
  <2>2. \A t \in Sessions : work'[t].job = "boot" => t = s
    BY <1>3
  <2>3. alive' = alive /\ token' = token
    BY <1>1 DEF rows
  <2>4. \A h \in work'[s].left : h \in alive /\ (IF token[h] = None THEN EnvToken ELSE token[h]) # None
    BY <1>0 DEF TokenOf
  <2> QED
    BY <1>0, <2>2, <2>3, <2>4 DEF BootInv, TokenOf
<1>6. \A t \in Sessions : PlaceOK(work'[t])
  BY <1>0, PlacesStay
<1>7. TypeOK'
  <2>1. work' \in [Sessions -> Session]
    BY <1>0 DEF Moves
  <2>2. \A t \in Sessions : work'[t].app # None => apps'[work'[t].app] # None
    BY <1>2 DEF AppInv
  <2> QED
    BY <1>0, <1>1, <2>1, <2>2 DEF TypeInv, TypeOK, rows
<1> QED
  BY <1>2, <1>4, <1>5, <1>6, <1>7 DEF TypeInv

LEMMA RacesType ==
  ASSUME TypeInv, NEW s, NEW h \in Households, NEW job, Races(s, h, job)
  PROVE  raced' \subseteq Households
BY TypeFacts DEF Races

LEMMA RequestType ==
  ASSUME TypeInv, NEW s \in Sessions, NEW h \in Households,
         (\E t \in Tokens : PostToken(s, h, t)) \/ DeleteHousehold(s, h) \/ Unlink(s, h)
  PROVE  TypeInv'
<1>1. UNCHANGED <<rows, phase, memory, fresh, unborn, unstarted, stray>> /\ events' \in 0..MaxEvents
  BY PostFacts, DeleteHouseholdFacts, UnlinkRequestFacts
<1>2. UNCHANGED <<rows, phase, bots, apps, codes, fresh, unborn, unstarted, stray>>
  BY <1>1 DEF memory
<1>3. raced' \subseteq Households
  BY PostFacts, DeleteHouseholdFacts, UnlinkRequestFacts, RacesType, TypeFacts
<1>4. /\ Moves(s) /\ work[s] = NoWork /\ phase = "up" /\ work'[s].app = None
      /\ work'[s].job \in {"token", "delete", "unlink"}
  BY PostFacts, DeleteHouseholdFacts, UnlinkRequestFacts
<1> QED
  BY <1>1, <1>2, <1>3, <1>4, NoWorkOK, TypeFacts, QuietType DEF AppQuiet

LEMMA StartType ==
  ASSUME TypeInv, NEW s \in Sessions, NEW a \in Apps, NEW c \in Chats, NEW k \in Codes,
         StartCommand(s, a, c, k)
  PROVE  TypeInv'
<1>1. UNCHANGED <<rows, phase, bots, apps, fresh, unborn, events, unstarted, stray, raced>>
  BY StartFacts DEF bounds, history
<1>2. /\ Moves(s) /\ work[s] = NoWork /\ work'[s].app = None /\ work'[s].job = "start"
      /\ apps[a] # None /\ codes' \in [Codes -> Households \cup {None}]
  BY StartFacts
<1>3. phase # "down"
  BY <1>2 DEF TypeInv, PhaseInv
<1> QED
  BY <1>1, <1>2, <1>3, NoWorkOK, TypeFacts, QuietType DEF AppQuiet

LEMMA CodesType ==
  ASSUME TypeInv, UNCHANGED <<rows, phase, bots, apps, work, history>>,
         codes' \in [Codes -> Households \cup {None}], fresh' \subseteq Codes,
         unborn' \subseteq Households, events' \in 0..MaxEvents
  PROVE  TypeInv'
<1>1. TypeOK'
  BY DEF TypeInv, TypeOK, rows, history
<1>2. AppInv' /\ PhaseInv'
  BY DEF TypeInv, AppInv, PhaseInv
<1>3. BootInv'
  BY DEF TypeInv, BootInv, rows, TokenOf
<1> QED
  BY <1>1, <1>2, <1>3 DEF TypeInv

LEMMA HasApp ==
  ASSUME TypeInv, NEW t \in Sessions, work[t].app # None
  PROVE  /\ work[t].job \in {"token", "delete", "boot"} /\ work[t].h \in Households
         /\ work[t].app \in Apps /\ work[t].pc \in {"stop", "register"}
<1> DEFINE w == work[t]
<1>1. w \in Session /\ PlaceOK(w) /\ w.app # None
  BY WorkType
<1> SUFFICES /\ w.job \in {"token", "delete", "boot"} /\ w.h \in Households
             /\ w.app \in Apps /\ w.pc \in {"stop", "register"}
  OBVIOUS
<1> HIDE DEF w
<1>2. w.job # "none" /\ w.pc \in {"stop", "register"}
  BY <1>1, NoWorkOK DEF PlaceOK
<1>3. w.job \notin {"unlink", "start"}
  BY <1>1, <1>2 DEF PlaceOK, UnlinkOK, StartOK
<1>4. w.job \in {"token", "delete", "boot"}
  BY <1>1, <1>2, <1>3 DEF Session
<1>5. w.h \in Households
  BY <1>1, <1>2, <1>4 DEF PlaceOK, TokenOK, DeleteOK, BootOK, Session
<1> QED
  BY <1>1, <1>2, <1>4, <1>5 DEF Session

LEMMA PopType ==
  ASSUME TypeInv, NEW s \in Sessions, Pop(s)
  PROVE  TypeInv'
<1> DEFINE w == work[s]
           v == work'[s]
<1>0. /\ Moves(s) /\ v.job = w.job /\ v.h = w.h /\ v.token = w.token /\ v.left = w.left
      /\ w.job \in {"token", "delete", "boot"} /\ w.h \in Households /\ w.app = None
      /\ v.app = bots[w.h] /\ (v.pc = "stop" \/ v.app = None)
      /\ bots' = [bots EXCEPT ![w.h] = None]
      /\ UNCHANGED <<rows, phase, apps, codes, bounds, history>>
  BY PopFacts DEF SameJob
<1>1. AppInv'
  <2>1. \A t \in Sessions : work[t].app # None => work[t].app # bots[w.h]
    BY <1>0, TypeFacts DEF TypeInv, AppInv
  <2>2. AppInv /\ \A t \in Sessions \ {s} : work'[t] = work[t]
    BY <1>0 DEF TypeInv, Moves
  <2>3. bots[w.h] # None => apps[bots[w.h]] # None /\ apps[bots[w.h]].h = w.h
    BY <1>0, TypeFacts
  <2>4. bots \in [Households -> Apps \cup {None}] /\ \A t \in Sessions : work[t].h \in Households \cup {None}
    BY TypeFacts, WorkType DEF Session
  <2>5. \A t \in Sessions : work[t].app # None => work[t].h \in Households
    BY HasApp
  <2>6. v.app # None => v.app # bots'[v.h]
    BY <1>0, <2>4
  <2>7. \A t \in Sessions \ {s} : work[t].app # None =>
          bots'[work[t].h] # work[t].app
    BY <1>0, <2>2, <2>4, <2>5 DEF AppInv
  <2> HIDE DEF w, v
  <2>8. \A t \in Sessions : work'[t].app # None =>
          /\ apps[work'[t].app] # None /\ apps[work'[t].app].h = work'[t].h
          /\ bots'[work'[t].h] # work'[t].app
          /\ work'[t].pc = "register" => apps[work'[t].app].token = work'[t].token
    BY <1>0, <2>2, <2>3, <2>6, <2>7 DEF AppInv, w, v
  <2>9. \A t, u \in Sessions : work'[t].app # None /\ work'[t].app = work'[u].app => t = u
    BY <1>0, <2>1, <2>2 DEF AppInv, v
  <2> QED
    BY <1>0, <2>8, <2>9 DEF AppInv
<1>2. PhaseInv'
  BY <1>0, PhaseStep, Running
<1>3. BootInv'
  BY <1>0, BootStep DEF rows
<1>4. \A t \in Sessions : PlaceOK(work'[t])
  BY <1>0, PlacesStay
<1>5. TypeOK'
  <2>1. work' \in [Sessions -> Session] /\ bots' \in [Households -> Apps \cup {None}]
    BY <1>0, TypeFacts DEF Moves
  <2>2. \A t \in Sessions : work'[t].app # None => apps'[work'[t].app] # None
    BY <1>1 DEF AppInv
  <2>3. \A h \in Households : bots'[h] # None => apps'[bots'[h]] # None /\ apps'[bots'[h]].h = h
    BY <1>0, TypeFacts
  <2> QED
    BY <1>0, <2>1, <2>2, <2>3 DEF TypeInv, TypeOK, rows, bounds, history
<1> QED
  BY <1>1, <1>2, <1>3, <1>4, <1>5 DEF TypeInv

LEMMA StopType ==
  ASSUME TypeInv, NEW s \in Sessions, Stop(s)
  PROVE  TypeInv'
<1> DEFINE w == work[s]
           v == work'[s]
<1>0. /\ Moves(s) /\ v.job = w.job /\ v.h = w.h /\ v.token = w.token /\ v.left = w.left
      /\ w.job \in {"token", "delete", "boot"} /\ w.h \in Households /\ w.app \in Apps
      /\ v.app = None /\ w.app # None
      /\ apps' = [apps EXCEPT ![w.app] = None]
      /\ UNCHANGED <<rows, phase, bots, codes, bounds, history>>
  BY StopFacts, BotsAssumption DEF SameJob
<1>1. \A t \in Sessions \ {s} : work'[t] = work[t]
  BY <1>0 DEF Moves
<1>2. \A t \in Sessions \ {s} : work[t].app # None => work[t].app \in Apps /\ work[t].app # w.app
  BY <1>0, HasApp DEF TypeInv, AppInv
<1>3. \A a \in Apps \ {w.app} : apps'[a] = apps[a]
  BY <1>0, TypeFacts
<1>4. \A h \in Households : bots[h] # w.app
  BY <1>0, TypeFacts DEF TypeInv, AppInv
<1>5. AppInv'
  <2>1. \A t \in Sessions : work'[t].app # None =>
          t # s /\ work'[t] = work[t] /\ apps'[work'[t].app] = apps[work[t].app]
    BY <1>0, <1>1, <1>2, <1>3
  <2>2. AppInv /\ bots' = bots
    BY <1>0 DEF TypeInv
  <2> QED
    BY <1>1, <2>1, <2>2 DEF AppInv
<1>6. PhaseInv'
  BY <1>0, PhaseStep, Running
<1>7. BootInv'
  BY <1>0, BootStep DEF rows
<1>8. \A t \in Sessions : PlaceOK(work'[t])
  BY <1>0, PlacesStay
<1>9. TypeOK'
  <2>1. work' \in [Sessions -> Session] /\ apps' \in [Apps -> {None} \cup [h : Households, token : Tokens]]
    BY <1>0, TypeFacts DEF Moves
  <2>2. \A t \in Sessions : work'[t].app # None => apps'[work'[t].app] # None
    BY <1>5 DEF AppInv
  <2>3. \A h \in Households : bots'[h] # None => apps'[bots'[h]] # None /\ apps'[bots'[h]].h = h
    BY <1>0, <1>3, <1>4, TypeFacts
  <2> QED
    BY <1>0, <2>1, <2>2, <2>3 DEF TypeInv, TypeOK, rows, bounds, history
<1> QED
  BY <1>5, <1>6, <1>7, <1>8, <1>9 DEF TypeInv

LEMMA CreateType ==
  ASSUME TypeInv, NEW s \in Sessions, Create(s)
  PROVE  TypeInv'
<1> DEFINE w == work[s]
           v == work'[s]
           new == [h |-> w.h, token |-> w.token]
<1>0. /\ Moves(s) /\ v.job = w.job /\ v.h = w.h /\ v.token = w.token /\ v.left = w.left
      /\ w.job \in {"token", "boot"} /\ w.h \in Households /\ w.token \in Tokens /\ w.app = None
      /\ UNCHANGED <<rows, phase, bots, codes, bounds, history>>
  BY CreateFacts DEF SameJob
<1>a. PICK a \in Apps : apps[a] = None /\ v.app = a /\ apps' = [apps EXCEPT ![a] = new]
  BY CreateFacts
<1>b. new # None /\ new \in [h : Households, token : Tokens] /\ new.h = w.h /\ new.token = w.token
  BY <1>0, BotsAssumption
<1> HIDE DEF new
<1>1. \A t \in Sessions \ {s} : work'[t] = work[t]
  BY <1>0 DEF Moves
<1>2. \A t \in Sessions : work[t].app # None => work[t].app \in Apps /\ work[t].app # a
  BY <1>a, HasApp DEF TypeInv, AppInv
<1>3. apps'[a] = new /\ \A b \in Apps \ {a} : apps'[b] = apps[b]
  BY <1>a, TypeFacts
<1>4. \A h \in Households : bots[h] # a
  BY <1>a, TypeFacts, BotsAssumption
<1>5. AppInv'
  <2>1. \A t \in Sessions \ {s} : work'[t].app # None =>
          work'[t] = work[t] /\ apps'[work'[t].app] = apps[work[t].app]
    BY <1>1, <1>2, <1>3
  <2>2. AppInv /\ bots' = bots
    BY <1>0 DEF TypeInv
  <2>3. /\ apps'[v.app] # None /\ apps'[v.app].h = v.h /\ bots'[v.h] # v.app
        /\ apps'[v.app].token = v.token
    BY <1>0, <1>3, <1>4, <1>a, <1>b
  <2>4. \A t \in Sessions : work'[t].app # None =>
          /\ apps'[work'[t].app] # None /\ apps'[work'[t].app].h = work'[t].h
          /\ bots'[work'[t].h] # work'[t].app
          /\ work'[t].pc = "register" => apps'[work'[t].app].token = work'[t].token
    <3> TAKE t \in Sessions
    <3>1. CASE t = s
      BY <2>3, <3>1
    <3>2. CASE t # s
      BY <2>1, <2>2, <3>2 DEF AppInv
    <3> QED
      BY <3>1, <3>2
  <2>5. \A t, u \in Sessions : work'[t].app # None /\ work'[t].app = work'[u].app => t = u
    BY <1>1, <1>2, <1>a, <2>2 DEF AppInv
  <2> QED
    BY <2>4, <2>5 DEF AppInv
<1>6. PhaseInv'
  BY <1>0, PhaseStep, Running
<1>7. BootInv'
  BY <1>0, BootStep DEF rows
<1>8. \A t \in Sessions : PlaceOK(work'[t])
  BY <1>0, PlacesStay
<1>9. TypeOK'
  <2>1. work' \in [Sessions -> Session] /\ apps' \in [Apps -> {None} \cup [h : Households, token : Tokens]]
    BY <1>0, <1>a, <1>b, TypeFacts DEF Moves
  <2>2. \A t \in Sessions : work'[t].app # None => apps'[work'[t].app] # None
    BY <1>5 DEF AppInv
  <2>3. \A h \in Households : bots'[h] # None => apps'[bots'[h]] # None /\ apps'[bots'[h]].h = h
    BY <1>0, <1>3, <1>4, TypeFacts
  <2> QED
    BY <1>0, <2>1, <2>2, <2>3 DEF TypeInv, TypeOK, rows, bounds, history
<1> QED
  BY <1>5, <1>6, <1>7, <1>8, <1>9 DEF TypeInv

LEMMA RegisterType ==
  ASSUME TypeInv, NEW s \in Sessions, Register(s)
  PROVE  TypeInv'
<1> DEFINE w == work[s]
           v == work'[s]
<1>0. /\ Moves(s) /\ v.job = w.job /\ v.left = w.left
      /\ w.job \in {"token", "boot"} /\ w.h \in Households /\ w.app \in Apps /\ w.app # None
      /\ v.app = None /\ (w.job = "boot" => v.h = None)
      /\ bots' = [bots EXCEPT ![w.h] = w.app]
      /\ unstarted' = unstarted \ {w.h} /\ stray' = stray \ {w.h}
      /\ UNCHANGED <<rows, phase, apps, codes, bounds, raced>>
  BY RegisterFacts, BotsAssumption
<1>1. \A t \in Sessions \ {s} : work'[t] = work[t]
  BY <1>0 DEF Moves
<1>2. \A t \in Sessions \ {s} : work[t].app # None => work[t].h \in Households /\ work[t].app # w.app
  BY <1>0, HasApp DEF TypeInv, AppInv
<1>3. AppInv'
  <2>1. AppInv
    BY DEF TypeInv
  <2>2. \A t \in Sessions : work'[t].app # None => t # s /\ work'[t] = work[t]
    BY <1>0, <1>1
  <2>3. \A t \in Sessions \ {s} : work[t].app # None => bots'[work[t].h] # work[t].app
    BY <1>0, <1>2, <2>1, TypeFacts DEF AppInv
  <2> HIDE DEF w, v
  <2> QED
    BY <1>0, <1>1, <2>1, <2>2, <2>3 DEF AppInv
<1>4. PhaseInv'
  BY <1>0, PhaseStep, Running
<1>5. BootInv'
  BY <1>0, BootStep DEF rows
<1>6. \A t \in Sessions : PlaceOK(work'[t])
  BY <1>0, PlacesStay
<1>7. TypeOK'
  <2>1. work' \in [Sessions -> Session] /\ bots' \in [Households -> Apps \cup {None}]
        /\ unstarted' \subseteq Households /\ stray' \subseteq Households
    BY <1>0, TypeFacts DEF Moves
  <2>2. \A t \in Sessions : work'[t].app # None => apps'[work'[t].app] # None
    BY <1>3 DEF AppInv
  <2>3. apps[w.app] # None /\ apps[w.app].h = w.h
    BY <1>0 DEF TypeInv, AppInv
  <2>4. \A h \in Households : bots'[h] # None => apps'[bots'[h]] # None /\ apps'[bots'[h]].h = h
    BY <1>0, <2>3, TypeFacts
  <2> QED
    BY <1>0, <2>1, <2>2, <2>4 DEF TypeInv, TypeOK, rows, bounds
<1> QED
  BY <1>3, <1>4, <1>5, <1>6, <1>7 DEF TypeInv

\* What a commit writes.
LEMMA CommitRows ==
  ASSUME TypeInv, NEW s \in Sessions, Commit(s)
  PROVE  LET w == work[s]
             new(h) == {p[2] : p \in {q \in w.put : q[1] = h}}
         IN  /\ alive' = IF w.drops THEN alive \ {w.h} ELSE alive
             /\ \A h \in Households :
                  /\ token'[h] = IF w.drops /\ h = w.h THEN None
                                 ELSE IF w.saved /\ h = w.h THEN w.token ELSE token[h]
                  /\ chat'[h] = IF w.drops /\ h = w.h THEN None
                                ELSE IF new(h) # {} THEN CHOOSE c \in new(h) : TRUE ELSE chat[h]
             /\ alive' \subseteq Households
             /\ token' \in [Households -> Tokens \cup {None}]
             /\ chat' \in [Households -> Chats \cup {None}]
<1> DEFINE w == work[s]
           new(h) == {p[2] : p \in {q \in w.put : q[1] = h}}
<1>1. /\ alive' = IF w.drops THEN alive \ {w.h} ELSE alive
      /\ token' = [h \in Households |-> IF w.drops /\ h = w.h THEN None
                                        ELSE IF w.saved /\ h = w.h THEN w.token
                                        ELSE token[h]]
      /\ chat' = [h \in Households |-> IF w.drops /\ h = w.h THEN None
                                       ELSE IF new(h) # {} THEN CHOOSE c \in new(h) : TRUE
                                       ELSE chat[h]]
  BY DEF Commit
<1>2. /\ w \in Session /\ w.token \in Tokens \cup {None}
      /\ w.put \subseteq Households \X (Chats \cup {None})
  BY WorkType DEF Session
<1>3. \A h : new(h) \subseteq Chats \cup {None}
  BY <1>2
<1>4. \A h : new(h) # {} => (CHOOSE c \in new(h) : TRUE) \in Chats \cup {None}
  BY <1>3
<1> HIDE DEF new, w
<1>5. alive' \subseteq Households /\ token' \in [Households -> Tokens \cup {None}]
  BY <1>1, <1>2, TypeFacts
<1>6. chat' \in [Households -> Chats \cup {None}]
  BY <1>1, <1>4, TypeFacts
<1> QED
  BY <1>1, <1>5, <1>6 DEF new, w

LEMMA CommitType ==
  ASSUME TypeInv, NEW s \in Sessions, Commit(s)
  PROVE  TypeInv'
<1>0. /\ work' \in [Sessions -> Session] /\ work'[s] = NoWork
      /\ \A t \in Sessions : PlaceOK(work'[t])
      /\ \A t \in Sessions \ {s} : SameFields(t)
      /\ work[s].job \in {"token", "delete", "unlink", "start"} /\ work[s].app = None
      /\ UNCHANGED <<phase, memory, bounds, history>>
  BY CommitFacts
<1>1. UNCHANGED <<bots, apps, codes>>
  BY <1>0 DEF memory
<1>2. \A t \in Sessions :
        /\ work'[t].job = work[t].job \/ (t = s /\ work'[t].job = "none")
        /\ work'[t].app = work[t].app
        /\ work'[t].app # None =>
             /\ work'[t].h = work[t].h /\ work'[t].pc = work[t].pc /\ work'[t].token = work[t].token
        /\ work'[t].job = "boot" =>
             /\ work'[t].h = work[t].h /\ work'[t].left = work[t].left /\ work'[t].token = work[t].token
  BY <1>0, NoWorkOK DEF SameFields
<1>3. AppInv'
  BY <1>1, <1>2 DEF TypeInv, AppInv
<1>4. PhaseInv'
  BY <1>0, <1>1, <1>2 DEF TypeInv, PhaseInv
<1>5. BootInv'
  <2>1. CASE \A t \in Sessions : work[t].job # "boot"
    BY <1>0, <1>2, <2>1 DEF BootInv
  <2>2. CASE \E t \in Sessions : work[t].job = "boot"
    <3>1. work[s].job = "start"
      BY <1>0, <2>2 DEF TypeInv, PhaseInv
    <3>2. ~work[s].saved /\ ~work[s].drops
      BY <3>1, WorkType DEF PlaceOK, StartOK
    <3>3. alive' = alive /\ \A h \in Households : token'[h] = token[h]
      BY <3>2, CommitRows
    <3>4. token' = token
      BY <3>3, CommitRows, TypeFacts
    <3>5. BootInv /\ alive' = alive
      BY <3>3 DEF TypeInv
    <3> QED
      BY <1>2, <3>4, <3>5 DEF BootInv, TokenOf
  <2> QED
    BY <2>1, <2>2
<1>6. TypeOK'
  <2>1. \A t \in Sessions : work'[t].app # None => apps'[work'[t].app] # None
    BY <1>3 DEF AppInv
  <2>2. alive' \subseteq Households /\ token' \in [Households -> Tokens \cup {None}]
        /\ chat' \in [Households -> Chats \cup {None}]
    BY CommitRows
  <2> QED
    BY <1>0, <1>1, <2>1, <2>2 DEF TypeInv, TypeOK, bounds, history
<1> QED
  BY <1>0, <1>3, <1>4, <1>5, <1>6 DEF TypeInv

LEMMA DownType ==
  ASSUME TypeInv, Down
  PROVE  TypeInv'
<1>1. /\ phase' = "down" /\ events' \in 0..MaxEvents
      /\ \A h \in Households : bots'[h] = None
      /\ \A a \in Apps : apps'[a] = None
      /\ \A s \in Sessions : work'[s] = NoWork
      /\ UNCHANGED <<rows, fresh, unborn>>
  BY TypeFacts, BotsAssumption DEF Down, Happens
<1>2. AppInv' /\ PhaseInv' /\ BootInv'
  BY <1>1, NoWorkOK DEF AppInv, PhaseInv, BootInv
<1>3. TypeOK'
  BY <1>1, <1>2, NoWorkOK DEF TypeInv, TypeOK, rows, Down
<1> QED
  BY <1>1, <1>2, <1>3, NoWorkOK DEF TypeInv

\* A household is founded: a row more, and nothing else that a session or a poller has.
LEMMA FoundFacts ==
  ASSUME TypeInv, NEW h \in Households, Found(h)
  PROVE  /\ phase = "up" /\ alive' = alive \cup {h} /\ unstarted' = unstarted \cup {h}
         /\ h \notin alive' \ unstarted'
         /\ UNCHANGED <<token, chat, phase, bots, apps, codes, work, stray, raced>>
         /\ \A g : TokenOf(g)' = TokenOf(g)
         /\ \A s \in Sessions : work[s].job # "boot"
BY DEF Found, memory, TokenOf, TypeInv, PhaseInv

LEMMA FoundType ==
  ASSUME TypeInv, NEW h \in Households, Found(h)
  PROVE  TypeInv'
<1>1. TypeOK'
  BY DEF Found, TypeInv, TypeOK, memory
<1>2. AppInv' /\ PhaseInv'
  BY FoundFacts DEF TypeInv, AppInv, PhaseInv
<1>3. BootInv'
  BY FoundFacts DEF BootInv
<1> QED
  BY <1>1, <1>2, <1>3, FoundFacts DEF TypeInv

LEMMA InitType == Init => TypeInv
<1> SUFFICES ASSUME Init
             PROVE  TypeInv
  OBVIOUS
<1>1. /\ \A h \in Households : bots[h] = None
      /\ \A a \in Apps : apps[a] = None
      /\ \A s \in Sessions : work[s] = NoWork
  BY DEF Init
<1>2. AppInv /\ PhaseInv /\ BootInv
  BY <1>1, NoWorkOK DEF AppInv, PhaseInv, BootInv, Init
<1>3. TypeOK
  BY <1>1, NoWorkOK, BotsAssumption DEF TypeOK, Init
<1> QED
  BY <1>1, <1>2, <1>3, NoWorkOK DEF TypeInv

LEMMA TypeStep == TypeInv /\ [Next]_vars => TypeInv'
<1> SUFFICES ASSUME TypeInv, [Next]_vars
             PROVE  TypeInv'
  OBVIOUS
<1>1. ASSUME NEW s \in Sessions, Step(s)
      PROVE  TypeInv'
  BY <1>1, PopType, StopType, CreateType, RegisterType, BootNextType, BootFailsType, SaveType,
     StartFailsType, DeleteRowsType, WriteUnlinkType, LinkingType, CommitType,
     CommitFailsType, DeadlockedType DEF Step
<1>2. ASSUME NEW s \in Sessions, Starts(s)
      PROVE  TypeInv'
  BY <1>2, BootType, RequestType, StartType DEF Starts
<1>3. ASSUME NEW h \in Households, NEW k \in Codes, CreateLink(h, k)
      PROVE  TypeInv'
  BY <1>3, TypeFacts, CodesType DEF CreateLink, history
<1>4. ASSUME NEW k \in Codes, Expire(k)
      PROVE  TypeInv'
  BY <1>4, TypeFacts, CodesType DEF Expire, bounds
<1>5. CASE UNCHANGED vars
  BY <1>5, TypeFacts, CodesType DEF vars, memory, bounds
<1>6. ASSUME NEW h \in Households, Found(h)
      PROVE  TypeInv'
  BY <1>6, FoundType
<1> QED
  BY <1>1, <1>2, <1>3, <1>4, <1>5, <1>6, DownType DEF Next

\* Types, also those of the sessions: a session that stops or starts an Application has one
\* that no other session has, and a poller in the registry polls for its household.
THEOREM TypesStay == Spec => []TypeOK
<1>1. TypeInv => TypeOK
  BY DEF TypeInv
<1> QED
  BY <1>1, InitType, TypeStep, PTL DEF Spec

-----------------------------------------------------------------------------
(* Locks *)

\* s has the locks it had, or none.
LockQuiet(s) ==
  \/ ~work'[s].saved /\ ~work'[s].drops /\ work'[s].put = {}
  \/ /\ work'[s].saved = work[s].saved /\ work'[s].drops = work[s].drops
     /\ work'[s].put = work[s].put /\ work'[s].h = work[s].h

LEMMA QuietLocks ==
  ASSUME LockInv, NEW s \in Sessions, Moves(s), LockQuiet(s), alive' = alive
  PROVE  LockInv'
<1>1. \A t \in Sessions : Held(t)' = Held(t) \/ Held(t)' = {}
  BY DEF Held, Moves, LockQuiet
<1>2. \A t \in Sessions : work'[t].saved => work[t].saved /\ work'[t].h = work[t].h
  BY DEF Moves, LockQuiet
<1> QED
  BY <1>1, <1>2 DEF LockInv

LEMMA FlushLocks ==
  ASSUME LockInv, NEW s \in Sessions, Moves(s), MayFlush(s), alive' = alive,
         Held(s)' \subseteq Held(s) \cup Wants(s),
         work'[s].saved => work'[s].h \in alive
  PROVE  LockInv'
<1>1. \A t \in Sessions \ {s} : Held(t)' = Held(t)
  BY DEF Held, Moves
<1>2. \A t \in Sessions \ {s} : Wants(s) \cap Held(t) = {}
  BY DEF MayFlush, BlockedBy
<1>3. \A t, u \in Sessions : t # u => Held(t) \cap Held(u) = {}
  BY DEF LockInv
<1>4. \A t \in Sessions \ {s} : Held(s)' \cap Held(t)' = {}
  BY <1>1, <1>2, <1>3
<1>5. \A t, u \in Sessions : t # u => Held(t)' \cap Held(u)' = {}
  BY <1>1, <1>3, <1>4
<1>6. \A t \in Sessions : work'[t].saved => work'[t].h \in alive'
  BY DEF Moves, LockInv
<1> QED
  BY <1>5, <1>6 DEF LockInv

LEMMA RaiseLocks ==
  ASSUME TypeInv, LockInv, NEW s \in Sessions, Raise(s)
  PROVE  LockInv'
BY RaiseFacts, NoWorkOK, QuietLocks DEF LockQuiet, rows

LEMMA SaveLocks ==
  ASSUME TypeInv, LockInv, NEW s \in Sessions, SaveToken(s)
  PROVE  LockInv'
<1>1. CASE work[s].h \notin alive
  BY <1>1, RaiseLocks DEF SaveToken
<1>2. CASE work[s].h \in alive
  <2>1. Held(s)' \subseteq Wants(s)
    <3>1. /\ work'[s].put = {} /\ work'[s].h = work[s].h /\ work[s].pc = "save"
      BY <1>2, SaveFacts, WorkType DEF SameJob, PlaceOK, TokenOK
    <3> QED
      BY <3>1 DEF Held, Wants
  <2> QED
    BY <1>2, <2>1, SaveFacts, FlushLocks DEF rows, SameJob
<1> QED
  BY <1>1, <1>2

LEMMA DeleteRowsLocks ==
  ASSUME TypeInv, LockInv, NEW s \in Sessions, DeleteRows(s)
  PROVE  LockInv'
<1>1. CASE Raise(s)
  BY <1>1, RaiseLocks
<1>2. CASE ~Raise(s)
  <2>0. work[s].put = {} /\ ~work[s].saved
    BY <1>2, DeleteFacts, WorkType DEF PlaceOK, DeleteOK
  <2>1. Held(s)' \subseteq Wants(s)
    <3>1. /\ work'[s].put = {} /\ work'[s].h = work[s].h /\ work[s].pc = "delete"
      BY <1>2, <2>0, DeleteFacts DEF SameJob
    <3> QED
      BY <3>1 DEF Held, Wants
  <2> QED
    BY <1>2, <2>0, <2>1, DeleteFacts, FlushLocks DEF rows
<1> QED
  BY <1>1, <1>2

LEMMA UnlinkLocks ==
  ASSUME TypeInv, LockInv, NEW s \in Sessions, WriteUnlink(s)
  PROVE  LockInv'
<1>1. CASE Raise(s)
  BY <1>1, RaiseLocks
<1>2. CASE ~Raise(s)
  <2>0. ~work'[s].saved /\ ~work'[s].drops
    BY <1>2, UnlinkFacts, WorkType DEF PlaceOK, UnlinkOK
  <2>1. Held(s)' \subseteq Wants(s)
    <3>1. /\ work'[s].put \subseteq {<<work[s].h, None>>} /\ work[s].pc = "write"
      BY <1>2, UnlinkFacts
    <3>2. Wants(s) = {work[s].h}
      BY <3>1 DEF Wants
    <3>3. \A p \in work'[s].put : p[1] = work[s].h /\ p[2] = None
      BY <3>1
    <3> QED
      BY <2>0, <3>2, <3>3 DEF Held
  <2> QED
    BY <1>2, <2>0, <2>1, UnlinkFacts, FlushLocks DEF rows
<1> QED
  BY <1>1, <1>2

LEMMA ClearLocks ==
  ASSUME TypeInv, LockInv, NEW s \in Sessions, Clear(s)
  PROVE  LockInv'
<1>1. CASE Raise(s)
  BY <1>1, RaiseLocks
<1>2. CASE ~Raise(s)
  <2>0. ~work'[s].saved /\ ~work'[s].drops
    BY <1>2, ClearFacts, WorkType DEF PlaceOK, StartOK
  <2>1. Held(s)' \subseteq Wants(s)
    <3>1. work'[s].put = Cleared(work[s]) /\ work[s].pc = "clear"
      BY <1>2, ClearFacts
    <3>2. Wants(s) = {work[s].found} \ {None, work[s].h}
      BY <3>1 DEF Wants
    <3>3. \A p \in work'[s].put : p[1] \in Wants(s) /\ p[2] = None
      BY <3>1, <3>2 DEF Cleared
    <3> QED
      BY <2>0, <3>3 DEF Held
  <2> QED
    BY <1>2, <2>0, <2>1, ClearFacts, FlushLocks DEF rows
<1> QED
  BY <1>1, <1>2

LEMMA SetLocks ==
  ASSUME TypeInv, LockInv, NEW s \in Sessions, SetChat(s)
  PROVE  LockInv'
<1>1. CASE Raise(s)
  BY <1>1, RaiseLocks
<1>2. CASE ~Raise(s)
  <2>0. ~work'[s].saved /\ ~work'[s].drops
    BY <1>2, SetFacts, WorkType DEF PlaceOK, StartOK
  <2>1. Held(s)' \subseteq Held(s) \cup Wants(s)
    <3>1. /\ work'[s].put = Cleared(work[s]) \cup Linked(work[s])
          /\ work[s].put = Cleared(work[s]) /\ work[s].pc = "set"
      BY <1>2, SetFacts
    <3>2. Wants(s) = IF work[s].sees = work[s].chat THEN {} ELSE {work[s].h, work[s].chat}
      BY <3>1 DEF Wants
    <3>3. \A p \in work'[s].put \ work[s].put : p[1] \in Wants(s) /\ p[2] \in Wants(s)
      BY <3>1, <3>2 DEF Linked
    <3> QED
      BY <2>0, <3>3 DEF Held
  <2> QED
    BY <1>2, <2>0, <2>1, SetFacts, FlushLocks DEF rows
<1> QED
  BY <1>1, <1>2

LEMMA CommitLocks ==
  ASSUME TypeInv, LockInv, NEW s \in Sessions, Commit(s)
  PROVE  LockInv'
<1>1. /\ work'[s] = NoWork /\ \A t \in Sessions \ {s} : SameFields(t)
  BY CommitFacts
<1>2. \A t \in Sessions : Held(t)' = Held(t) \/ Held(t)' = {}
  BY <1>1, NoWorkOK DEF Held, SameFields
<1>3. \A t \in Sessions : work'[t].saved => t # s /\ work[t].saved /\ work'[t].h = work[t].h
  BY <1>1, NoWorkOK DEF SameFields
<1>4. alive' = IF work[s].drops THEN alive \ {work[s].h} ELSE alive
  BY CommitRows
<1>5. \A t \in Sessions \ {s} : work[t].saved /\ work[s].drops => work[t].h # work[s].h
  BY DEF LockInv, Held
<1> QED
  BY <1>2, <1>3, <1>4, <1>5 DEF LockInv

LEMMA LockStep == TypeInv /\ LockInv /\ [Next]_vars => LockInv'
<1> SUFFICES ASSUME TypeInv, LockInv, [Next]_vars
             PROVE  LockInv'
  OBVIOUS
<1>1. ASSUME NEW s \in Sessions, Step(s)
      PROVE  LockInv'
  <2>1. CASE Pop(s)
    BY <2>1, PopFacts, QuietLocks DEF LockQuiet, SameWrites, SameJob, rows
  <2>2. CASE Stop(s)
    BY <2>2, StopFacts, QuietLocks DEF LockQuiet, SameWrites, SameJob, rows
  <2>3. CASE Create(s)
    BY <2>3, CreateFacts, QuietLocks DEF LockQuiet, SameWrites, SameJob, rows
  <2>4. CASE Register(s)
    <3>1. work[s].job = "boot" => ~work[s].saved /\ ~work[s].drops /\ work[s].put = {}
      BY WorkType DEF PlaceOK, BootOK
    <3> QED
      BY <2>4, <3>1, RegisterFacts, QuietLocks DEF LockQuiet, SameWrites, rows
  <2>5. CASE BootNext(s) \/ BootFails(s)
    <3>1. work[s].job = "boot" => ~work[s].saved /\ ~work[s].drops /\ work[s].put = {}
      BY WorkType DEF PlaceOK, BootOK
    <3> QED
      BY <2>5, <3>1, BootNextFacts, BootFailsFacts, NoWorkOK, QuietLocks
         DEF LockQuiet, SameWrites, rows
  <2>6. CASE FindLinked(s)
    BY <2>6, FindFacts, QuietLocks DEF LockQuiet, SameWrites, SameJob, rows
  <2> QED
    BY <1>1, <2>1, <2>2, <2>3, <2>4, <2>5, <2>6, SaveLocks, DeleteRowsLocks, UnlinkLocks,
       ClearLocks, SetLocks, CommitLocks, RaiseLocks DEF Step, StartFails, CommitFails, Deadlocked
<1>2. ASSUME NEW s \in Sessions, Starts(s)
      PROVE  LockInv'
  <2>1. CASE Boot(s)
    BY <2>1, BootFacts, QuietLocks DEF LockQuiet, rows
  <2>2. ASSUME NEW h \in Households,
               (\E t \in Tokens : PostToken(s, h, t)) \/ DeleteHousehold(s, h) \/ Unlink(s, h)
        PROVE  LockInv'
    BY <2>2, PostFacts, DeleteHouseholdFacts, UnlinkRequestFacts, QuietLocks DEF LockQuiet, rows
  <2>3. ASSUME NEW a \in Apps, NEW c \in Chats, NEW k \in Codes, StartCommand(s, a, c, k)
        PROVE  LockInv'
    BY <2>3, StartFacts, QuietLocks DEF LockQuiet, rows
  <2> QED
    BY <1>2, <2>1, <2>2, <2>3 DEF Starts
<1>3. CASE work' = work /\ alive \subseteq alive'
  BY <1>3 DEF LockInv, Held
<1>4. CASE Down
  BY <1>4, NoWorkOK DEF LockInv, Held, Down
<1>5. ASSUME NEW h \in Households, Found(h)
      PROVE  LockInv'
  BY <1>3, <1>5, FoundFacts
<1> QED
  BY <1>1, <1>2, <1>3, <1>4, <1>5 DEF Next, CreateLink, Expire, vars, rows

-----------------------------------------------------------------------------
(* Pollers *)

\* s keeps its Application and does not begin to swap.
PollerQuiet(s) ==
  /\ work'[s].app = work[s].app
  /\ Swaps(work'[s]) /\ work'[s].job # "delete" =>
       Swaps(work[s]) /\ work[s].job # "delete" /\ work'[s].h = work[s].h

LEMMA QuietPollers ==
  ASSUME PollerInv, NEW s \in Sessions, Moves(s), PollerQuiet(s), UNCHANGED <<bots, apps>>
  PROVE  PollerInv'
<1>1. \A t \in Sessions : work'[t].app = work[t].app
  BY DEF Moves, PollerQuiet
<1>2. \A t \in Sessions : Swaps(work'[t]) /\ work'[t].job # "delete" =>
        Swaps(work[t]) /\ work[t].job # "delete" /\ work'[t].h = work[t].h
  BY DEF Moves, PollerQuiet
<1>3. \A a \in Apps : apps'[a] # None => bots'[apps'[a].h] = a \/ \E t \in Sessions : work'[t].app = a
  BY <1>1 DEF PollerInv
<1>4. \A t \in Sessions : Swaps(work'[t]) /\ work'[t].job # "delete" => bots'[work'[t].h] = None
  BY <1>2 DEF PollerInv
<1> QED
  BY <1>3, <1>4 DEF PollerInv

LEMMA RaisePollers ==
  ASSUME TypeInv, PollerInv, NEW s \in Sessions, Raise(s), work[s].app = None
  PROVE  PollerInv'
BY RaiseFacts, NoWorkOK, QuietPollers DEF PollerQuiet, Swaps, memory

\* Only one session at a time has popped the poller of a household to start another.
LEMMA SwapsAlone ==
  ASSUME TypeInv, LockInv, NEW s \in Sessions, NEW t \in Sessions, s # t,
         Swaps(work[s]), Swaps(work[t]), work[s].job # "delete", work[t].job # "delete"
  PROVE  work[s].h # work[t].h
<1>1. work[s].job \in {"token", "boot"} /\ work[t].job \in {"token", "boot"}
  BY DEF Swaps
<1>2. work[s].job = "token" /\ work[t].job = "token"
  BY <1>1 DEF TypeInv, PhaseInv
<1>3. work[s].saved /\ work[t].saved
  BY <1>2, WorkType DEF Swaps, PlaceOK, TokenOK
<1> QED
  BY <1>3 DEF LockInv, Held

LEMMA PopPollers ==
  ASSUME TypeInv, PollerInv, NEW s \in Sessions, Pop(s)
  PROVE  PollerInv'
<1> DEFINE w == work[s]
           v == work'[s]
<1>0. /\ Moves(s) /\ v.h = w.h /\ w.h \in Households /\ w.app = None
      /\ v.app = bots[w.h]
      /\ bots' = [bots EXCEPT ![w.h] = None] /\ apps' = apps
  BY PopFacts DEF SameJob
<1>1. \A t \in Sessions \ {s} : work'[t] = work[t]
  BY <1>0 DEF Moves
<1>2. bots'[w.h] = None /\ \A h \in Households \ {w.h} : bots'[h] = bots[h]
  BY <1>0, TypeFacts
<1>3. ASSUME NEW a \in Apps, apps'[a] # None
      PROVE  bots'[apps'[a].h] = a \/ \E t \in Sessions : work'[t].app = a
  <2>1. apps[a].h \in Households /\ apps'[a] = apps[a]
    BY <1>0, <1>3, TypeFacts
  <2>2. CASE bots[apps[a].h] = a
    BY <1>0, <1>2, <2>1, <2>2
  <2>3. CASE bots[apps[a].h] # a
    <3>1. PICK t \in Sessions : work[t].app = a
      BY <1>0, <1>3, <2>3 DEF PollerInv
    <3>2. t # s
      BY <1>0, <3>1, BotsAssumption
    <3> QED
      BY <1>1, <3>1, <3>2
  <2> QED
    BY <2>2, <2>3
<1>4. ASSUME NEW t \in Sessions, Swaps(work'[t]), work'[t].job # "delete"
      PROVE  bots'[work'[t].h] = None
  <2>1. CASE t = s
    BY <1>0, <1>2, <2>1
  <2>2. CASE t # s
    <3>1. work'[t] = work[t] /\ bots[work[t].h] = None
      BY <1>1, <1>4, <2>2 DEF PollerInv
    <3>2. work[t].h \in Households
      BY <1>4, <3>1, WorkType DEF Swaps, Session
    <3> QED
      BY <1>2, <3>1, <3>2
  <2> QED
    BY <2>1, <2>2
<1> QED
  BY <1>3, <1>4 DEF PollerInv

LEMMA StopPollers ==
  ASSUME TypeInv, PollerInv, NEW s \in Sessions, Stop(s)
  PROVE  PollerInv'
<1> DEFINE w == work[s]
           v == work'[s]
<1>0. /\ Moves(s) /\ v.h = w.h /\ w.h \in Households /\ w.app \in Apps /\ v.job = w.job
      /\ w.pc = "stop" /\ w.job \in {"token", "delete", "boot"}
      /\ apps' = [apps EXCEPT ![w.app] = None] /\ bots' = bots
  BY StopFacts DEF SameJob
<1>1. \A t \in Sessions \ {s} : work'[t] = work[t]
  BY <1>0 DEF Moves
<1>3. ASSUME NEW a \in Apps, apps'[a] # None
      PROVE  bots'[apps'[a].h] = a \/ \E t \in Sessions : work'[t].app = a
  <2>1. a # w.app /\ apps'[a] = apps[a]
    BY <1>0, <1>3, TypeFacts
  <2> QED
    BY <1>0, <1>1, <1>3, <2>1 DEF PollerInv
<1>4. ASSUME NEW t \in Sessions, Swaps(work'[t]), work'[t].job # "delete"
      PROVE  bots'[work'[t].h] = None
  <2>1. CASE t = s
    <3>1. Swaps(w) /\ w.job # "delete"
      BY <1>0, <1>4, <2>1, BotsAssumption DEF Swaps
    <3> QED
      BY <1>0, <2>1, <3>1 DEF PollerInv
  <2>2. CASE t # s
    BY <1>0, <1>1, <1>4, <2>2 DEF PollerInv
  <2> QED
    BY <2>1, <2>2
<1> QED
  BY <1>3, <1>4 DEF PollerInv

LEMMA CreatePollers ==
  ASSUME TypeInv, PollerInv, NEW s \in Sessions, Create(s)
  PROVE  PollerInv'
<1> DEFINE w == work[s]
           v == work'[s]
<1>0. /\ Moves(s) /\ v.h = w.h /\ w.h \in Households /\ w.app = None /\ v.job = w.job
      /\ w.pc = w.job /\ w.job \in {"token", "boot"} /\ bots' = bots
  BY CreateFacts DEF SameJob
<1>a. PICK a \in Apps :
        /\ apps[a] = None /\ v.app = a
        /\ apps' = [apps EXCEPT ![a] = [h |-> w.h, token |-> w.token]]
  BY CreateFacts
<1>1. \A t \in Sessions \ {s} : work'[t] = work[t]
  BY <1>0 DEF Moves
<1>3. ASSUME NEW b \in Apps, apps'[b] # None
      PROVE  bots'[apps'[b].h] = b \/ \E t \in Sessions : work'[t].app = b
  <2>1. CASE b = a
    BY <1>a, <2>1
  <2>2. CASE b # a
    <3>1. apps'[b] = apps[b]
      BY <1>a, <2>2, TypeFacts
    <3>2. bots[apps[b].h] = b \/ \E t \in Sessions : work[t].app = b
      BY <1>3, <3>1 DEF PollerInv
    <3>3. w.app # b
      BY <1>0, BotsAssumption
    <3> QED
      BY <1>0, <1>1, <3>1, <3>2, <3>3
  <2> QED
    BY <2>1, <2>2
<1>4. ASSUME NEW t \in Sessions, Swaps(work'[t]), work'[t].job # "delete"
      PROVE  bots'[work'[t].h] = None
  <2>1. CASE t = s
    <3>1. Swaps(w) /\ w.job # "delete"
      BY <1>0, <1>4, <2>1, BotsAssumption DEF Swaps
    <3> QED
      BY <1>0, <2>1, <3>1 DEF PollerInv
  <2>2. CASE t # s
    BY <1>0, <1>1, <1>4, <2>2 DEF PollerInv
  <2> QED
    BY <2>1, <2>2
<1> QED
  BY <1>3, <1>4 DEF PollerInv

LEMMA RegisterPollers ==
  ASSUME TypeInv, LockInv, PollerInv, NEW s \in Sessions, Register(s)
  PROVE  PollerInv'
<1> DEFINE w == work[s]
           v == work'[s]
<1>0. /\ Moves(s) /\ w.h \in Households /\ w.app \in Apps /\ v.app = None
      /\ v.job = w.job /\ w.pc = "register" /\ w.job \in {"token", "boot"}
      /\ w.job = "token" => v.pc = "commit"
      /\ w.job = "boot" => v.h = None
      /\ bots' = [bots EXCEPT ![w.h] = w.app] /\ apps' = apps
  BY RegisterFacts
<1>1. \A t \in Sessions \ {s} : work'[t] = work[t]
  BY <1>0 DEF Moves
<1>2. bots'[w.h] = w.app /\ \A h \in Households \ {w.h} : bots'[h] = bots[h]
  BY <1>0, TypeFacts
<1>s. Swaps(w) /\ w.job # "delete" /\ bots[w.h] = None
  <2>1. Swaps(w) /\ w.job # "delete"
    BY <1>0, BotsAssumption DEF Swaps
  <2> QED
    BY <2>1 DEF PollerInv
<1>a. apps[w.app].h = w.h
  BY <1>0, BotsAssumption DEF TypeInv, AppInv
<1>3. ASSUME NEW a \in Apps, apps'[a] # None
      PROVE  bots'[apps'[a].h] = a \/ \E t \in Sessions : work'[t].app = a
  <2>1. CASE a = w.app
    BY <1>0, <1>2, <1>a, <2>1
  <2>2. CASE a # w.app
    <3>1. apps[a].h \in Households /\ apps'[a] = apps[a]
      BY <1>0, <1>3, TypeFacts
    <3>2. CASE bots[apps[a].h] = a
      <4>1. apps[a].h # w.h
        BY <1>s, <3>2, BotsAssumption
      <4> QED
        BY <1>2, <3>1, <3>2, <4>1
    <3>3. CASE \E t \in Sessions : work[t].app = a
      BY <1>1, <2>2, <3>3
    <3> QED
      BY <1>3, <3>1, <3>2, <3>3 DEF PollerInv
  <2> QED
    BY <2>1, <2>2
<1>4. ASSUME NEW t \in Sessions, Swaps(work'[t]), work'[t].job # "delete"
      PROVE  bots'[work'[t].h] = None
  <2>1. t # s
    BY <1>0, <1>4 DEF Swaps
  <2>2. work'[t] = work[t] /\ bots[work[t].h] = None
    BY <1>1, <1>4, <2>1 DEF PollerInv
  <2>3. work[t].h \in Households
    BY <1>4, <2>2, WorkType DEF Swaps, Session
  <2>4. work[t].h # w.h
    BY <1>4, <1>s, <2>1, <2>2, SwapsAlone
  <2> QED
    BY <1>2, <2>2, <2>3, <2>4
<1> QED
  BY <1>3, <1>4 DEF PollerInv

LEMMA PollerStep == TypeInv /\ LockInv /\ PollerInv /\ [Next]_vars => PollerInv'
<1> SUFFICES ASSUME TypeInv, LockInv, PollerInv, [Next]_vars
             PROVE  PollerInv'
  OBVIOUS
<1>a. ASSUME NEW s \in Sessions, work[s].pc \notin {"stop", "register"}
      PROVE  work[s].app = None
  BY <1>a, WorkType DEF PlaceOK
<1>1. ASSUME NEW s \in Sessions, Step(s)
      PROVE  PollerInv'
  <2>1. CASE Pop(s) \/ Stop(s) \/ Create(s) \/ Register(s)
    BY <2>1, PopPollers, StopPollers, CreatePollers, RegisterPollers
  <2>2. CASE Raise(s) /\ work[s].app = None
    BY <2>2, RaisePollers
  <2>3. CASE StartFails(s) \/ CommitFails(s) \/ Deadlocked(s)
    <3>1. Deadlocked(s) => Wants(s) # {}
      BY DEF Deadlocked, BlockedBy
    <3>2. work[s].pc \in {"token", "save", "delete", "write", "clear", "set", "commit"}
      BY <2>3, <3>1 DEF StartFails, CommitFails, At, Wants
    <3> QED
      BY <1>a, <2>2, <2>3, <3>2 DEF StartFails, CommitFails, Deadlocked
  <2>4. CASE BootNext(s)
    <3>1. /\ Moves(s) /\ UNCHANGED <<bots, apps>> /\ work'[s].app = None /\ work[s].app = None
          /\ work'[s] = NoWork \/ (work'[s].job = "boot" /\ work'[s].pc = "pop")
      BY <2>4, BootNextFacts, NoWorkOK DEF memory
    <3>2. ~Swaps(work'[s])
      BY <3>1, NoWorkOK DEF Swaps
    <3> QED
      BY <3>1, <3>2, QuietPollers DEF PollerQuiet
  <2>5. CASE BootFails(s)
    <3>1. /\ Moves(s) /\ UNCHANGED <<bots, apps>> /\ work'[s].app = None /\ work[s].app = None
          /\ work'[s].job = "boot" /\ work'[s].h = None
      BY <2>5, BootFailsFacts DEF memory
    <3>2. ~Swaps(work'[s])
      BY <3>1 DEF Swaps
    <3> QED
      BY <3>1, <3>2, QuietPollers DEF PollerQuiet
  <2>6. CASE SaveToken(s)
    <3>0. CASE Raise(s)
      BY <1>a, <2>2, <2>6, <3>0 DEF SaveToken, At
    <3>1. CASE ~Raise(s)
      <4>1. /\ Moves(s) /\ UNCHANGED <<bots, apps>> /\ work'[s].app = None /\ work[s].app = None
            /\ work'[s].job = "token" /\ work'[s].pc = "pop"
        BY <2>6, <3>1, SaveFacts DEF memory, SameJob, SaveToken
      <4>2. ~Swaps(work'[s])
        BY <4>1 DEF Swaps
      <4> QED
        BY <4>1, <4>2, QuietPollers DEF PollerQuiet
    <3> QED
      BY <3>0, <3>1
  <2>7. CASE DeleteRows(s)
    <3>0. CASE Raise(s)
      BY <1>a, <2>2, <2>7, <3>0 DEF DeleteRows, At
    <3>1. CASE ~Raise(s)
      BY <2>7, <3>1, DeleteFacts, QuietPollers DEF PollerQuiet, SameJob, memory
    <3> QED
      BY <3>0, <3>1
  <2>8. CASE WriteUnlink(s)
    <3>0. CASE Raise(s)
      BY <1>a, <2>2, <2>8, <3>0 DEF WriteUnlink, At
    <3>1. CASE ~Raise(s)
      BY <2>8, <3>1, UnlinkFacts, QuietPollers DEF PollerQuiet, SameJob, memory, Swaps
    <3> QED
      BY <3>0, <3>1
  <2>9. CASE FindLinked(s) \/ Clear(s) \/ SetChat(s)
    <3>0. CASE Raise(s)
      BY <1>a, <2>2, <2>9, <3>0 DEF FindLinked, Clear, SetChat, At
    <3>1. CASE ~Raise(s)
      <4>1. /\ Moves(s) /\ UNCHANGED <<bots, apps>> /\ work'[s].app = None /\ work[s].app = None
            /\ work'[s].job = "start"
        BY <2>9, <3>1, FindFacts, ClearFacts, SetFacts DEF memory, SameJob
      <4>2. ~Swaps(work'[s])
        BY <4>1 DEF Swaps
      <4> QED
        BY <4>1, <4>2, QuietPollers DEF PollerQuiet
    <3> QED
      BY <3>0, <3>1
  <2>10. CASE Commit(s)
    <3>1. /\ work'[s] = NoWork /\ \A t \in Sessions \ {s} : SameFields(t)
          /\ work[s].app = None /\ UNCHANGED <<bots, apps>>
      BY <2>10, CommitFacts DEF memory
    <3>2. \A t \in Sessions : /\ work'[t].app = work[t].app
                              /\ Swaps(work'[t]) => /\ Swaps(work[t]) /\ work'[t].h = work[t].h
                                                    /\ work'[t].job = work[t].job
      BY <3>1, NoWorkOK DEF SameFields, Swaps
    <3>3. \A a \in Apps : apps'[a] # None =>
            bots'[apps'[a].h] = a \/ \E t \in Sessions : work'[t].app = a
      BY <3>1, <3>2 DEF PollerInv
    <3>4. \A t \in Sessions : Swaps(work'[t]) /\ work'[t].job # "delete" => bots'[work'[t].h] = None
      BY <3>1, <3>2 DEF PollerInv
    <3> QED
      BY <3>3, <3>4 DEF PollerInv
  <2> QED
    BY <1>1, <2>1, <2>3, <2>4, <2>5, <2>6, <2>7, <2>8, <2>9, <2>10 DEF Step
<1>2. ASSUME NEW s \in Sessions, Starts(s)
      PROVE  PollerInv'
  <2>1. CASE Boot(s)
    BY <2>1, BootFacts, NoWorkOK, QuietPollers DEF PollerQuiet, Swaps, memory
  <2>2. ASSUME NEW h \in Households,
               (\E t \in Tokens : PostToken(s, h, t)) \/ DeleteHousehold(s, h) \/ Unlink(s, h)
        PROVE  PollerInv'
    BY <2>2, PostFacts, DeleteHouseholdFacts, UnlinkRequestFacts, NoWorkOK, QuietPollers
       DEF PollerQuiet, Swaps, memory
  <2>3. ASSUME NEW a \in Apps, NEW c \in Chats, NEW k \in Codes, StartCommand(s, a, c, k)
        PROVE  PollerInv'
    BY <2>3, StartFacts, NoWorkOK, QuietPollers DEF PollerQuiet, Swaps
  <2> QED
    BY <1>2, <2>1, <2>2, <2>3 DEF Starts
<1>3. CASE UNCHANGED <<work, bots, apps>>
  BY <1>3 DEF PollerInv
<1>4. CASE Down
  BY <1>4, NoWorkOK DEF PollerInv, Swaps, Down
<1>5. ASSUME NEW h \in Households, Found(h)
      PROVE  PollerInv'
  BY <1>3, <1>5, FoundFacts
<1> QED
  BY <1>1, <1>2, <1>3, <1>4, <1>5 DEF Next, CreateLink, Expire, vars, memory

LEMMA LocksInit == Init => LockInv /\ PollerInv
<1> SUFFICES ASSUME Init
             PROVE  LockInv /\ PollerInv
  OBVIOUS
<1>1. \A s \in Sessions : work[s] = NoWork
  BY DEF Init
<1>2. \A s \in Sessions : Held(s) = {}
  BY <1>1, NoWorkOK DEF Held
<1> QED
  BY <1>1, <1>2, NoWorkOK DEF Init, LockInv, PollerInv, Swaps

-----------------------------------------------------------------------------
(* Tokens *)

AtCommit(s) == work[s].job = "token" /\ work[s].pc = "commit"

\* A new token and a deletion of the same household at the same time are in raced.
Raced(s) ==
  \A t \in Sessions \ {s} :
    work'[t].h = work'[s].h /\ {work'[s].job, work'[t].job} = {"token", "delete"}
      => work'[s].h \in raced'

\* s keeps its household if it has a new token for it or deletes it, does not announce a
\* poller, and takes pollers from the registry at most.
TokenQuiet(s) ==
  /\ \/ work'[s].job = work[s].job /\ (work[s].job # "boot" => work'[s].h = work[s].h)
     \/ work'[s].job \notin {"token", "delete"}
     \/ Raced(s)
  /\ ~AtCommit(s) /\ ~AtCommit(s)'
  /\ Swaps(work'[s]) /\ work'[s].job = "delete" =>
       \/ Swaps(work[s]) /\ work[s].job = "delete" /\ work'[s].h = work[s].h
       \/ bots'[work'[s].h] = None
  /\ \A h \in Households : bots'[h] # None =>
       bots'[h] = bots[h] /\ apps'[bots[h]] = apps[bots[h]]
  /\ UNCHANGED <<alive, token>>
  /\ raced \subseteq raced' /\ stray \subseteq stray'

LEMMA RacedPairs ==
  ASSUME TypeInv, TokenInv, NEW s \in Sessions, Moves(s), raced \subseteq raced',
         \/ work'[s].job = work[s].job /\ (work[s].job # "boot" => work'[s].h = work[s].h)
         \/ work'[s].job \notin {"token", "delete"}
         \/ Raced(s)
  PROVE  \A t, u \in Sessions :
           work'[t].job = "token" /\ work'[u].job = "delete" /\ work'[t].h = work'[u].h
             => work'[t].h \in raced'
<1> SUFFICES ASSUME NEW t \in Sessions, NEW u \in Sessions, work'[t].job = "token",
                    work'[u].job = "delete", work'[t].h = work'[u].h
             PROVE  work'[t].h \in raced'
  OBVIOUS
<1>1. CASE Raced(s) /\ (s = t \/ s = u)
  BY <1>1 DEF Raced
<1>2. CASE s # t /\ s # u
  BY <1>2 DEF Moves, TokenInv
<1>3. CASE work'[s].job = work[s].job /\ (work[s].job # "boot" => work'[s].h = work[s].h)
  <2>1. \A x \in Sessions : work'[x].job \in {"token", "delete"} =>
          work[x].job = work'[x].job /\ work[x].h = work'[x].h
    BY <1>3 DEF Moves
  <2> QED
    BY <2>1 DEF TokenInv
<1> QED
  BY <1>1, <1>2, <1>3

LEMMA QuietTokens ==
  ASSUME TypeInv, TokenInv, NEW s \in Sessions, Moves(s), TokenQuiet(s)
  PROVE  TokenInv'
<1>1. \A t \in Sessions \ {s} : work'[t] = work[t]
  BY DEF Moves
<1>2. \A t, u \in Sessions :
        work'[t].job = "token" /\ work'[u].job = "delete" /\ work'[t].h = work'[u].h
          => work'[t].h \in raced'
  BY RacedPairs DEF TokenQuiet
<1>3. \A t \in Sessions :
        Swaps(work'[t]) /\ work'[t].job = "delete" /\ work'[t].h \notin raced'
          => bots'[work'[t].h] = None
  <2> SUFFICES ASSUME NEW t \in Sessions, Swaps(work'[t]), work'[t].job = "delete",
                      work'[t].h \notin raced', bots'[work'[t].h] # None
               PROVE  FALSE
    OBVIOUS
  <2>1. Swaps(work[t]) /\ work[t].job = "delete" /\ work[t].h = work'[t].h
    BY <1>1 DEF TokenQuiet
  <2>2. bots[work[t].h] = None /\ work[t].h \in Households
    BY <2>1, WorkType DEF TokenInv, TokenQuiet, PlaceOK, DeleteOK
  <2> QED
    BY <2>1, <2>2 DEF TokenQuiet
<1>4. \A t \in Sessions, h \in Households : Announces(t, h)' <=> Announces(t, h)
  BY <1>1 DEF Announces, TokenQuiet, AtCommit
<1>5. \A t \in Sessions, h \in Households : Announces(t, h) => work'[t].token = work[t].token
  BY <1>1 DEF Announces, TokenQuiet, AtCommit
<1>6. \A h : TokenOf(h)' = TokenOf(h)
  BY DEF TokenQuiet, TokenOf
<1>7. \A h \in Households : bots'[h] # None =>
        bots'[h] = bots[h] /\ apps'[bots'[h]] = apps[bots[h]]
  BY DEF TokenQuiet
<1>8. \A t \in Sessions, h \in Households :
        Announces(t, h)' /\ bots'[h] # None => apps'[bots'[h]].token = work'[t].token
  BY <1>4, <1>5, <1>7 DEF TokenInv
<1>9. \A h \in Households \ (raced' \cup stray') : bots'[h] # None =>
        \/ h \in alive' /\ apps'[bots'[h]].token = TokenOf(h)'
        \/ \E t \in Sessions : Announces(t, h)'
  <2> SUFFICES ASSUME NEW h \in Households \ (raced' \cup stray'), bots'[h] # None
               PROVE  \/ h \in alive' /\ apps'[bots'[h]].token = TokenOf(h)'
                      \/ \E t \in Sessions : Announces(t, h)'
    OBVIOUS
  <2>1. h \in Households \ (raced \cup stray) /\ bots[h] # None /\ alive' = alive
        /\ apps'[bots'[h]] = apps[bots[h]]
    BY <1>7 DEF TokenQuiet
  <2>2. \/ h \in alive /\ apps[bots[h]].token = TokenOf(h)
        \/ \E t \in Sessions : Announces(t, h)
    BY <2>1 DEF TokenInv
  <2> QED
    BY <1>4, <1>6, <2>1, <2>2
<1> QED
  BY <1>2, <1>3, <1>8, <1>9 DEF TokenInv

LEMMA RegisterTokens ==
  ASSUME TypeInv, LockInv, PollerInv, TokenInv, NEW s \in Sessions, Register(s)
  PROVE  TokenInv'
<1> DEFINE w == work[s]
           v == work'[s]
<1>0. /\ Moves(s) /\ w.h \in Households /\ w.app \in Apps /\ v.app = None
      /\ v.job = w.job /\ w.pc = "register" /\ w.job \in {"token", "boot"}
      /\ w.job = "token" => v.pc = "commit" /\ v.h = w.h /\ v.token = w.token
      /\ w.job = "boot" => v.h = None
      /\ bots' = [bots EXCEPT ![w.h] = w.app] /\ apps' = apps
      /\ raced' = raced /\ stray' = stray \ {w.h} /\ alive' = alive /\ token' = token
  BY RegisterFacts DEF rows
<1>1. \A t \in Sessions \ {s} : work'[t] = work[t]
  BY <1>0 DEF Moves
<1>2. bots'[w.h] = w.app /\ \A h \in Households \ {w.h} : bots'[h] = bots[h]
  BY <1>0, TypeFacts
<1>a. apps[w.app].token = w.token
  BY <1>0, BotsAssumption DEF TypeInv, AppInv
<1>b. \A t \in Sessions, h \in Households :
        Announces(t, h)' => (Announces(t, h) /\ t # s) \/ (t = s /\ w.job = "token" /\ h = w.h)
  BY <1>0, <1>1 DEF Announces
<1>c. \A t \in Sessions \ {s}, h \in Households : Announces(t, h) => Announces(t, h)' /\ h # w.h
  <2> SUFFICES ASSUME NEW t \in Sessions \ {s}, NEW h \in Households, Announces(t, h)
               PROVE  Announces(t, h)' /\ h # w.h
    OBVIOUS
  <2>1. work[t].job = "token" /\ work[t].h = h /\ work[t].saved
    BY WorkType DEF Announces, PlaceOK, TokenOK
  <2>2. w.job = "token"
    BY <1>0, <2>1 DEF TypeInv, PhaseInv
  <2>3. w.saved
    BY <1>0, <2>2, WorkType DEF PlaceOK, TokenOK
  <2>4. h # w.h
    BY <2>1, <2>3 DEF LockInv, Held
  <2> QED
    BY <1>1, <2>4 DEF Announces
<1>3. \A t, u \in Sessions :
        work'[t].job = "token" /\ work'[u].job = "delete" /\ work'[t].h = work'[u].h
          => work'[t].h \in raced'
  BY <1>0, RacedPairs
<1>4. \A t \in Sessions :
        Swaps(work'[t]) /\ work'[t].job = "delete" /\ work'[t].h \notin raced'
          => bots'[work'[t].h] = None
  <2> SUFFICES ASSUME NEW t \in Sessions, Swaps(work'[t]), work'[t].job = "delete",
                      work'[t].h \notin raced'
               PROVE  bots'[work'[t].h] = None
    OBVIOUS
  <2>1. t # s /\ work'[t] = work[t]
    BY <1>0, <1>1
  <2>2. bots[work[t].h] = None /\ work[t].h \in Households
    BY <1>0, <2>1, WorkType DEF TokenInv, PlaceOK, DeleteOK
  <2>3. w.job = "token"
    BY <1>0, <2>1 DEF TypeInv, PhaseInv
  <2>4. work[t].h # w.h
    BY <1>0, <2>1, <2>3 DEF TokenInv
  <2> QED
    BY <1>2, <2>1, <2>2, <2>4
<1>5. \A t \in Sessions, h \in Households :
        Announces(t, h)' /\ bots'[h] # None => apps'[bots'[h]].token = work'[t].token
  <2> SUFFICES ASSUME NEW t \in Sessions, NEW h \in Households, Announces(t, h)', bots'[h] # None
               PROVE  apps'[bots'[h]].token = work'[t].token
    OBVIOUS
  <2>1. CASE t = s
    BY <1>0, <1>2, <1>a, <1>b, <2>1
  <2>2. CASE t # s
    <3>1. Announces(t, h) /\ h # w.h /\ work'[t] = work[t]
      BY <1>1, <1>b, <1>c, <2>2
    <3>2. bots'[h] = bots[h]
      BY <1>2, <3>1
    <3> QED
      BY <1>0, <3>1, <3>2 DEF TokenInv
  <2> QED
    BY <2>1, <2>2
<1>6. \A h \in Households \ (raced' \cup stray') : bots'[h] # None =>
        \/ h \in alive' /\ apps'[bots'[h]].token = TokenOf(h)'
        \/ \E t \in Sessions : Announces(t, h)'
  <2> SUFFICES ASSUME NEW h \in Households \ (raced' \cup stray'), bots'[h] # None
               PROVE  \/ h \in alive' /\ apps'[bots'[h]].token = TokenOf(h)'
                      \/ \E t \in Sessions : Announces(t, h)'
    OBVIOUS
  <2>0. TokenOf(h)' = TokenOf(h)
    BY <1>0 DEF TokenOf
  <2>1. CASE h = w.h /\ w.job = "token"
    <3>1. Announces(s, h)'
      BY <1>0, <2>1 DEF Announces
    <3> QED
      BY <3>1
  <2>2. CASE h = w.h /\ w.job = "boot"
    <3>1. w.h \in alive /\ w.token = TokenOf(w.h)
      BY <1>0, <2>2, BotsAssumption DEF TypeInv, BootInv
    <3> QED
      BY <1>0, <1>2, <1>a, <2>0, <2>2, <3>1
  <2>3. CASE h # w.h
    <3>1. bots'[h] = bots[h]
      BY <1>2, <2>3
    <3>2. \/ h \in alive /\ apps[bots[h]].token = TokenOf(h)
          \/ \E t \in Sessions : Announces(t, h)
      BY <1>0, <2>3, <3>1 DEF TokenInv
    <3>3. ASSUME NEW t \in Sessions, Announces(t, h)
          PROVE  Announces(t, h)'
      <4>1. t # s
        BY <1>0, <3>3 DEF Announces
      <4> QED
        BY <1>c, <3>3, <4>1
    <3> QED
      BY <1>0, <2>0, <3>1, <3>2, <3>3
  <2> QED
    BY <1>0, <2>1, <2>2, <2>3
<1> QED
  BY <1>3, <1>4, <1>5, <1>6 DEF TokenInv

LEMMA CommitTokens ==
  ASSUME TypeInv, LockInv, TokenInv, NEW s \in Sessions, Commit(s)
  PROVE  TokenInv'
<1> DEFINE w == work[s]
<1>0. /\ work'[s] = NoWork /\ \A t \in Sessions \ {s} : SameFields(t)
      /\ w.pc = "commit" /\ w.job \in {"token", "delete", "unlink", "start"}
      /\ w.h \in Households /\ UNCHANGED <<bots, apps, raced, stray>>
  BY CommitFacts DEF memory, history
<1>1. \A t \in Sessions \ {s} :
        /\ work'[t].job = work[t].job /\ work'[t].h = work[t].h /\ work'[t].token = work[t].token
        /\ work'[t].pc = work[t].pc
        /\ Swaps(work'[t]) <=> Swaps(work[t])
  BY <1>0 DEF SameFields, Swaps
<1>2. \A t \in Sessions, h \in Households : Announces(t, h)' <=> t # s /\ Announces(t, h)
  BY <1>0, <1>1, NoWorkOK DEF Announces
<1>3. \A t, u \in Sessions :
        work'[t].job = "token" /\ work'[u].job = "delete" /\ work'[t].h = work'[u].h
          => work'[t].h \in raced'
  BY <1>0, <1>1, NoWorkOK DEF TokenInv
<1>4. \A t \in Sessions :
        Swaps(work'[t]) /\ work'[t].job = "delete" /\ work'[t].h \notin raced'
          => bots'[work'[t].h] = None
  BY <1>0, <1>1, NoWorkOK DEF TokenInv
<1>5. \A t \in Sessions, h \in Households :
        Announces(t, h)' /\ bots'[h] # None => apps'[bots'[h]].token = work'[t].token
  BY <1>0, <1>1, <1>2 DEF TokenInv
<1>6. \A h \in Households \ (raced' \cup stray') : bots'[h] # None =>
        \/ h \in alive' /\ apps'[bots'[h]].token = TokenOf(h)'
        \/ \E t \in Sessions : Announces(t, h)'
  <2> SUFFICES ASSUME NEW h \in Households \ (raced \cup stray), bots[h] # None
               PROVE  \/ h \in alive' /\ apps[bots[h]].token = TokenOf(h)'
                      \/ \E t \in Sessions : Announces(t, h)'
    BY <1>0
  <2>0. TokenOf(h)' = IF token'[h] = None THEN EnvToken ELSE token'[h]
    BY DEF TokenOf
  <2>1. w.drops => w.job = "delete" /\ Swaps(w)
    BY <1>0, WorkType DEF PlaceOK, TokenOK, UnlinkOK, StartOK, Swaps
  <2>2. w.drops => h # w.h
    BY <2>1 DEF TokenInv
  <2>3. h \in alive => h \in alive'
    BY <2>2, CommitRows
  <2>4. CASE w.saved /\ h = w.h
    <3>1. w.job = "token" /\ w.token \in Tokens /\ Announces(s, h)
      BY <1>0, <2>4, WorkType DEF PlaceOK, DeleteOK, UnlinkOK, StartOK, TokenOK, Announces
    <3>2. apps[bots[h]].token = w.token /\ h \in alive
      BY <2>4, <3>1 DEF TokenInv, LockInv
    <3>3. token'[h] = w.token /\ w.token # None
      BY <2>2, <2>4, <3>1, CommitRows, BotsAssumption
    <3> QED
      BY <2>0, <2>3, <3>2, <3>3
  <2>5. CASE ~(w.saved /\ h = w.h)
    <3>1. token'[h] = token[h]
      BY <2>2, <2>5, CommitRows
    <3>2. ~Announces(s, h)
      BY <2>5, WorkType DEF Announces, PlaceOK, TokenOK
    <3>3. \/ h \in alive /\ apps[bots[h]].token = TokenOf(h)
          \/ \E t \in Sessions : Announces(t, h)
      BY DEF TokenInv
    <3>4. TokenOf(h)' = TokenOf(h)
      BY <2>0, <3>1 DEF TokenOf
    <3> QED
      BY <1>2, <2>3, <3>2, <3>3, <3>4
  <2> QED
    BY <2>4, <2>5
<1> QED
  BY <1>3, <1>4, <1>5, <1>6 DEF TokenInv

\* The token of a registered poller is rolled back.
LEMMA StrayTokens ==
  ASSUME TypeInv, TokenInv, NEW s \in Sessions, Raise(s), AtCommit(s)
  PROVE  TokenInv'
<1> DEFINE w == work[s]
<1>0. /\ Moves(s) /\ work'[s] = NoWork /\ UNCHANGED <<bots, apps, alive, token, raced>>
      /\ stray \subseteq stray' /\ (bots[w.h] # None => w.h \in stray')
  BY RaiseFacts DEF rows, memory, AtCommit
<1>1. \A t \in Sessions \ {s} : work'[t] = work[t]
  BY <1>0 DEF Moves
<1>2. \A t \in Sessions, h \in Households : Announces(t, h)' <=> t # s /\ Announces(t, h)
  BY <1>0, <1>1, NoWorkOK DEF Announces
<1>3. \A t, u \in Sessions :
        work'[t].job = "token" /\ work'[u].job = "delete" /\ work'[t].h = work'[u].h
          => work'[t].h \in raced'
  BY <1>0, NoWorkOK, RacedPairs
<1>4. \A t \in Sessions :
        Swaps(work'[t]) /\ work'[t].job = "delete" /\ work'[t].h \notin raced'
          => bots'[work'[t].h] = None
  BY <1>0, <1>1, NoWorkOK DEF TokenInv
<1>5. \A t \in Sessions, h \in Households :
        Announces(t, h)' /\ bots'[h] # None => apps'[bots'[h]].token = work'[t].token
  BY <1>0, <1>1, <1>2 DEF TokenInv
<1>6. \A h \in Households \ (raced' \cup stray') : bots'[h] # None =>
        \/ h \in alive' /\ apps'[bots'[h]].token = TokenOf(h)'
        \/ \E t \in Sessions : Announces(t, h)'
  <2> SUFFICES ASSUME NEW h \in Households \ (raced \cup stray'), bots[h] # None
               PROVE  \/ h \in alive /\ apps[bots[h]].token = TokenOf(h)
                      \/ \E t \in Sessions : Announces(t, h)'
    BY <1>0 DEF TokenOf
  <2>1. \/ h \in alive /\ apps[bots[h]].token = TokenOf(h)
        \/ \E t \in Sessions : Announces(t, h)
    BY <1>0 DEF TokenInv
  <2>2. ~Announces(s, h)
    BY <1>0 DEF Announces
  <2> QED
    BY <1>2, <2>1, <2>2
<1> QED
  BY <1>3, <1>4, <1>5, <1>6 DEF TokenInv

LEMMA TokenStep == TypeInv /\ LockInv /\ PollerInv /\ TokenInv /\ [Next]_vars => TokenInv'
<1> SUFFICES ASSUME TypeInv, LockInv, PollerInv, TokenInv, [Next]_vars
             PROVE  TokenInv'
  OBVIOUS
<1>1. ASSUME NEW s \in Sessions, Step(s)
      PROVE  TokenInv'
  <2>1. CASE Pop(s)
    <3>1. /\ Moves(s) /\ SameJob(s) /\ work[s].h \in Households /\ work[s].pc = "pop"
          /\ work[s].job \in {"token", "delete", "boot"}
          /\ work'[s].pc \in {"stop", work[s].job}
          /\ bots' = [bots EXCEPT ![work[s].h] = None]
          /\ UNCHANGED <<apps, alive, token, raced, stray>>
      BY <2>1, PopFacts DEF rows, history
    <3>2. bots'[work[s].h] = None /\ \A h \in Households : bots'[h] # None => bots'[h] = bots[h]
      BY <3>1, TypeFacts
    <3> QED
      BY <3>1, <3>2, QuietTokens DEF TokenQuiet, AtCommit, SameJob
  <2>2. CASE Stop(s)
    <3>1. /\ Moves(s) /\ SameJob(s) /\ work[s].h \in Households /\ work[s].pc = "stop"
          /\ work[s].job \in {"token", "delete", "boot"} /\ work[s].app \in Apps
          /\ work'[s].pc = work[s].job
          /\ apps' = [apps EXCEPT ![work[s].app] = None]
          /\ UNCHANGED <<bots, alive, token, raced, stray>>
      BY <2>2, StopFacts DEF rows, history
    <3>2. \A h \in Households : bots[h] # None => apps'[bots[h]] = apps[bots[h]]
      <4>1. \A h \in Households : bots[h] # work[s].app
        BY <3>1, TypeFacts, BotsAssumption DEF TypeInv, AppInv
      <4> QED
        BY <3>1, <4>1, TypeFacts
    <3>3. work[s].job = "delete" => Swaps(work[s])
      BY <3>1 DEF Swaps
    <3> QED
      BY <3>1, <3>2, <3>3, QuietTokens DEF TokenQuiet, AtCommit, SameJob
  <2>3. CASE Create(s)
    <3>1. /\ Moves(s) /\ SameJob(s) /\ work[s].h \in Households /\ work[s].pc = work[s].job
          /\ work[s].job \in {"token", "boot"} /\ work'[s].pc = "register"
          /\ UNCHANGED <<bots, alive, token, raced, stray>>
      BY <2>3, CreateFacts DEF rows, history
    <3>2. PICK a \in Apps : apps[a] = None
                /\ apps' = [apps EXCEPT ![a] = [h |-> work[s].h, token |-> work[s].token]]
      BY <2>3, CreateFacts
    <3>3. \A h \in Households : bots[h] # None => apps'[bots[h]] = apps[bots[h]]
      BY <3>1, <3>2, TypeFacts
    <3> QED
      BY <3>1, <3>3, QuietTokens DEF TokenQuiet, AtCommit, SameJob
  <2>4. CASE Raise(s) /\ ~AtCommit(s)
    <3>1. /\ Moves(s) /\ work'[s] = NoWork /\ UNCHANGED <<bots, apps, alive, token, raced>>
          /\ stray \subseteq stray'
      BY <2>4, RaiseFacts DEF rows, memory
    <3> QED
      BY <2>4, <3>1, NoWorkOK, QuietTokens DEF TokenQuiet, AtCommit
  <2>5. CASE StartFails(s) \/ Deadlocked(s)
    <3>1. Deadlocked(s) => Wants(s) # {}
      BY DEF Deadlocked, BlockedBy
    <3>2. work[s].pc \in {"token", "save", "delete", "write", "clear", "set"}
      BY <2>5, <3>1 DEF StartFails, At, Wants
    <3> QED
      BY <2>4, <2>5, <3>2 DEF StartFails, Deadlocked, AtCommit
  <2>10. CASE CommitFails(s)
    BY <2>4, <2>10, StrayTokens DEF CommitFails
  <2>6. CASE BootNext(s) \/ BootFails(s)
    <3>1. /\ Moves(s) /\ UNCHANGED <<bots, apps, alive, token, raced, stray>> /\ work[s].job = "boot"
          /\ work'[s].job \in {"none", "boot"}
      BY <2>6, BootNextFacts, BootFailsFacts, NoWorkOK DEF memory, rows, history
    <3> QED
      BY <3>1, QuietTokens DEF TokenQuiet, AtCommit
  <2>7. CASE SaveToken(s)
    <3>0. CASE Raise(s)
      BY <2>4, <2>7, <3>0 DEF SaveToken, At, AtCommit
    <3>1. CASE ~Raise(s)
      <4>1. /\ Moves(s) /\ SameJob(s) /\ UNCHANGED <<bots, apps, alive, token, raced, stray>>
            /\ work[s].job = "token" /\ work[s].pc = "save" /\ work'[s].pc = "pop"
        BY <2>7, <3>1, SaveFacts DEF memory, rows, history, SaveToken
      <4> QED
        BY <4>1, QuietTokens DEF TokenQuiet, AtCommit, SameJob
    <3> QED
      BY <3>0, <3>1
  <2>8. CASE DeleteRows(s)
    <3>0. CASE Raise(s)
      BY <2>4, <2>8, <3>0 DEF DeleteRows, At, AtCommit
    <3>1. CASE ~Raise(s)
      <4>1. /\ Moves(s) /\ SameJob(s) /\ UNCHANGED <<bots, apps, alive, token, raced, stray>>
            /\ work[s].job = "delete" /\ work[s].pc = "delete" /\ work'[s].pc = "commit"
        BY <2>8, <3>1, DeleteFacts DEF memory, rows, history
      <4>2. Swaps(work[s])
        BY <4>1 DEF Swaps
      <4> QED
        BY <4>1, <4>2, QuietTokens DEF TokenQuiet, AtCommit, SameJob
    <3> QED
      BY <3>0, <3>1
  <2>9. CASE WriteUnlink(s) \/ FindLinked(s) \/ Clear(s) \/ SetChat(s)
    <3>0. CASE Raise(s)
      BY <2>4, <2>9, <3>0 DEF WriteUnlink, FindLinked, Clear, SetChat, At, AtCommit
    <3>1. CASE ~Raise(s)
      <4>1. /\ Moves(s) /\ SameJob(s) /\ UNCHANGED <<bots, apps, alive, token, raced, stray>>
            /\ work[s].job \in {"unlink", "start"}
        BY <2>9, <3>1, UnlinkFacts, FindFacts, ClearFacts, SetFacts DEF memory, rows, history
      <4> QED
        BY <4>1, QuietTokens DEF TokenQuiet, AtCommit, SameJob
    <3> QED
      BY <3>0, <3>1
  <2> QED
    BY <1>1, <2>1, <2>2, <2>3, <2>5, <2>6, <2>7, <2>8, <2>9, <2>10, RegisterTokens, CommitTokens
       DEF Step
<1>2. ASSUME NEW s \in Sessions, Starts(s)
      PROVE  TokenInv'
  <2>1. CASE Boot(s)
    <3>1. Moves(s) /\ work[s] = NoWork /\ work'[s].job = "boot"
          /\ UNCHANGED <<bots, apps, alive, token, raced, stray>>
      BY <2>1, BootFacts DEF memory, rows, history
    <3> QED
      BY <3>1, NoWorkOK, QuietTokens DEF TokenQuiet, AtCommit
  <2>2. ASSUME NEW h \in Households, NEW j \in {"token", "delete"}, Moves(s), work[s] = NoWork,
               work'[s].job = j, work'[s].h = h, work'[s].pc \in {"save", "pop"}, Races(s, h, j),
               UNCHANGED <<rows, memory, stray>>
        PROVE  TokenInv'
    <3>1. Raced(s) /\ raced \subseteq raced'
      BY <2>2 DEF Races, Raced, Moves
    <3> QED
      BY <2>2, <3>1, NoWorkOK, QuietTokens DEF TokenQuiet, AtCommit, Swaps, rows, memory
  <2>3. ASSUME NEW h \in Households,
               (\E t \in Tokens : PostToken(s, h, t)) \/ DeleteHousehold(s, h)
        PROVE  TokenInv'
    BY <2>2, <2>3, PostFacts, DeleteHouseholdFacts
  <2>4. ASSUME NEW h \in Households, Unlink(s, h)
        PROVE  TokenInv'
    BY <2>4, UnlinkRequestFacts, NoWorkOK, QuietTokens DEF TokenQuiet, AtCommit, rows, memory
  <2>5. ASSUME NEW a \in Apps, NEW c \in Chats, NEW k \in Codes, StartCommand(s, a, c, k)
        PROVE  TokenInv'
    BY <2>5, StartFacts, NoWorkOK, QuietTokens DEF TokenQuiet, AtCommit, rows, history
  <2> QED
    BY <1>2, <2>1, <2>3, <2>4, <2>5 DEF Starts
<1>3. CASE UNCHANGED <<work, bots, apps, token, raced, stray>> /\ alive \subseteq alive'
  BY <1>3 DEF TokenInv, Announces, TokenOf
<1>4. CASE Down
  BY <1>4, NoWorkOK DEF TokenInv, Swaps, Down
<1>5. ASSUME NEW h \in Households, Found(h)
      PROVE  TokenInv'
  BY <1>3, <1>5, FoundFacts
<1> QED
  BY <1>1, <1>2, <1>3, <1>4, <1>5 DEF Next, CreateLink, Expire, vars, memory, rows, history

\* The inductive invariant of the pollers.
BotsInv == TypeInv /\ LockInv /\ PollerInv /\ TokenInv

LEMMA BotsInit == Init => BotsInv
<1> SUFFICES ASSUME Init
             PROVE  BotsInv
  OBVIOUS
<1>1. \A s \in Sessions : work[s] = NoWork
  BY DEF Init
<1>2. TokenInv
  BY <1>1, NoWorkOK DEF Init, TokenInv, Swaps, Announces
<1> QED
  BY <1>2, InitType, LocksInit DEF BotsInv

LEMMA BotsStep == BotsInv /\ [Next]_vars => BotsInv'
BY TypeStep, LockStep, PollerStep, TokenStep DEF BotsInv

LEMMA PollersFollow == BotsInv => PollersFollowRows
<1> SUFFICES ASSUME BotsInv
             PROVE  PollersFollowRows
  OBVIOUS
<1>0. TypeInv /\ LockInv /\ PollerInv /\ TokenInv
  BY DEF BotsInv
<1>1. ASSUME NEW a \in Apps, apps[a] # None
      PROVE  \/ bots[apps[a].h] = a
             \/ \E s \in Changing(apps[a].h) : work[s].app = a
  <2>1. CASE \E s \in Sessions : work[s].app = a
    <3>1. PICK s \in Sessions : work[s].app = a
      BY <2>1
    <3>2. work[s].app # None
      BY <3>1, BotsAssumption
    <3>3. work[s].job \in {"token", "delete", "boot"}
      BY <1>0, <3>2, HasApp
    <3>4. apps[a].h = work[s].h
      BY <1>0, <3>1, <3>2 DEF TypeInv, AppInv
    <3> QED
      BY <3>1, <3>3, <3>4 DEF Changing
  <2> QED
    BY <1>0, <1>1, <2>1 DEF PollerInv
<1>2. ASSUME NEW h \in Households \ (raced \cup stray), bots[h] # None, Changing(h) = {}
      PROVE  h \in alive /\ apps[bots[h]].token = TokenOf(h)
  <2>1. \A s \in Sessions : ~Announces(s, h)
    BY <1>2 DEF Changing, Announces
  <2> QED
    BY <1>0, <1>2, <2>1 DEF TokenInv
<1> QED
  BY <1>1, <1>2 DEF PollersFollowRows

\* No poller is left over: each is the registered one of its household or in the hands of
\* the one session that stops or starts it, and polls with the token that is stored, but
\* for deletions that race a new token and new tokens whose commit fails.
THEOREM PollersStay == Spec => []PollersFollowRows
BY BotsInit, BotsStep, PollersFollow, PTL DEF Spec

-----------------------------------------------------------------------------
(* Every household with a token has a poller *)

\* s leaves the rows and the registry alone, and no household without its poller.
BotQuiet(s) ==
  /\ UNCHANGED <<alive, token, bots, phase>> /\ unstarted \subseteq unstarted'
  /\ ~AtCommit(s)'
  /\ Swaps(work[s]) /\ work[s].job # "boot" =>
       \/ Swaps(work'[s]) /\ work'[s].h = work[s].h
       \/ bots[work[s].h] # None \/ work[s].h \in unstarted'
  /\ work'[s].job = "boot" =>
       work[s].job = "boot" /\ work'[s].left = work[s].left /\ work'[s].h = work[s].h

LEMMA QuietBots ==
  ASSUME TypeInv, BotInv, NEW s \in Sessions, Moves(s), BotQuiet(s)
  PROVE  BotInv'
<1>1. \A t \in Sessions \ {s} : work'[t] = work[t]
  BY DEF Moves
<1>2. \A h : TokenOf(h)' = TokenOf(h)
  BY DEF BotQuiet, TokenOf
<1>3. \A t \in Sessions, h \in Households : Announces(t, h)' => Announces(t, h)
  BY <1>1 DEF Announces, BotQuiet, AtCommit
<1>4. ASSUME phase' = "up", NEW h \in alive' \ unstarted', bots'[h] = None,
             TokenOf(h)' # None \/ \E t \in Sessions : Announces(t, h)'
      PROVE  \E t \in Sessions : Swaps(work'[t]) /\ work'[t].h = h
  <2>0. h \in Households /\ h \in alive \ unstarted /\ phase = "up" /\ bots[h] = None
    BY <1>4, TypeFacts DEF BotQuiet
  <2>1. PICK t \in Sessions : Swaps(work[t]) /\ work[t].h = h
    BY <1>2, <1>3, <1>4, <2>0 DEF BotInv
  <2>2. work[t].job # "boot"
    BY <2>0 DEF TypeInv, PhaseInv
  <2>3. CASE t = s
    BY <1>4, <2>0, <2>1, <2>2, <2>3 DEF BotQuiet
  <2>4. CASE t # s
    BY <1>1, <2>1, <2>4
  <2> QED
    BY <2>3, <2>4
<1>5. ASSUME NEW t \in Sessions, work'[t].job = "boot", NEW h \in alive' \ unstarted', TokenOf(h)' # None
      PROVE  bots'[h] # None \/ h \in work'[t].left \/ h = work'[t].h
  <2>1. work[t].job = "boot" /\ work'[t].left = work[t].left /\ work'[t].h = work[t].h
    BY <1>1, <1>5 DEF BotQuiet
  <2>2. h \in alive \ unstarted /\ TokenOf(h) # None /\ bots' = bots
    BY <1>2, <1>5 DEF BotQuiet
  <2> QED
    BY <2>1, <2>2 DEF BotInv
<1> QED
  BY <1>4, <1>5 DEF BotInv

LEMMA RaiseBots ==
  ASSUME TypeInv, BotInv, NEW s \in Sessions, Raise(s)
  PROVE  BotInv'
<1>1. /\ Moves(s) /\ work'[s] = NoWork /\ UNCHANGED <<alive, token, bots, phase>>
      /\ unstarted' = IF work[s].job \in {"token", "delete"} /\ bots[work[s].h] = None
                   THEN unstarted \cup {work[s].h} ELSE unstarted
  BY RaiseFacts DEF rows, memory
<1> QED
  BY <1>1, NoWorkOK, QuietBots DEF BotQuiet, AtCommit, Swaps

LEMMA PopBots ==
  ASSUME TypeInv, BotInv, NEW s \in Sessions, Pop(s)
  PROVE  BotInv'
<1> DEFINE w == work[s]
           v == work'[s]
<1>0. /\ Moves(s) /\ v.h = w.h /\ w.h \in Households /\ v.job = w.job /\ v.left = w.left
      /\ w.pc = "pop" /\ w.job \in {"token", "delete", "boot"}
      /\ v.pc = w.job \/ v.pc = "stop"
      /\ bots' = [bots EXCEPT ![w.h] = None]
      /\ UNCHANGED <<alive, token, phase, unstarted>>
  BY PopFacts DEF SameJob, rows, history
<1>1. \A t \in Sessions \ {s} : work'[t] = work[t]
  BY <1>0 DEF Moves
<1>2. \A h \in Households \ {w.h} : bots'[h] = bots[h]
  BY <1>0, TypeFacts
<1>3. \A h : TokenOf(h)' = TokenOf(h)
  BY <1>0 DEF TokenOf
<1>4. \A t \in Sessions, h \in Households : Announces(t, h)' => Announces(t, h)
  BY <1>0, <1>1 DEF Announces
<1>5. Swaps(v) /\ v.h = w.h
  BY <1>0, BotsAssumption DEF Swaps
<1>6. ASSUME phase' = "up", NEW h \in alive' \ unstarted', bots'[h] = None,
             TokenOf(h)' # None \/ \E t \in Sessions : Announces(t, h)'
      PROVE  \E t \in Sessions : Swaps(work'[t]) /\ work'[t].h = h
  <2>1. CASE h = w.h
    BY <1>5, <2>1
  <2>2. CASE h # w.h
    <3>1. h \in Households /\ h \in alive \ unstarted /\ phase = "up" /\ bots[h] = None
      BY <1>0, <1>2, <1>6, <2>2, TypeFacts
    <3>2. PICK t \in Sessions : Swaps(work[t]) /\ work[t].h = h
      BY <1>3, <1>4, <1>6, <3>1 DEF BotInv
    <3> QED
      BY <1>1, <2>2, <3>2
  <2> QED
    BY <2>1, <2>2
<1>7. ASSUME NEW t \in Sessions, work'[t].job = "boot", NEW h \in alive' \ unstarted', TokenOf(h)' # None
      PROVE  bots'[h] # None \/ h \in work'[t].left \/ h = work'[t].h
  <2>1. work[t].job = "boot" /\ work'[t].left = work[t].left /\ work'[t].h = work[t].h
    BY <1>0, <1>1, <1>7
  <2>2. h \in Households /\ (bots[h] # None \/ h \in work[t].left \/ h = work[t].h)
    BY <1>0, <1>3, <1>7, <2>1, TypeFacts DEF BotInv
  <2>3. CASE h = w.h
    <3>1. w.job = "boot"
      BY <1>0, <2>1 DEF TypeInv, PhaseInv
    <3>2. t = s
      BY <2>1, <3>1 DEF TypeInv, PhaseInv
    <3> QED
      BY <1>0, <2>3, <3>2
  <2>4. CASE h # w.h
    BY <1>2, <2>1, <2>2, <2>4
  <2> QED
    BY <2>3, <2>4
<1> QED
  BY <1>6, <1>7 DEF BotInv

LEMMA RegisterBots ==
  ASSUME TypeInv, BotInv, NEW s \in Sessions, Register(s)
  PROVE  BotInv'
<1> DEFINE w == work[s]
           v == work'[s]
<1>0. /\ Moves(s) /\ w.h \in Households /\ w.app \in Apps
      /\ v.job = w.job /\ w.pc = "register" /\ w.job \in {"token", "boot"} /\ v.left = w.left
      /\ w.job = "token" => v.h = w.h
      /\ bots' = [bots EXCEPT ![w.h] = w.app]
      /\ unstarted' = unstarted \ {w.h} /\ stray' = stray \ {w.h}
      /\ phase' = phase /\ alive' = alive /\ token' = token
  BY RegisterFacts DEF rows
<1>1. \A t \in Sessions \ {s} : work'[t] = work[t]
  BY <1>0 DEF Moves
<1>2. bots'[w.h] # None /\ \A h \in Households \ {w.h} : bots'[h] = bots[h]
  BY <1>0, TypeFacts, BotsAssumption
<1>3. \A h : TokenOf(h)' = TokenOf(h)
  BY <1>0 DEF TokenOf
<1>4. \A t \in Sessions, h \in Households : Announces(t, h)' => Announces(t, h) \/ h = w.h
  BY <1>0, <1>1 DEF Announces
<1>6. ASSUME phase' = "up", NEW h \in alive' \ unstarted', bots'[h] = None,
             TokenOf(h)' # None \/ \E t \in Sessions : Announces(t, h)'
      PROVE  \E t \in Sessions : Swaps(work'[t]) /\ work'[t].h = h
  <2>1. h # w.h /\ h \in Households
    BY <1>0, <1>2, <1>6, TypeFacts
  <2>2. h \in alive \ unstarted /\ phase = "up" /\ bots[h] = None
    BY <1>0, <1>2, <1>6, <2>1
  <2>3. PICK t \in Sessions : Swaps(work[t]) /\ work[t].h = h
    BY <1>3, <1>4, <1>6, <2>1, <2>2 DEF BotInv
  <2> QED
    BY <1>1, <2>1, <2>3
<1>7. ASSUME NEW t \in Sessions, work'[t].job = "boot", NEW h \in alive' \ unstarted', TokenOf(h)' # None
      PROVE  bots'[h] # None \/ h \in work'[t].left \/ h = work'[t].h
  <2>1. CASE h = w.h
    BY <1>2, <2>1
  <2>2. CASE h # w.h
    <3>1. work[t].job = "boot" /\ work'[t].left = work[t].left /\ h \in Households
      BY <1>0, <1>1, <1>7, TypeFacts
    <3>2. bots[h] # None \/ h \in work[t].left \/ h = work[t].h
      BY <1>0, <1>3, <1>7, <2>2, <3>1 DEF BotInv
    <3> QED
      BY <1>1, <1>2, <2>2, <3>1, <3>2
  <2> QED
    BY <2>1, <2>2
<1> QED
  BY <1>6, <1>7 DEF BotInv

LEMMA BootNextBots ==
  ASSUME TypeInv, BotInv, NEW s \in Sessions, BootNext(s)
  PROVE  BotInv'
<1>0. /\ Moves(s) /\ UNCHANGED <<alive, token, bots, unstarted>>
      /\ work[s].job = "boot" /\ work[s].h = None
  BY BootNextFacts DEF rows, memory, history
<1>1. /\ \A t \in Sessions \ {s} : work'[t] = work[t]
      /\ phase = "boot" /\ \A t \in Sessions \ {s} : work[t].job \in {"none", "start"}
  <2>1. phase = "boot" /\ \A t \in Sessions \ {s} : work[t].job \notin {"boot", "token", "delete", "unlink"}
    BY <1>0 DEF TypeInv, PhaseInv
  <2> QED
    BY <1>0, <2>1, WorkType DEF Moves, Session
<1>2. \A h : TokenOf(h)' = TokenOf(h)
  BY <1>0 DEF TokenOf
<1>3. \A h \in alive \ unstarted : TokenOf(h) # None => bots[h] # None \/ h \in work[s].left
  BY <1>0, TypeFacts, BotsAssumption DEF BotInv
<1>4. CASE work[s].left = {} /\ phase' = "up" /\ work'[s] = NoWork
  <2>1. \A t \in Sessions, h \in Households : ~Announces(t, h)'
    BY <1>1, <1>4, NoWorkOK DEF Announces
  <2>2. \A h \in alive' \ unstarted' :
          TokenOf(h)' # None \/ (\E t \in Sessions : Announces(t, h)') => bots'[h] # None
    BY <1>0, <1>2, <1>3, <1>4, <2>1, TypeFacts
  <2>3. \A t \in Sessions : work'[t].job # "boot"
    BY <1>1, <1>4, NoWorkOK
  <2> QED
    BY <2>2, <2>3 DEF BotInv
<1>5. CASE phase' = phase /\ work'[s].job = "boot"
  <2>1. PICK h \in work[s].left : work'[s].h = h /\ work'[s].left = work[s].left \ {h}
    BY <1>5, BootNextFacts, NoWorkOK
  <2>2. \A t \in Sessions : work'[t].job = "boot" => t = s
    BY <1>1
  <2>3. \A g \in alive' \ unstarted' : TokenOf(g)' # None =>
          bots'[g] # None \/ g \in work'[s].left \/ g = work'[s].h
    BY <1>0, <1>2, <1>3, <2>1
  <2> QED
    BY <1>1, <1>5, <2>2, <2>3 DEF BotInv
<1> QED
  BY <1>4, <1>5, BootNextFacts

LEMMA CommitBots ==
  ASSUME TypeInv, BotInv, NEW s \in Sessions, Commit(s)
  PROVE  BotInv'
<1> DEFINE w == work[s]
<1>0. /\ work'[s] = NoWork /\ \A t \in Sessions \ {s} : SameFields(t)
      /\ w.pc = "commit" /\ w.job \in {"token", "delete", "unlink", "start"}
      /\ w.h \in Households /\ UNCHANGED <<bots, phase, unstarted>>
  BY CommitFacts DEF memory, history
<1>1. \A t \in Sessions \ {s} :
        /\ work'[t].job = work[t].job /\ work'[t].h = work[t].h /\ work'[t].left = work[t].left
        /\ Swaps(work'[t]) <=> Swaps(work[t])
  BY <1>0 DEF SameFields, Swaps
<1>2. \A t \in Sessions, h \in Households : Announces(t, h)' => t # s /\ Announces(t, h)
  BY <1>0, NoWorkOK DEF Announces, SameFields
<1>3. alive' = IF w.drops THEN alive \ {w.h} ELSE alive
  BY CommitRows
<1>4. w.drops <=> w.job = "delete"
  BY <1>0, WorkType DEF PlaceOK, TokenOK, DeleteOK, UnlinkOK, StartOK
<1>5. w.saved <=> w.job = "token"
  BY <1>0, WorkType DEF PlaceOK, TokenOK, DeleteOK, UnlinkOK, StartOK
<1>6. \A h \in Households : h # w.h \/ w.job \in {"unlink", "start"} => token'[h] = token[h]
  BY <1>0, <1>4, <1>5, CommitRows
<1>7. \A h \in Households : (h # w.h \/ w.job \in {"unlink", "start"}) /\ TokenOf(h)' # None => TokenOf(h) # None
  BY <1>6 DEF TokenOf
<1>8. ASSUME phase' = "up", NEW h \in alive' \ unstarted', bots'[h] = None,
             TokenOf(h)' # None \/ \E t \in Sessions : Announces(t, h)'
      PROVE  \E t \in Sessions : Swaps(work'[t]) /\ work'[t].h = h
  <2>1. h \in alive \ unstarted /\ h \in Households /\ bots[h] = None /\ phase = "up"
    BY <1>0, <1>3, <1>8, TypeFacts
  <2>2. w.job = "token" /\ h = w.h => Announces(s, h)
    BY <1>0 DEF Announces
  <2>3. ~(w.job = "delete" /\ h = w.h)
    BY <1>3, <1>4, <1>8
  <2>4. TokenOf(h) # None \/ \E t \in Sessions : Announces(t, h)
    BY <1>0, <1>2, <1>7, <1>8, <2>1, <2>2, <2>3
  <2>5. PICK t \in Sessions : Swaps(work[t]) /\ work[t].h = h
    BY <2>1, <2>4 DEF BotInv
  <2>6. t # s
    BY <1>0, <2>3, <2>5 DEF Swaps
  <2> QED
    BY <1>1, <2>5, <2>6
<1>9. ASSUME NEW t \in Sessions, work'[t].job = "boot", NEW h \in alive' \ unstarted', TokenOf(h)' # None
      PROVE  bots'[h] # None \/ h \in work'[t].left \/ h = work'[t].h
  <2>1. t # s /\ work[t].job = "boot"
    BY <1>0, <1>1, <1>9, NoWorkOK
  <2>2. w.job = "start"
    BY <1>0, <2>1 DEF TypeInv, PhaseInv
  <2>3. h \in alive \ unstarted /\ TokenOf(h) # None
    BY <1>0, <1>3, <1>4, <1>7, <1>9, <2>2, TypeFacts
  <2> QED
    BY <1>0, <1>1, <2>1, <2>3 DEF BotInv
<1> QED
  BY <1>8, <1>9 DEF BotInv

LEMMA BotStep == TypeInv /\ BotInv /\ [Next]_vars => BotInv'
<1> SUFFICES ASSUME TypeInv, BotInv, [Next]_vars
             PROVE  BotInv'
  OBVIOUS
<1>1. ASSUME NEW s \in Sessions, Step(s)
      PROVE  BotInv'
  <2>1. CASE Stop(s)
    <3>1. /\ Moves(s) /\ SameJob(s) /\ work[s].h \in Households /\ work[s].pc = "stop"
          /\ work[s].job \in {"token", "delete", "boot"} /\ work'[s].pc = work[s].job
          /\ UNCHANGED <<bots, alive, token, phase, unstarted>>
      BY <2>1, StopFacts DEF rows, history
    <3>2. Swaps(work'[s])
      BY <3>1, BotsAssumption DEF Swaps, SameJob
    <3> QED
      BY <3>1, <3>2, QuietBots DEF BotQuiet, AtCommit, SameJob
  <2>2. CASE Create(s)
    <3>1. /\ Moves(s) /\ SameJob(s) /\ work[s].h \in Households /\ work[s].pc = work[s].job
          /\ work[s].job \in {"token", "boot"} /\ work'[s].pc = "register"
          /\ UNCHANGED <<bots, alive, token, phase, unstarted>>
      BY <2>2, CreateFacts DEF rows, history
    <3>2. Swaps(work'[s])
      BY <3>1, BotsAssumption DEF Swaps, SameJob
    <3> QED
      BY <3>1, <3>2, QuietBots DEF BotQuiet, AtCommit, SameJob
  <2>3. CASE Raise(s)
    BY <2>3, RaiseBots
  <2>5. CASE BootFails(s)
    <3>1. /\ Moves(s) /\ UNCHANGED <<bots, alive, token, phase>> /\ work[s].job = "boot"
          /\ work'[s].job = "boot" /\ work'[s].left = work[s].left /\ work'[s].h = None
          /\ unstarted' = unstarted \cup {work[s].h}
      BY <2>5, BootFailsFacts DEF memory, rows
    <3>2. \A t \in Sessions \ {s} : work'[t] = work[t] /\ work[t].job # "boot"
      BY <3>1 DEF Moves, TypeInv, PhaseInv
    <3>3. phase' = "boot"
      BY <3>1 DEF TypeInv, PhaseInv
    <3>4. \A h \in alive' \ unstarted' : TokenOf(h)' # None => bots'[h] # None \/ h \in work'[s].left
      BY <3>1 DEF BotInv, TokenOf
    <3> QED
      BY <3>1, <3>2, <3>3, <3>4 DEF BotInv
  <2>6. CASE SaveToken(s)
    <3>0. CASE Raise(s)
      BY <2>3, <3>0
    <3>1. CASE ~Raise(s)
      <4>1. /\ Moves(s) /\ SameJob(s) /\ UNCHANGED <<bots, alive, token, phase, unstarted>>
            /\ work[s].job = "token" /\ work[s].pc = "save" /\ work'[s].pc = "pop"
        BY <2>6, <3>1, SaveFacts DEF memory, rows, history, SaveToken
      <4> QED
        BY <4>1, QuietBots DEF BotQuiet, AtCommit, SameJob, Swaps
    <3> QED
      BY <3>0, <3>1
  <2>7. CASE DeleteRows(s)
    <3>0. CASE Raise(s)
      BY <2>3, <3>0
    <3>1. CASE ~Raise(s)
      <4>1. /\ Moves(s) /\ SameJob(s) /\ UNCHANGED <<bots, alive, token, phase, unstarted>>
            /\ work[s].job = "delete" /\ work[s].pc = "delete" /\ work'[s].pc = "commit"
        BY <2>7, <3>1, DeleteFacts DEF memory, rows, history
      <4>2. Swaps(work'[s])
        BY <4>1 DEF Swaps, SameJob
      <4> QED
        BY <4>1, <4>2, QuietBots DEF BotQuiet, AtCommit, SameJob
    <3> QED
      BY <3>0, <3>1
  <2>8. CASE WriteUnlink(s) \/ FindLinked(s) \/ Clear(s) \/ SetChat(s)
    <3>0. CASE Raise(s)
      BY <2>3, <3>0
    <3>1. CASE ~Raise(s)
      <4>1. /\ Moves(s) /\ SameJob(s) /\ UNCHANGED <<bots, alive, token, phase, unstarted>>
            /\ work[s].job \in {"unlink", "start"}
        BY <2>8, <3>1, UnlinkFacts, FindFacts, ClearFacts, SetFacts DEF memory, rows, history
      <4> QED
        BY <4>1, QuietBots DEF BotQuiet, AtCommit, SameJob, Swaps
    <3> QED
      BY <3>0, <3>1
  <2> QED
    BY <1>1, <2>1, <2>2, <2>3, <2>5, <2>6, <2>7, <2>8, PopBots, RegisterBots, BootNextBots,
       CommitBots DEF Step, StartFails, CommitFails, Deadlocked
<1>2. ASSUME NEW s \in Sessions, Starts(s)
      PROVE  BotInv'
  <2>1. CASE Boot(s)
    <3>1. /\ Moves(s) /\ work'[s].job = "boot" /\ phase = "down" /\ phase' = "boot"
          /\ work'[s].left = {h \in alive : TokenOf(h) # None}
          /\ UNCHANGED <<bots, alive, token, unstarted>>
      BY <2>1, BootFacts DEF memory, rows, history
    <3>2. \A t \in Sessions \ {s} : work'[t].job # "boot"
      BY <3>1 DEF Moves, TypeInv, PhaseInv
    <3>3. \A h \in alive' \ unstarted' : TokenOf(h)' # None => h \in work'[s].left
      BY <3>1 DEF TokenOf
    <3> QED
      BY <3>1, <3>2, <3>3 DEF BotInv
  <2>2. ASSUME NEW h \in Households,
               (\E t \in Tokens : PostToken(s, h, t)) \/ DeleteHousehold(s, h) \/ Unlink(s, h)
        PROVE  BotInv'
    <3>1. /\ Moves(s) /\ work[s] = NoWork /\ UNCHANGED <<bots, alive, token, phase, unstarted>>
          /\ work'[s].job # "boot" /\ work'[s].pc # "commit"
      BY <2>2, PostFacts, DeleteHouseholdFacts, UnlinkRequestFacts DEF memory, rows
    <3> QED
      BY <3>1, NoWorkOK, QuietBots DEF BotQuiet, AtCommit, Swaps
  <2>3. ASSUME NEW a \in Apps, NEW c \in Chats, NEW k \in Codes, StartCommand(s, a, c, k)
        PROVE  BotInv'
    BY <2>3, StartFacts, NoWorkOK, QuietBots DEF BotQuiet, AtCommit, Swaps, rows, history
  <2> QED
    BY <1>2, <2>1, <2>2, <2>3 DEF Starts
<1>3. CASE UNCHANGED <<work, bots, alive, token, phase, unstarted>>
  BY <1>3 DEF BotInv, Announces, TokenOf
<1>4. CASE Down
  BY <1>4, NoWorkOK DEF BotInv, Down
<1>5. ASSUME NEW h \in Households, Found(h)
      PROVE  BotInv'
  <2>1. /\ \A g \in alive' \ unstarted' : g \in alive \ unstarted
        /\ \A t \in Sessions : work[t].job # "boot"
        /\ \A g : TokenOf(g)' = TokenOf(g)
        /\ UNCHANGED <<work, bots, phase>>
    BY <1>5, FoundFacts
  <2> QED
    BY <2>1 DEF BotInv, Announces
<1> QED
  BY <1>1, <1>2, <1>3, <1>4, <1>5 DEF Next, CreateLink, Expire, vars, memory, rows, history

\* While the app is up, a household with a token has a poller, unless a start failed, a
\* deletion that was rolled back has stopped it, or the household was founded since the app
\* started: also while others start and stop theirs.
THEOREM EveryBotStays == Spec => []EveryBotPolls
<1>1. Init => BotInv
  BY NoWorkOK DEF Init, BotInv
<1>2. BotsInv /\ BotInv => EveryBotPolls
  <2> SUFFICES ASSUME BotsInv, BotInv, phase = "up",
                      NEW h \in alive \ unstarted, TokenOf(h) # None, Changing(h) = {}
               PROVE  bots[h] # None
    BY DEF EveryBotPolls
  <2> SUFFICES ASSUME bots[h] = None
               PROVE  FALSE
    OBVIOUS
  <2>1. PICK s \in Sessions : Swaps(work[s]) /\ work[s].h = h
    BY DEF BotInv
  <2> QED
    BY <2>1 DEF Swaps, Changing
<1>3. BotsInv /\ BotInv /\ [Next]_vars => BotInv'
  BY BotStep DEF BotsInv
<1> QED
  BY <1>1, <1>2, <1>3, BotsInit, BotsStep, PTL DEF Spec

-----------------------------------------------------------------------------
(* Chats *)

\* Only a commit writes rows and touches other sessions.
LEMMA StepMoves ==
  ASSUME TypeInv, NEW s \in Sessions, Step(s) \/ Starts(s), ~Commit(s)
  PROVE  Moves(s) /\ UNCHANGED <<alive, token, chat>>
<1>1. CASE Raise(s)
  BY <1>1, RaiseFacts DEF rows
<1>2. CASE Starts(s)
  BY <1>2, BootFacts, PostFacts, DeleteHouseholdFacts, UnlinkRequestFacts, StartFacts DEF Starts, rows
<1>3. CASE Pop(s) \/ Stop(s) \/ Create(s) \/ Register(s) \/ BootNext(s) \/ BootFails(s)
  BY <1>3, PopFacts, StopFacts, CreateFacts, RegisterFacts, BootNextFacts, BootFailsFacts DEF rows
<1>4. CASE SaveToken(s)
  BY <1>1, <1>4, SaveFacts DEF SaveToken, rows
<1>5. CASE ~Raise(s) /\ (DeleteRows(s) \/ WriteUnlink(s) \/ FindLinked(s) \/ Clear(s) \/ SetChat(s))
  BY <1>5, DeleteFacts, UnlinkFacts, FindFacts, ClearFacts, SetFacts DEF rows
<1> QED
  BY <1>1, <1>2, <1>3, <1>4, <1>5 DEF Step, StartFails, CommitFails, Deadlocked

\* What a session has flushed has one chat per household, at most one of them a new one.
LEMMA PutShape ==
  ASSUME TypeInv, NEW s \in Sessions
  PROVE  /\ \A p \in work[s].put :
              /\ p[1] \in Households /\ p[2] \in Chats \cup {None} /\ p = <<p[1], p[2]>>
              /\ work[s].job \in {"unlink", "start"} /\ ~work[s].drops
              /\ p[2] # None => p = <<work[s].h, work[s].chat>> /\ p \notin Cleared(work[s])
         /\ \A p, q \in work[s].put : p[1] = q[1] => p = q
<1> DEFINE w == work[s]
<1>1. PlaceOK(w) /\ w \in Session
  BY WorkType
<1>2. w.put \subseteq Households \X (Chats \cup {None})
  BY <1>1 DEF Session
<1> HIDE DEF w
<1>3. \A p \in w.put : p[1] \in Households /\ p[2] \in Chats \cup {None} /\ p = <<p[1], p[2]>>
  BY <1>2
<1>4. ASSUME w.put # {}
      PROVE  w.job \in {"unlink", "start"} /\ ~w.drops
  <2>1. w.job \notin {"none", "token", "delete", "boot"}
    BY <1>1, <1>4, NoWorkOK DEF PlaceOK, TokenOK, DeleteOK, BootOK
  <2> QED
    BY <1>1, <2>1 DEF PlaceOK, UnlinkOK, StartOK, Session
<1>5. w.put \subseteq {<<w.h, None>>} \/ w.put \subseteq Cleared(w) \cup Linked(w)
  BY <1>1, <1>4 DEF PlaceOK, UnlinkOK, StartOK
<1>6. \A p \in Cleared(w) : p[2] = None /\ p[1] = w.found /\ p[1] # w.h
  BY DEF Cleared
<1>7. \A p \in Linked(w) : p = <<w.h, w.chat>>
  BY DEF Linked
<1>8. \A p \in w.put : p[2] # None => p = <<w.h, w.chat>> /\ p \notin Cleared(w)
  BY <1>5, <1>6, <1>7
<1>9. \A p, q \in w.put : p[1] = q[1] => p = q
  BY <1>3, <1>5, <1>6, <1>7
<1> QED
  BY <1>3, <1>4, <1>8, <1>9 DEF w

LEMMA CommitChat ==
  ASSUME TypeInv, NEW s \in Sessions, Commit(s)
  PROVE  /\ \A p \in work[s].put : chat'[p[1]] = p[2]
         /\ \A h \in Households :
              (\A p \in work[s].put : p[1] # h) =>
                chat'[h] = IF work[s].drops /\ h = work[s].h THEN None ELSE chat[h]
<1> DEFINE w == work[s]
           new(h) == {p[2] : p \in {q \in w.put : q[1] = h}}
<1>1. \A h \in Households :
        chat'[h] = IF w.drops /\ h = w.h THEN None
                   ELSE IF new(h) # {} THEN CHOOSE c \in new(h) : TRUE ELSE chat[h]
  BY CommitRows
<1>2. ASSUME NEW p \in w.put
      PROVE  chat'[p[1]] = p[2]
  <2>1. p[1] \in Households /\ ~w.drops
    BY <1>2, PutShape
  <2>2. new(p[1]) = {p[2]}
    <3>1. \A q \in w.put : q[1] = p[1] => q = p
      BY <1>2, PutShape
    <3> QED
      BY <1>2, <3>1
  <2>3. chat'[p[1]] = CHOOSE c \in new(p[1]) : TRUE
    BY <1>1, <2>1, <2>2
  <2> QED
    BY <2>2, <2>3
<1>3. ASSUME NEW h \in Households, \A p \in w.put : p[1] # h
      PROVE  chat'[h] = IF w.drops /\ h = w.h THEN None ELSE chat[h]
  <2>1. new(h) = {}
    BY <1>3
  <2> QED
    BY <1>1, <2>1
<1> QED
  BY <1>2, <1>3

LEMMA CommitChats ==
  ASSUME TypeInv, LockInv, ChatInv, NEW s \in Sessions, Commit(s)
  PROVE  ChatInv'
<1> DEFINE w == work[s]
           P == w.put
<1>1. /\ \A p \in P : chat'[p[1]] = p[2]
      /\ \A h \in Households : (\A p \in P : p[1] # h) =>
           chat'[h] = IF w.drops /\ h = w.h THEN None ELSE chat[h]
  BY CommitChat
<1>2. /\ \A p \in P : /\ p[1] \in Households /\ p[2] \in Chats \cup {None} /\ p = <<p[1], p[2]>>
                      /\ ~w.drops
                      /\ p[2] # None => p = <<w.h, w.chat>>
  BY PutShape
<1>3. \A p \in P : p[2] # None =>
        p[1] \in alive /\ \A g \in Households \ {p[1]} : chat[g] = p[2] => <<g, None>> \in P
  BY DEF ChatInv
<1>4. alive' = IF w.drops THEN alive \ {w.h} ELSE alive
  BY CommitRows
<1>5. /\ work'[s] = NoWork
      /\ \A t \in Sessions \ {s} : work'[t].put = work[t].put
  BY CommitFacts DEF SameFields
<1>6. /\ \A p \in P : p[1] \in Held(s) /\ (p[2] # None => p[2] \in Held(s))
      /\ w.drops => w.h \in Held(s)
      /\ \A t \in Sessions : \A p \in work[t].put :
           p[1] \in Held(t) /\ (p[2] # None => p[2] \in Held(t))
  BY DEF Held
<1>7. \A t \in Sessions \ {s} : Held(s) \cap Held(t) = {}
  BY DEF LockInv
<1>8. \A h \in Households :
        \/ \E p \in P : p[1] = h /\ chat'[h] = p[2]
        \/ (\A p \in P : p[1] # h) /\ chat'[h] \in {None, chat[h]}
  BY <1>1
<1> HIDE DEF w, P
<1>9. ASSUME NEW g \in Households, NEW h \in Households, g # h, chat'[g] # None, chat'[g] = chat'[h]
      PROVE  FALSE
  <2>1. \A x, y \in Households : x # y /\ chat[x] # None => chat[x] # chat[y]
    BY DEF ChatInv
  <2>2. ASSUME NEW x \in Households, NEW y \in Households, x # y, chat'[x] # None, chat'[x] = chat'[y],
               NEW p \in P, p[1] = x, chat'[x] = p[2]
        PROVE  FALSE
    <3>1. p = <<w.h, w.chat>> /\ p[2] # None
      BY <1>2, <2>2
    <3>2. CASE \E q \in P : q[1] = y /\ chat'[y] = q[2]
      BY <1>2, <2>2, <3>1, <3>2
    <3>3. CASE (\A q \in P : q[1] # y) /\ chat'[y] \in {None, chat[y]}
      <4>1. chat[y] = p[2] /\ y # p[1]
        BY <2>2, <3>3
      <4>2. <<y, None>> \in P
        BY <1>3, <3>1, <4>1
      <4> QED
        BY <3>3, <4>2
    <3> QED
      BY <1>8, <3>2, <3>3
  <2>3. CASE \E p \in P : p[1] = g /\ chat'[g] = p[2]
    BY <1>9, <2>2, <2>3
  <2>4. CASE \E p \in P : p[1] = h /\ chat'[h] = p[2]
    BY <1>9, <2>2, <2>4
  <2> QED
    BY <1>8, <1>9, <2>1, <2>3, <2>4
<1>10. ASSUME NEW h \in Households \ alive'
       PROVE  chat'[h] = None
  <2>1. CASE h \in alive
    <3>1. w.drops /\ h = w.h
      BY <1>4, <1>10, <2>1
    <3>2. \A p \in P : p[1] # h
      BY <1>2, <3>1
    <3> QED
      BY <1>1, <3>1, <3>2
  <2>2. CASE h \notin alive
    <3>1. chat[h] = None
      BY <2>2 DEF ChatInv
    <3> QED
      BY <1>3, <1>8, <2>2, <3>1
  <2> QED
    BY <2>1, <2>2
<1>11. ASSUME NEW t \in Sessions, NEW p \in work'[t].put, p[2] # None
       PROVE  /\ p[1] \in alive'
              /\ \A g \in Households \ {p[1]} : chat'[g] = p[2] => <<g, None>> \in work'[t].put
  <2>1. t # s /\ p \in work[t].put /\ work'[t].put = work[t].put
    BY <1>5, <1>11, NoWorkOK
  <2>2. p[1] \in alive /\ \A g \in Households \ {p[1]} : chat[g] = p[2] => <<g, None>> \in work[t].put
    BY <1>11, <2>1 DEF ChatInv
  <2>3. p[1] \in Held(t) /\ p[2] \in Held(t)
    BY <1>6, <1>11, <2>1
  <2>4. p[1] \in alive'
    BY <1>4, <1>6, <1>7, <2>1, <2>2, <2>3
  <2>5. ASSUME NEW g \in Households \ {p[1]}, chat'[g] = p[2]
        PROVE  <<g, None>> \in work[t].put
    <3>1. ~(\E q \in P : q[1] = g /\ chat'[g] = q[2])
      BY <1>6, <1>7, <1>11, <2>1, <2>3, <2>5
    <3>2. chat[g] = p[2]
      BY <1>8, <1>11, <2>5, <3>1
    <3> QED
      BY <2>2, <3>2
  <2> QED
    BY <2>1, <2>4, <2>5
<1> QED
  BY <1>9, <1>10, <1>11 DEF ChatInv

\* A session that is about to commit no new chat.
LEMMA NoNewChat ==
  ASSUME ChatInv, NEW s \in Sessions, Moves(s), UNCHANGED <<alive, chat>>,
         work'[s].put = work[s].put \/ \A p \in work'[s].put : p[2] = None
  PROVE  ChatInv'
<1>1. ASSUME NEW t \in Sessions, NEW p \in work'[t].put, p[2] # None
      PROVE  p \in work[t].put /\ work'[t].put = work[t].put
  BY <1>1 DEF Moves
<1> QED
  BY <1>1 DEF ChatInv

LEMMA SetChats ==
  ASSUME TypeInv, ChatInv, NEW s \in Sessions, SetChat(s), ~Raise(s)
  PROVE  ChatInv'
<1> DEFINE w == work[s]
<1>0. /\ Moves(s) /\ w.h \in Households /\ w.chat \in Chats /\ w.put = Cleared(w)
      /\ work'[s].put = w.put \cup Linked(w)
      /\ w.sees # w.chat =>
           w.h \in alive /\ \A g \in alive \ {w.h} : chat[g] = w.chat => <<g, None>> \in w.put
      /\ UNCHANGED <<alive, chat>>
  BY SetFacts DEF rows
<1>1. ASSUME NEW t \in Sessions, NEW p \in work'[t].put, p[2] # None
      PROVE  /\ p[1] \in alive'
             /\ \A g \in Households \ {p[1]} : chat'[g] = p[2] => <<g, None>> \in work'[t].put
  <2>1. CASE t # s \/ p \in w.put
    <3>1. p \in work[t].put /\ work[t].put \subseteq work'[t].put
      BY <1>0, <1>1, <2>1 DEF Moves
    <3> QED
      BY <1>0, <1>1, <3>1 DEF ChatInv
  <2>2. CASE t = s /\ p \in Linked(w)
    <3>1. p = <<w.h, w.chat>> /\ w.sees # w.chat
      BY <2>2 DEF Linked
    <3>2. p[1] = w.h /\ p[2] = w.chat
      BY <3>1
    <3>3. \A g \in Households \ alive : chat[g] = None
      BY DEF ChatInv
    <3>4. \A g \in Households \ {w.h} : chat[g] = w.chat => <<g, None>> \in w.put
      BY <1>0, <3>1, <3>3, BotsAssumption
    <3> QED
      BY <1>0, <2>2, <3>1, <3>2, <3>4
  <2> QED
    BY <1>0, <1>1, <2>1, <2>2
<1> QED
  BY <1>0, <1>1 DEF ChatInv

LEMMA ChatStep == TypeInv /\ LockInv /\ ChatInv /\ [Next]_vars => ChatInv'
<1> SUFFICES ASSUME TypeInv, LockInv, ChatInv, [Next]_vars
             PROVE  ChatInv'
  OBVIOUS
<1>1. ASSUME NEW s \in Sessions, Step(s) \/ Starts(s), ~Commit(s)
      PROVE  ChatInv'
  <2>1. Moves(s) /\ UNCHANGED <<alive, chat>>
    BY <1>1, StepMoves
  <2>2. CASE Raise(s)
    BY <2>1, <2>2, RaiseFacts, NoWorkOK, NoNewChat
  <2>3. CASE Starts(s)
    <3>1. work'[s].put = {}
      BY <2>3, BootFacts, PostFacts, DeleteHouseholdFacts, UnlinkRequestFacts, StartFacts DEF Starts
    <3> QED
      BY <2>1, <3>1, NoNewChat
  <2>4. CASE Pop(s) \/ Stop(s) \/ Create(s) \/ Register(s) \/ BootNext(s) \/ BootFails(s) \/ FindLinked(s)
    <3>1. work'[s].put = work[s].put \/ work'[s].put = {}
      BY <2>4, PopFacts, StopFacts, CreateFacts, RegisterFacts, BootNextFacts, BootFailsFacts,
         FindFacts, NoWorkOK DEF SameWrites
    <3> QED
      BY <2>1, <3>1, NoNewChat
  <2>5. CASE ~Raise(s) /\ (SaveToken(s) \/ DeleteRows(s))
    <3>1. work'[s].put = work[s].put
      BY <2>5, SaveFacts, DeleteFacts DEF SaveToken
    <3> QED
      BY <2>1, <3>1, NoNewChat
  <2>6. CASE ~Raise(s) /\ (WriteUnlink(s) \/ Clear(s))
    <3>1. work'[s].put \subseteq {<<work[s].h, None>>} \/ work'[s].put = Cleared(work[s])
      BY <2>6, UnlinkFacts, ClearFacts
    <3>2. \A p \in work'[s].put : p[2] = None
      BY <3>1 DEF Cleared
    <3> QED
      BY <2>1, <3>2, NoNewChat
  <2> QED
    BY <1>1, <2>2, <2>3, <2>4, <2>5, <2>6, SetChats DEF Step, StartFails, CommitFails, Deadlocked
<1>2. ASSUME NEW s \in Sessions, Commit(s)
      PROVE  ChatInv'
  BY <1>2, CommitChats
<1>3. CASE UNCHANGED <<work, chat>> /\ alive \subseteq alive'
  BY <1>3 DEF ChatInv
<1>4. CASE Down
  BY <1>4, NoWorkOK DEF ChatInv, Down, rows
<1>5. ASSUME NEW h \in Households, Found(h)
      PROVE  ChatInv'
  BY <1>3, <1>5, FoundFacts
<1> QED
  BY <1>1, <1>2, <1>3, <1>4, <1>5 DEF Next, CreateLink, Expire, vars, rows

LEMMA LinkStep == TypeInv /\ ChatInv /\ LinkInv /\ [Next]_vars => LinkInv'
<1> SUFFICES ASSUME TypeInv, ChatInv, LinkInv, [Next]_vars, NEW s \in Sessions,
                    work'[s].job = "start", work'[s].alone, work'[s].pc # "find"
             PROVE  LET w == work'[s]
                    IN  /\ w.found # None => w.found \in alive' /\ chat'[w.found] = w.chat
                        /\ w.found = None => \A g \in alive' : chat'[g] # w.chat
                        /\ w.pc \in {"set", "commit"} =>
                             w.h \in alive' /\ w.sees = IF w.found = w.h THEN w.chat ELSE chat'[w.h]
  BY DEF LinkInv
<1> DEFINE w == work[s]
           v == work'[s]
<1>0. LinkInv /\ w.job = "start" /\ w.alone /\ w.pc # "find" =>
        /\ w.found # None => w.found \in alive /\ chat[w.found] = w.chat
        /\ w.found = None => \A g \in alive : chat[g] # w.chat
        /\ w.pc \in {"set", "commit"} =>
             w.h \in alive /\ w.sees = IF w.found = w.h THEN w.chat ELSE chat[w.h]
  BY DEF LinkInv
<1>1. CASE UNCHANGED <<alive, chat>> /\ work'[s] = work[s]
  BY <1>0, <1>1
<1>2. ASSUME NEW t \in Sessions, Commit(t)
      PROVE  FALSE
  <2>1. CASE t = s
    BY <1>2, <2>1, CommitFacts, NoWorkOK
  <2>2. CASE t # s
    BY <1>2, <2>2, CommitFacts DEF SameFields
  <2> QED
    BY <2>1, <2>2
<1>3. ASSUME NEW t \in Sessions, Step(t) \/ Starts(t), t # s
      PROVE  UNCHANGED <<alive, chat>> /\ work'[s] = work[s]
  BY <1>2, <1>3, StepMoves DEF Moves
<1>4. CASE FindLinked(s)
  <2>1. /\ v.chat = w.chat /\ v.pc = "clear"
        /\ v.found # None => v.found \in alive /\ chat[v.found] = w.chat
        /\ v.found = None => \A g \in alive : chat[g] # w.chat
        /\ UNCHANGED <<alive, chat>>
    BY <1>4, FindFacts DEF SameJob, rows
  <2> QED
    BY <2>1
<1>5. CASE Clear(s) /\ ~Raise(s)
  <2>1. /\ v.chat = w.chat /\ v.found = w.found /\ v.h = w.h /\ w.job = "start" /\ w.alone
        /\ w.pc = "clear" /\ w.h \in alive
        /\ v.sees = IF w.found = w.h THEN w.chat ELSE chat[w.h]
        /\ UNCHANGED <<alive, chat>>
    BY <1>5, ClearFacts DEF SameJob, rows
  <2> QED
    BY <1>0, <2>1
<1>6. CASE SetChat(s) /\ ~Raise(s)
  <2>1. /\ v.chat = w.chat /\ v.found = w.found /\ v.h = w.h /\ w.job = "start" /\ w.alone
        /\ w.pc = "set" /\ v.sees = w.sees
        /\ UNCHANGED <<alive, chat>>
    BY <1>6, SetFacts DEF SameJob, SameReads, rows
  <2> QED
    BY <1>0, <2>1
<1>7. ~Raise(s)
  BY RaiseFacts, NoWorkOK
<1>8. ASSUME Pop(s) \/ Stop(s) \/ Create(s) \/ Register(s) \/ BootNext(s) \/ BootFails(s)
             \/ SaveToken(s) \/ DeleteRows(s) \/ WriteUnlink(s)
      PROVE  FALSE
  BY <1>7, <1>8, PopFacts, StopFacts, CreateFacts, RegisterFacts, BootNextFacts, BootFailsFacts,
     SaveFacts, DeleteFacts, UnlinkFacts, NoWorkOK DEF SameJob, SaveToken
<1>9. ~Starts(s)
  BY BootFacts, PostFacts, DeleteHouseholdFacts, UnlinkRequestFacts, StartFacts DEF Starts
<1>10. CASE UNCHANGED <<work, alive, chat>>
  BY <1>1, <1>10
<1>11. ~Down
  BY NoWorkOK DEF Down
<1>12. ASSUME NEW h \in Households, Found(h)
       PROVE  LinkInv'
  <2>1. work' = work /\ chat' = chat /\ alive' = alive \cup {h}
    BY <1>12, FoundFacts
  <2>2. h \in alive \/ chat[h] = None
    BY DEF ChatInv
  <2>3. \A t \in Sessions : work[t].job = "start" => work[t].chat # None
    BY WorkType, BotsAssumption DEF PlaceOK, StartOK
  <2> QED
    BY <2>1, <2>2, <2>3 DEF LinkInv
<1> QED
  BY <1>1, <1>2, <1>3, <1>4, <1>5, <1>6, <1>7, <1>8, <1>9, <1>10, <1>11, <1>12
     DEF Next, Step, StartFails, CommitFails, Deadlocked, CreateLink, Expire, vars, rows, LinkInv

\* The step that ends a link alone.
LEMMA LinkEnds ==
  ASSUME TypeInv, ChatInv, LinkInv, [Next]_vars, NEW s \in Sessions, work[s].job = "start",
         work[s].alone, work[s].h \in alive, work'[s] = NoWork, phase' # "down", MayFlush(s),
         ~CommitFails(s)
  PROVE  chat'[work[s].h] = work[s].chat
<1> DEFINE w == work[s]
<1>0. /\ w.h \in Households /\ w.chat \in Chats
      /\ w.pc = "set" => w.put = Cleared(w)
      /\ w.pc = "commit" => w.put = Cleared(w) \cup Linked(w)
  BY WorkType DEF PlaceOK, StartOK
<1>1. w.pc # "find" =>
        /\ w.found # None => w.found \in alive /\ chat[w.found] = w.chat
        /\ w.found = None => \A g \in alive : chat[g] # w.chat
        /\ w.pc \in {"set", "commit"} =>
             w.sees = IF w.found = w.h THEN w.chat ELSE chat[w.h]
  BY DEF LinkInv
<1>2. CASE Commit(s)
  <2>1. w.pc = "commit" /\ ~w.drops
    BY <1>2, CommitFacts, WorkType DEF PlaceOK, StartOK
  <2>2. CASE w.sees # w.chat
    <3>1. <<w.h, w.chat>> \in w.put
      BY <1>0, <2>1, <2>2 DEF Linked
    <3> QED
      BY <1>2, <3>1, CommitChat
  <2>3. CASE w.sees = w.chat
    <3>1. w.put = Cleared(w)
      BY <1>0, <2>1, <2>3 DEF Linked
    <3>2. \A p \in w.put : p[1] # w.h
      BY <3>1 DEF Cleared
    <3>3. chat'[w.h] = chat[w.h]
      BY <1>0, <1>2, <2>1, <3>2, CommitChat
    <3>4. chat[w.h] = w.chat
      BY <1>0, <1>1, <2>1, <2>3, BotsAssumption
    <3> QED
      BY <3>3, <3>4
  <2> QED
    BY <2>2, <2>3
<1>3. ASSUME NEW t \in Sessions, Step(t) \/ Starts(t), t # s
      PROVE  FALSE
  <2>1. Commit(t) => SameFields(s)
    BY <1>3, CommitFacts
  <2>2. work'[s].job = "start"
    BY <1>3, <2>1, StepMoves DEF Moves, SameFields
  <2> QED
    BY <2>2, NoWorkOK
<1>4. ~Deadlocked(s)
  BY DEF Deadlocked, MayFlush
<1>5. ~FindLinked(s)
  BY FindFacts, NoWorkOK DEF SameJob
<1>6. ASSUME Clear(s)
      PROVE  FALSE
  <2>1. w.found \in alive \cup {None}
    BY <1>1, <1>6 DEF Clear, At
  <2>2. \E c, P : Put(s, [w EXCEPT !.pc = "set", !.sees = c, !.put = P])
    BY <1>6, <2>1 DEF Clear
  <2>3. work'[s].pc = "set"
    <3>1. PICK c, P : Put(s, [w EXCEPT !.pc = "set", !.sees = c, !.put = P])
      BY <2>2
    <3>2. work'[s] = [w EXCEPT !.pc = "set", !.sees = c, !.put = P]
      BY <3>1, WorkType DEF Put
    <3>3. w \in Session
      BY WorkType
    <3> QED
      BY <3>2, <3>3 DEF Session
  <2> QED
    BY <2>3 DEF NoWork
<1>7. ASSUME SetChat(s)
      PROVE  FALSE
  <2>1. w.pc = "set"
    BY <1>7 DEF SetChat, At
  <2>2. ASSUME w.sees # w.chat, NEW g \in alive \ {w.h}, chat[g] = w.chat, <<g, None>> \notin w.put
        PROVE  FALSE
    <3>1. w.found # None /\ w.found \in alive /\ chat[w.found] = w.chat
      BY <1>1, <2>1, <2>2
    <3>2. g = w.found
      BY <1>0, <2>2, <3>1, TypeFacts, BotsAssumption DEF ChatInv
    <3>3. <<g, None>> \in Cleared(w)
      BY <2>2, <3>1, <3>2 DEF Cleared
    <3> QED
      BY <1>0, <2>1, <2>2, <3>3
  <2>3. ~(w.sees # w.chat /\ (w.h \notin alive \/ \E g \in alive \ {w.h} : chat[g] = w.chat /\ <<g, None>> \notin w.put))
    BY <2>2
  <2>4. \E P : Put(s, [w EXCEPT !.pc = "commit", !.put = P])
    BY <1>7, <2>3 DEF SetChat
  <2>5. work'[s].pc = "commit"
    BY <2>4, WorkType DEF Put, Session
  <2> QED
    BY <2>5 DEF NoWork
<1>8. ASSUME Pop(s) \/ Stop(s) \/ Create(s) \/ Register(s) \/ BootNext(s) \/ BootFails(s)
      PROVE  FALSE
  BY <1>8, PopFacts, StopFacts, CreateFacts, RegisterFacts, BootNextFacts, BootFailsFacts
<1>9. ASSUME SaveToken(s) \/ DeleteRows(s) \/ WriteUnlink(s) \/ StartFails(s)
      PROVE  FALSE
  BY <1>9, WorkType DEF SaveToken, DeleteRows, WriteUnlink, StartFails, At, PlaceOK, StartOK
<1>10. ~Starts(s)
  BY BootFacts, PostFacts, DeleteHouseholdFacts, UnlinkRequestFacts, StartFacts, NoWorkOK DEF Starts
<1>11. CASE UNCHANGED work
  BY <1>11, NoWorkOK
<1>12. ~Down
  BY DEF Down
<1> QED
  BY <1>2, <1>3, <1>4, <1>5, <1>6, <1>7, <1>8, <1>9, <1>10, <1>11, <1>12
     DEF Next, Step, Found, CreateLink, Expire, vars

\* A chat that sends a code is linked to the household of the code when nobody commits
\* beside it and its own commit does not fail, whichever household it was linked to before.
THEOREM LinkStays == Spec => CodeLinksTheChat
<1>1. Init => ChatInv /\ LinkInv
  BY NoWorkOK DEF Init, ChatInv, LinkInv
<1>2. BotsInv /\ ChatInv /\ [Next]_vars => ChatInv'
  BY ChatStep DEF BotsInv
<1>3. BotsInv /\ ChatInv /\ LinkInv /\ [Next]_vars => LinkInv'
  BY LinkStep DEF BotsInv
<1>4. BotsInv /\ ChatInv /\ LinkInv /\ [Next]_vars =>
        [\A s \in Sessions :
           /\ work[s].job = "start" /\ work[s].alone /\ work[s].h \in alive
           /\ work'[s] = NoWork /\ phase' # "down" /\ MayFlush(s) /\ ~CommitFails(s)
           => chat'[work[s].h] = work[s].chat]_vars
  BY LinkEnds DEF BotsInv
<1> QED
  BY <1>1, <1>2, <1>3, <1>4, BotsInit, BotsStep, PTL DEF Spec, CodeLinksTheChat

=============================================================================
