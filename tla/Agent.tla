-------------------------------- MODULE Agent --------------------------------
(***************************************************************************)
(* The chat with the language model: the loop of completions and tools     *)
(* (llm/agent.py, llm/openrouter.py), the transaction of each tool          *)
(* (execute_tool in llm/tools.py), and the requests that run it             *)
(* (llm/router.py, telegram_bot/handlers/chat.py).  What the tools do to    *)
(* bookings, banks and settings is in the modules of those; here a tool has *)
(* an effect or none.                                                       *)
(*                                                                         *)
(* The histories are lists in the memory of the process; a request keeps a *)
(* reference to the one it has read.                                       *)
(***************************************************************************)
EXTENDS Integers, Sequences

CONSTANTS
  Chats, Requests,  \* chats, and bound: requests at the same time
  Questions,
  Lists,            \* bound: list objects that exist at the same time
  MaxToolRounds,    \* MAX_TOOL_ROUNDS, 8
  MaxExchanges,     \* MAX_HISTORY, 16 messages
  MaxCalls,         \* bound: tool calls of one completion
  MaxAsked,         \* bound: questions asked
  None

ASSUME AgentAssumption ==
  /\ MaxToolRounds \in Nat \ {0} /\ MaxExchanges \in Nat \ {0}
  /\ MaxCalls \in Nat \ {0} /\ MaxAsked \in Nat
  /\ None \notin Lists

VARIABLES
  history, \* _history: the list of a chat, or None
  lists,   \* the messages in each list
  work,    \* the requests
  asked    \* questions so far

vars == <<history, lists, work, asked>>

MaxHistory == 2 * MaxExchanges

Idle == [ pc |-> "idle", chat |-> None, text |-> None,
          list     |-> None,  \* the history it has read
          round    |-> 0,     \* completions so far
          messages |-> <<>>,  \* what the model has said and the tools have answered
          todo     |-> <<>>,  \* the calls still to be made
          pending  |-> {},    \* the effects flushed in the open transaction
          db       |-> {} ]   \* those it has committed

Busy(r) == work[r].pc # "idle"
At(r, pc) == work[r].pc = pc

\* The i-th call of a completion.  It stands for its effect, too: a tool that only reads
\* is one whose effect nobody sees.
Call(r, i) == [round |-> work[r].round, i |-> i]

\* The list objects someone refers to.
Referred == {history[c] : c \in Chats} \cup {work[r].list : r \in Requests}

TypeOK ==
  /\ history \in [Chats -> Lists \cup {None}]
  /\ DOMAIN lists = Lists
  /\ \A l \in Lists :
       /\ lists[l] \in Seq([role : {"user", "assistant"}, text : Questions])
       /\ Len(lists[l]) <= MaxHistory
  /\ \A r \in Requests :
       LET w == work[r]
       IN  /\ DOMAIN w = DOMAIN Idle
           /\ w.pc \in {"idle", "complete", "tool", "commit", "reply"}
           /\ Busy(r) => w.list \in Lists /\ w.chat \in Chats /\ w.text \in Questions
           /\ w.round \in 0..MaxToolRounds
           /\ w.pc \in {"tool", "commit"} => w.todo # <<>>
  /\ asked \in 0..MaxAsked

Init ==
  /\ history = [c \in Chats |-> None]
  /\ lists = [l \in Lists |-> <<>>]
  /\ work = [r \in Requests |-> Idle]
  /\ asked = 0

-----------------------------------------------------------------------------
(* The loop: iter_agent_events *)

\* A question; _history is a defaultdict, which makes a missing list.
Ask(r, c, q) ==
  /\ ~Busy(r) /\ asked < MaxAsked /\ asked' = asked + 1
  /\ \E l \in Lists :
       /\ IF history[c] # None THEN l = history[c] /\ UNCHANGED lists
          ELSE l \notin Referred /\ lists' = [lists EXCEPT ![l] = <<>>]
       /\ history' = [history EXCEPT ![c] = l]
       /\ work' = [work EXCEPT ![r] = [Idle EXCEPT !.pc = "complete", !.chat = c,
                                         !.text = q, !.list = l]]

\* chat_completion: the model calls tools, or answers.
Complete(r) ==
  /\ At(r, "complete")
  /\ \E n \in 0..MaxCalls :
       LET calls == [i \in 1..n |-> Call(r, i)]
       IN  work' = [work EXCEPT
             ![r].messages = Append(@, [role |-> "assistant", calls |-> calls]),
             ![r].todo = calls, ![r].round = @ + 1,
             ![r].pc = IF calls = <<>> THEN "reply" ELSE "tool"]
  /\ UNCHANGED <<history, lists, asked>>

\* The request ends without an answer: the model fails, or the browser is gone.  The
\* open transaction is rolled back, what the tools have committed stays.
Fail(r) ==
  /\ Busy(r)
  /\ work' = [work EXCEPT ![r] = Idle]
  /\ UNCHANGED <<history, lists, asked>>

\* _execute has flushed what the tool writes.
Execute(r) ==
  /\ At(r, "tool")
  /\ work' = [work EXCEPT ![r].pc = "commit", ![r].pending = @ \cup {Head(work[r].todo)}]
  /\ UNCHANGED <<history, lists, asked>>

\* The result of the tool; after the last one the model has its turn, if a round is
\* left.
Result(w, ok) ==
  [w EXCEPT !.messages = Append(@, [role |-> "tool", call |-> Head(w.todo), ok |-> ok]),
            !.todo = Tail(@), !.pending = {},
            !.pc = IF Len(w.todo) > 1 THEN "tool"
                   ELSE IF w.round < MaxToolRounds THEN "complete" ELSE "reply"]

\* execute_tool commits ...
CommitTool(r) ==
  /\ At(r, "commit")
  /\ work' = [work EXCEPT ![r] = [Result(work[r], TRUE) EXCEPT !.db = @ \cup work[r].pending]]
  /\ UNCHANGED <<history, lists, asked>>

\* Fault: the error is answered without a rollback.
ToolRaisesOnly(r) ==
  /\ At(r, "tool") \/ At(r, "commit")
  /\ work' = [work EXCEPT ![r] = [Result(@, FALSE) EXCEPT !.pending = work[r].pending]]
  /\ UNCHANGED <<history, lists, asked>>

\* ... or the tool raises, before or after it has written, or its commit does: the
\* model is told of the error.
ToolRaises(r) ==
  /\ At(r, "tool") \/ At(r, "commit")
  /\ work' = [work EXCEPT ![r] = Result(@, FALSE)]
  /\ UNCHANGED <<history, lists, asked>>

\* Fault: one message of the history is kept too many.
RememberedOdd(list, q) ==
  LET longer == list \o <<[role |-> "user", text |-> q], [role |-> "assistant", text |-> q]>>
  IN  IF Len(longer) <= MaxHistory THEN longer
      ELSE SubSeq(longer, Len(longer) - MaxHistory, Len(longer))

\* The two messages of an exchange are added and the oldest dropped.  The answer is
\* told from others by its question.
Remembered(list, q) ==
  LET longer == list \o <<[role |-> "user", text |-> q], [role |-> "assistant", text |-> q]>>
  IN  IF Len(longer) <= MaxHistory THEN longer
      ELSE SubSeq(longer, Len(longer) - MaxHistory + 1, Len(longer))

\* The answer, also when the rounds are used up.
Reply(r) ==
  /\ At(r, "reply")
  /\ lists' = [lists EXCEPT ![work[r].list] = Remembered(@, work[r].text)]
  /\ work' = [work EXCEPT ![r] = Idle]
  /\ UNCHANGED <<history, asked>>

-----------------------------------------------------------------------------
(* Resets and restarts *)

\* Fault: the list is emptied where it is.
ClearHistoryInPlace(c) ==
  /\ history[c] # None
  /\ lists' = [lists EXCEPT ![history[c]] = <<>>]
  /\ UNCHANGED <<history, work, asked>>

\* clear_history takes the list out of _history.
ClearHistory(c) ==
  /\ history[c] # None
  /\ history' = [history EXCEPT ![c] = None]
  /\ UNCHANGED <<lists, work, asked>>

Restart ==
  /\ history' = [c \in Chats |-> None]
  /\ lists' = [l \in Lists |-> <<>>]
  /\ work' = [r \in Requests |-> Idle]
  /\ UNCHANGED asked

-----------------------------------------------------------------------------

Step(r) ==
  Complete(r) \/ Fail(r) \/ Execute(r) \/ CommitTool(r) \/ ToolRaises(r)
  \/ Reply(r)

Next ==
  \/ \E r \in Requests :
       Step(r) \/ \E c \in Chats, q \in Questions : Ask(r, c, q)
  \/ \E c \in Chats : ClearHistory(c)
  \/ Restart

Spec == Init /\ [][Next]_vars

-----------------------------------------------------------------------------
(* Properties *)

Turns(m) == {i \in DOMAIN m : m[i].role = "assistant"}

\* In messages m the n-th call of the i-th one has its result where the model expects it.
Answered(m, i, n) ==
  /\ i + n \in DOMAIN m
  /\ m[i + n].role = "tool" /\ m[i + n].call = m[i].calls[n]

\* When the model is asked again, every call it has made has one result, right after the
\* message that made the calls and in their order; there are no other results, and one
\* says that the tool worked exactly if its effects are in the database.
ResultsAreTrue ==
  \A r \in Requests :
    LET w == work[r]
        m == w.messages
    IN  /\ At(r, "complete") =>
             \A i \in Turns(m) : \A n \in DOMAIN m[i].calls : Answered(m, i, n)
        /\ \A j \in DOMAIN m \ Turns(m) :
             /\ \E i \in Turns(m) : j - i \in DOMAIN m[i].calls /\ Answered(m, i, j - i)
             /\ m[j].call \in w.db <=> m[j].ok

-----------------------------------------------------------------------------
(* Refinement *)

\* A chat has said what is in its list, two messages to an exchange, and waits for the
\* requests that hold that list.
Said(c) ==
  IF history[c] = None THEN <<>>
  ELSE LET l == lists[history[c]]
       IN  [i \in 1..(Len(l) \div 2) |-> <<l[2 * i - 1].text, l[2 * i].text>>]

Open(c) ==
  {[of |-> r, text |-> work[r].text] :
     r \in {p \in Requests : Busy(p) /\ work[p].list = history[c]}}

Promised == INSTANCE Conversation
  WITH said <- [c \in Chats |-> Said(c)], open <- [c \in Chats |-> Open(c)]

\* The chat keeps its promise: exchanges stay whole, are remembered in the order of the
\* answers, and what was asked before a reset does not come back.
KeepsItsPromise == Promised!Spec
=============================================================================
