----------------------------- MODULE Conversation -----------------------------
(***************************************************************************)
(* What the chat of llm/agent.py promises: each chat has the last exchanges *)
(* of a question and its answer, an answer follows its question, and what   *)
(* was asked before the chat was cleared does not come back.               *)
(***************************************************************************)
EXTENDS Integers, Sequences

CONSTANTS Chats, Requests, Questions,
  MaxExchanges  \* that a chat remembers

VARIABLES
  said,  \* the exchanges of each chat, <<question, what was answered>>
  open   \* the questions each chat waits for, [of, text]

\* The last n elements of seq.
LastOf(n, seq) == IF Len(seq) <= n THEN seq ELSE SubSeq(seq, Len(seq) - n + 1, Len(seq))

Init ==
  /\ said = [c \in Chats |-> <<>>]
  /\ open = [c \in Chats |-> {}]

Ask(c, r, q) ==
  /\ open' = [open EXCEPT ![c] = @ \cup {[of |-> r, text |-> q]}]
  /\ UNCHANGED said

\* The answer to q is told from any other by the question it answers.
Answer(c, r, q) ==
  /\ [of |-> r, text |-> q] \in open[c]
  /\ open' = [open EXCEPT ![c] = @ \ {[of |-> r, text |-> q]}]
  /\ said' = [said EXCEPT ![c] = LastOf(MaxExchanges, Append(@, <<q, q>>))]

\* A question fails and leaves no trace.
Drop(c, r, q) ==
  /\ open' = [open EXCEPT ![c] = @ \ {[of |-> r, text |-> q]}]
  /\ UNCHANGED said

\* A chat is cleared, or all are when the app stops.
Forget(cs) ==
  /\ said' = [c \in Chats |-> IF c \in cs THEN <<>> ELSE said[c]]
  /\ open' = [c \in Chats |-> IF c \in cs THEN {} ELSE open[c]]

Next ==
  \/ \E c \in Chats, r \in Requests, q \in Questions :
       Ask(c, r, q) \/ Answer(c, r, q) \/ Drop(c, r, q)
  \/ \E c \in Chats : Forget({c})
  \/ Forget(Chats)

Spec == Init /\ [][Next]_<<said, open>>
=============================================================================
