----------------------------- MODULE AgentProofs -----------------------------
(***************************************************************************)
(* Theorems about Agent, for every number of chats, requests, lists and    *)
(* rounds: its types, that it implements Conversation, and that the model   *)
(* is told the truth about its tools.                                      *)
(***************************************************************************)
EXTENDS Agent, SequenceTheorems, TLAPS

-----------------------------------------------------------------------------
(* Types *)

Message == [role : {"user", "assistant"}, text : Questions]

CallOf == [round : Nat, i : Nat]

Turn == [role : {"assistant"}, calls : Seq(CallOf)]
          \cup [role : {"tool"}, call : CallOf, ok : BOOLEAN]

Work ==
  [ pc : {"idle", "complete", "tool", "commit", "reply"},
    chat : Chats \cup {None}, text : Questions \cup {None},
    list : Lists \cup {None}, round : 0..MaxToolRounds,
    messages : Seq(Turn), todo : Seq(CallOf),
    pending : SUBSET CallOf, db : SUBSET CallOf ]

\* What is set at each place of a request.
WorkOK(w) ==
  /\ w.pc # "idle" => w.list \in Lists /\ w.chat \in Chats /\ w.text \in Questions
  /\ w.pc = "complete" => w.round < MaxToolRounds
  /\ w.pc \in {"tool", "commit"} => w.todo # <<>>

\* No two chats share a list, and lists hold whole exchanges.
AgentInv ==
  /\ history \in [Chats -> Lists \cup {None}]
  /\ lists \in [Lists -> Seq(Message)]
  /\ work \in [Requests -> Work]
  /\ asked \in 0..MaxAsked
  /\ \A r \in Requests : WorkOK(work[r])
  /\ \A l \in Lists : \E n \in 0..MaxExchanges : Len(lists[l]) = 2 * n
  /\ \A c, d \in Chats : history[c] = history[d] /\ history[c] # None => c = d

LEMMA IdleType == Idle \in Work /\ WorkOK(Idle) /\ Idle.pc = "idle"
<1>1. <<>> \in Seq(Turn) /\ <<>> \in Seq(CallOf)
  BY EmptySeq
<1>2. 0 \in 0..MaxToolRounds
  BY AgentAssumption
<1>3. QED
  BY <1>1, <1>2 DEF Idle, Work, WorkOK

LEMMA InvType == AgentInv => TypeOK
<1> SUFFICES ASSUME AgentInv PROVE TypeOK
  OBVIOUS
<1>1. ASSUME NEW l \in Lists
      PROVE  /\ lists[l] \in Seq([role : {"user", "assistant"}, text : Questions])
             /\ Len(lists[l]) <= MaxHistory
  <2>1. lists[l] \in Seq(Message)
    BY DEF AgentInv
  <2>2. PICK n \in 0..MaxExchanges : Len(lists[l]) = 2 * n
    BY DEF AgentInv
  <2>3. MaxExchanges \in Nat
    BY AgentAssumption
  <2>4. QED
    BY <2>1, <2>2, <2>3 DEF Message, MaxHistory
<1>2. ASSUME NEW r \in Requests
      PROVE  /\ DOMAIN work[r] = DOMAIN Idle
             /\ work[r].pc \in {"idle", "complete", "tool", "commit", "reply"}
             /\ Busy(r) => work[r].list \in Lists /\ work[r].chat \in Chats
                             /\ work[r].text \in Questions
             /\ work[r].round \in 0..MaxToolRounds
             /\ work[r].pc \in {"tool", "commit"} => work[r].todo # <<>>
  <2>1. work[r] \in Work /\ WorkOK(work[r])
    BY DEF AgentInv
  <2>2. DOMAIN work[r] = DOMAIN Idle
    BY <2>1 DEF Work, Idle
  <2>3. QED
    BY <2>1, <2>2 DEF Work, WorkOK, Busy
<1>3. DOMAIN lists = Lists
  BY DEF AgentInv
<1>4. QED
  BY <1>1, <1>2, <1>3 DEF AgentInv, TypeOK

\* A step inside a request keeps its question and its list.
Within(r) ==
  /\ UNCHANGED <<history, lists, asked>>
  /\ \A p \in Requests \ {r} : work'[p] = work[p]
  /\ work[r].pc # "idle" /\ work'[r].pc # "idle"
  /\ work'[r].list = work[r].list /\ work'[r].text = work[r].text
  /\ work' \in [Requests -> Work] /\ WorkOK(work'[r])

LEMMA LongTail ==
  ASSUME NEW S, NEW s \in Seq(S), Len(s) > 1
  PROVE  Tail(s) # <<>>
<1> DEFINE rest == Tail(s)
<1>1. rest \in Seq(S) /\ Len(rest) = Len(s) - 1
  BY HeadTailProperties
<1> HIDE DEF rest
<1>2. rest # <<>>
  BY <1>1
<1>3. QED
  BY <1>2 DEF rest

LEMMA ResultType ==
  ASSUME AgentInv, NEW r \in Requests, NEW ok \in BOOLEAN,
         work[r].pc \in {"tool", "commit"}
  PROVE  /\ Result(work[r], ok) \in Work /\ WorkOK(Result(work[r], ok))
         /\ Result(work[r], ok).pc # "idle"
         /\ Result(work[r], ok).list = work[r].list
         /\ Result(work[r], ok).text = work[r].text
         /\ Result(work[r], ok).chat = work[r].chat
<1> DEFINE w == work[r]
           m == [role |-> "tool", call |-> Head(w.todo), ok |-> ok]
           pc == IF Len(w.todo) > 1 THEN "tool"
                 ELSE IF w.round < MaxToolRounds THEN "complete" ELSE "reply"
<1>1. w \in Work /\ WorkOK(w)
  BY DEF AgentInv
<1>2. w.todo \in Seq(CallOf) /\ w.todo # <<>> /\ w.messages \in Seq(Turn)
  BY <1>1 DEF Work, WorkOK
<1>3. /\ Head(w.todo) \in CallOf /\ Tail(w.todo) \in Seq(CallOf)
      /\ Len(w.todo) > 1 => Tail(w.todo) # <<>>
  BY <1>2, HeadTailProperties, LongTail
<1>4. Append(w.messages, m) \in Seq(Turn)
  <2>1. m \in Turn
    BY <1>3 DEF Turn
  <2>2. QED
    BY <1>2, <2>1, AppendProperties
<1>5. Result(w, ok) = [w EXCEPT !.messages = Append(w.messages, m),
                                !.todo = Tail(w.todo), !.pending = {}, !.pc = pc]
  BY DEF Result
<1>6. Result(w, ok) \in Work
  <2>1. pc \in {"tool", "complete", "reply"} /\ {} \in SUBSET CallOf
    OBVIOUS
  <2> HIDE DEF pc, m
  <2>2. QED
    BY <1>1, <1>3, <1>4, <1>5, <2>1 DEF Work
<1>7. /\ Result(w, ok).pc = pc /\ Result(w, ok).list = w.list
      /\ Result(w, ok).text = w.text /\ Result(w, ok).chat = w.chat
      /\ Result(w, ok).todo = Tail(w.todo) /\ Result(w, ok).round = w.round
  <2> HIDE DEF pc, m
  <2>1. QED
    BY <1>1, <1>5 DEF Work
<1>8. QED
  BY <1>1, <1>3, <1>6, <1>7 DEF WorkOK

LEMMA StepWithin ==
  ASSUME AgentInv, NEW r \in Requests,
         Complete(r) \/ Execute(r) \/ CommitTool(r) \/ ToolRaises(r)
  PROVE  Within(r)
<1>0. /\ work \in [Requests -> Work] /\ work[r] \in Work /\ WorkOK(work[r])
      /\ work[r].round \in 0..MaxToolRounds /\ MaxToolRounds \in Nat
  BY AgentAssumption DEF AgentInv, Work
<1>1. CASE Complete(r)
  <2>1. PICK n \in 0..MaxCalls :
          LET calls == [i \in 1..n |-> Call(r, i)]
          IN  work' = [work EXCEPT
                ![r].messages = Append(@, [role |-> "assistant", calls |-> calls]),
                ![r].todo = calls, ![r].round = @ + 1,
                ![r].pc = IF calls = <<>> THEN "reply" ELSE "tool"]
    BY <1>1 DEF Complete
  <2> DEFINE calls == [i \in 1..n |-> Call(r, i)]
             m == [role |-> "assistant", calls |-> calls]
             pc == IF calls = <<>> THEN "reply" ELSE "tool"
  <2>2. n \in Nat
    BY AgentAssumption
  <2>3. calls \in Seq(CallOf)
    BY <1>0, <2>2 DEF Call, CallOf
  <2>4. Append(work[r].messages, m) \in Seq(Turn)
    <3>1. m \in Turn
      BY <2>3 DEF Turn
    <3>2. work[r].messages \in Seq(Turn)
      BY <1>0 DEF Work
    <3>3. QED
      BY <3>1, <3>2, AppendProperties
  <2>5. work[r].round + 1 \in 0..MaxToolRounds
    <3>1. work[r].pc = "complete"
      BY <1>1 DEF Complete, At
    <3>2. work[r].round < MaxToolRounds
      BY <1>0, <3>1 DEF WorkOK
    <3>3. QED
      BY <1>0, <3>2
  <2>6. /\ work' = [work EXCEPT ![r] = work'[r]]
        /\ work'[r] = [work[r] EXCEPT !.messages = Append(work[r].messages, m),
                         !.todo = calls, !.round = work[r].round + 1, !.pc = pc]
    BY <1>0, <2>1
  <2>7. pc \in {"reply", "tool"} /\ (pc = "tool" => calls # <<>>)
    OBVIOUS
  <2> HIDE DEF calls, m, pc
  <2>8. work'[r] \in Work
    BY <1>0, <2>3, <2>4, <2>5, <2>6, <2>7 DEF Work
  <2>9. /\ work'[r].pc = pc /\ work'[r].todo = calls
        /\ work'[r].list = work[r].list /\ work'[r].text = work[r].text
        /\ work'[r].chat = work[r].chat
    BY <1>0, <2>6 DEF Work
  <2>10. work[r].pc = "complete" /\ UNCHANGED <<history, lists, asked>>
    BY <1>1 DEF Complete, At
  <2>11. WorkOK(work'[r]) /\ work'[r].pc # "idle"
    BY <1>0, <2>7, <2>9, <2>10 DEF WorkOK
  <2>12. work' \in [Requests -> Work] /\ \A p \in Requests \ {r} : work'[p] = work[p]
    BY <1>0, <2>6, <2>8
  <2>13. QED
    BY <2>9, <2>10, <2>11, <2>12 DEF Within
<1>2. CASE Execute(r)
  <2>1. work[r].todo \in Seq(CallOf) /\ work[r].todo # <<>>
    BY <1>0, <1>2 DEF Execute, At, Work, WorkOK
  <2>2. Head(work[r].todo) \in CallOf
    BY <2>1, HeadTailProperties
  <2>3. /\ work' = [work EXCEPT ![r] = work'[r]]
        /\ work'[r] = [work[r] EXCEPT !.pc = "commit",
                         !.pending = work[r].pending \cup {Head(work[r].todo)}]
    BY <1>0, <1>2 DEF Execute
  <2>4. work'[r] \in Work
    <3>1. work[r].pending \cup {Head(work[r].todo)} \in SUBSET CallOf
      BY <1>0, <2>2 DEF Work
    <3>2. QED
      BY <1>0, <2>3, <3>1 DEF Work
  <2>5. /\ work'[r].pc = "commit" /\ work'[r].todo = work[r].todo
        /\ work'[r].list = work[r].list /\ work'[r].text = work[r].text
        /\ work'[r].chat = work[r].chat
    BY <1>0, <2>3 DEF Work
  <2>6. QED
    BY <1>0, <1>2, <2>1, <2>3, <2>4, <2>5 DEF Execute, At, Within, WorkOK
<1>3. CASE CommitTool(r)
  <2>1. work[r].pc = "commit"
    BY <1>3 DEF CommitTool, At
  <2> DEFINE w == Result(work[r], TRUE)
  <2>2. /\ w \in Work /\ WorkOK(w) /\ w.pc # "idle" /\ w.list = work[r].list
        /\ w.text = work[r].text /\ w.chat = work[r].chat
    BY <2>1, ResultType
  <2>3. /\ work' = [work EXCEPT ![r] = work'[r]]
        /\ work'[r] = [w EXCEPT !.db = w.db \cup work[r].pending]
    <3>1. work' = [work EXCEPT ![r] = [w EXCEPT !.db = @ \cup work[r].pending]]
      BY <1>3 DEF CommitTool
    <3> HIDE DEF w
    <3>2. QED
      BY <1>0, <3>1
  <2> HIDE DEF w
  <2>4. work'[r] \in Work
    <3>1. w.db \cup work[r].pending \in SUBSET CallOf
      BY <1>0, <2>2 DEF Work
    <3>2. QED
      BY <2>2, <2>3, <3>1 DEF Work
  <2>5. /\ work'[r].pc = w.pc /\ work'[r].todo = w.todo /\ work'[r].round = w.round
        /\ work'[r].list = w.list /\ work'[r].text = w.text /\ work'[r].chat = w.chat
    BY <2>2, <2>3 DEF Work
  <2>6. QED
    BY <1>0, <1>3, <2>1, <2>2, <2>3, <2>4, <2>5 DEF CommitTool, Within, WorkOK
<1>4. CASE ToolRaises(r)
  <2>1. work[r].pc \in {"tool", "commit"}
    BY <1>4 DEF ToolRaises, At
  <2>2. work' = [work EXCEPT ![r] = Result(work[r], FALSE)]
    BY <1>4 DEF ToolRaises
  <2>3. QED
    BY <1>0, <1>4, <2>1, <2>2, ResultType DEF ToolRaises, Within
<1>5. QED
  BY <1>1, <1>2, <1>3, <1>4

-----------------------------------------------------------------------------
(* Exchanges *)

\* The exchanges in a list.
Pairs(l) ==
  [i \in 1..(Len(l) \div 2) |-> <<l[2 * i - 1].text, l[2 * i].text>>]

LEMMA PairsType ==
  ASSUME NEW l \in Seq(Message), NEW n \in Nat, Len(l) = 2 * n
  PROVE  /\ Pairs(l) \in Seq(Questions \X Questions) /\ Len(Pairs(l)) = n
         /\ \A i \in 1..n : Pairs(l)[i] = <<l[2 * i - 1].text, l[2 * i].text>>
<1>1. Len(l) \div 2 = n
  OBVIOUS
<1>2. Pairs(l) = [i \in 1..n |-> <<l[2 * i - 1].text, l[2 * i].text>>]
  BY <1>1 DEF Pairs
<1>3. ASSUME NEW i \in 1..n
      PROVE  <<l[2 * i - 1].text, l[2 * i].text>> \in Questions \X Questions
  <2>1. 2 * i - 1 \in 1..Len(l) /\ 2 * i \in 1..Len(l)
    OBVIOUS
  <2>2. l[2 * i - 1] \in Message /\ l[2 * i] \in Message
    BY <2>1, ElementOfSeq
  <2>3. QED
    BY <2>2 DEF Message
<1>4. Pairs(l) \in [1..n -> Questions \X Questions]
  BY <1>2, <1>3
<1>5. Pairs(l) \in Seq(Questions \X Questions)
  BY <1>4, SeqDef
<1>6. Len(Pairs(l)) = n
  BY <1>4, <1>5, LenProperties
<1>7. QED
  BY <1>2, <1>5, <1>6

\* Adding an exchange to a list of messages adds one to its exchanges.
LEMMA RememberedIsLast ==
  ASSUME NEW l \in Seq(Message), NEW n \in 0..MaxExchanges, Len(l) = 2 * n,
         NEW q \in Questions
  PROVE  /\ Remembered(l, q) \in Seq(Message)
         /\ \E m \in 0..MaxExchanges : Len(Remembered(l, q)) = 2 * m
         /\ Pairs(Remembered(l, q))
              = Promised!LastOf(MaxExchanges, Append(Pairs(l), <<q, q>>))
<1> DEFINE two    == <<[role |-> "user", text |-> q], [role |-> "assistant", text |-> q]>>
           longer == l \o two
           more   == Append(Pairs(l), <<q, q>>)
<1>0. MaxExchanges \in Nat \ {0} /\ MaxHistory = 2 * MaxExchanges
  BY AgentAssumption DEF MaxHistory
<1>1. two \in Seq(Message) /\ Len(two) = 2 /\ two[1].text = q /\ two[2].text = q
  BY DEF Message
<1> HIDE DEF two
<1>2. /\ longer \in Seq(Message) /\ Len(longer) = 2 * (n + 1)
      /\ \A i \in 1..(2 * n) : longer[i] = l[i]
      /\ longer[2 * n + 1].text = q /\ longer[2 * n + 2].text = q
  <2>1. /\ longer \in Seq(Message) /\ Len(longer) = Len(l) + Len(two)
        /\ \A i \in 1..Len(l) + Len(two) :
             longer[i] = IF i <= Len(l) THEN l[i] ELSE two[i - Len(l)]
    BY <1>1, ConcatProperties
  <2> HIDE DEF longer
  <2>2. /\ Len(longer) = 2 * (n + 1)
        /\ \A i \in 1..(2 * n) : longer[i] = l[i]
        /\ longer[2 * n + 1] = two[1] /\ longer[2 * n + 2] = two[2]
    BY <1>0, <1>1, <2>1
  <2>3. QED
    BY <1>1, <2>1, <2>2
<1> HIDE DEF longer
<1>3. /\ Pairs(l) \in Seq(Questions \X Questions) /\ Len(Pairs(l)) = n
      /\ \A i \in 1..n : Pairs(l)[i] = <<l[2 * i - 1].text, l[2 * i].text>>
  <2>1. n \in Nat
    BY <1>0
  <2>2. QED
    BY <2>1, PairsType
<1>4. /\ more \in Seq(Questions \X Questions) /\ Len(more) = n + 1
      /\ \A i \in 1..n : more[i] = Pairs(l)[i]
      /\ more[n + 1] = <<q, q>>
  BY <1>0, <1>3, AppendProperties
<1> HIDE DEF more
<1>5. \A i \in 1..(n + 1) : more[i] = <<longer[2 * i - 1].text, longer[2 * i].text>>
  <2> SUFFICES ASSUME NEW i \in 1..(n + 1)
               PROVE  more[i] = <<longer[2 * i - 1].text, longer[2 * i].text>>
    OBVIOUS
  <2>1. CASE i = n + 1
    <3>1. 2 * i - 1 = 2 * n + 1 /\ 2 * i = 2 * n + 2
      BY <1>0, <2>1
    <3>2. QED
      BY <1>2, <1>4, <2>1, <3>1
  <2>2. CASE i # n + 1
    <3>1. i \in 1..n /\ 2 * i - 1 \in 1..(2 * n) /\ 2 * i \in 1..(2 * n)
      BY <1>0, <2>2
    <3>2. QED
      BY <1>2, <1>3, <1>4, <3>1
  <2>3. QED
    BY <2>1, <2>2
<1>6. CASE n < MaxExchanges
  <2>1. Remembered(l, q) = longer
    BY <1>0, <1>2, <1>6 DEF Remembered, longer, two
  <2>2. Promised!LastOf(MaxExchanges, more) = more
    BY <1>0, <1>4, <1>6 DEF Promised!LastOf
  <2>3. /\ Pairs(longer) \in Seq(Questions \X Questions) /\ Len(Pairs(longer)) = n + 1
        /\ \A i \in 1..(n + 1) :
             Pairs(longer)[i] = <<longer[2 * i - 1].text, longer[2 * i].text>>
    <3>1. n + 1 \in Nat
      BY <1>0
    <3>2. QED
      BY <1>2, <3>1, PairsType
  <2>4. Pairs(longer) = more
    BY <1>4, <1>5, <2>3, SeqEqual
  <2>5. n + 1 \in 0..MaxExchanges
    BY <1>0, <1>6
  <2>6. QED
    BY <1>2, <2>1, <2>2, <2>4, <2>5 DEF more
<1>7. CASE n = MaxExchanges
  <2> DEFINE short == SubSeq(longer, 3, 2 * n + 2)
             last  == SubSeq(more, 2, n + 1)
  <2>1. Remembered(l, q) = short
    <3>1. Remembered(l, q) = IF Len(longer) <= MaxHistory THEN longer
                             ELSE SubSeq(longer, Len(longer) - MaxHistory + 1, Len(longer))
      BY DEF Remembered, longer, two
    <3>2. ~(Len(longer) <= MaxHistory) /\ Len(longer) - MaxHistory + 1 = 3
            /\ Len(longer) = 2 * n + 2
      BY <1>0, <1>2, <1>7
    <3>3. QED
      BY <3>1, <3>2
  <2>2. Promised!LastOf(MaxExchanges, more) = last
    BY <1>0, <1>4, <1>7 DEF Promised!LastOf
  <2>3. /\ short \in Seq(Message) /\ Len(short) = 2 * n
        /\ \A i \in 1..(2 * n) : short[i] = longer[i + 2]
    <3>1. \A i \in 3..(2 * n + 2) : longer[i] \in Message
      BY <1>0, <1>2, ElementOfSeq
    <3>2. /\ short \in Seq(Message)
          /\ Len(short) = IF 3 <= 2 * n + 2 THEN 2 * n + 2 - 3 + 1 ELSE 0
          /\ \A i \in 1..(2 * n + 2 - 3 + 1) : short[i] = longer[3 + i - 1]
      BY <1>0, <3>1, SubSeqProperties
    <3> HIDE DEF short
    <3>3. QED
      BY <1>0, <1>7, <3>2
  <2>4. /\ last \in Seq(Questions \X Questions) /\ Len(last) = n
        /\ \A i \in 1..n : last[i] = more[i + 1]
    <3>1. \A i \in 2..(n + 1) : more[i] \in Questions \X Questions
      BY <1>0, <1>4, ElementOfSeq
    <3>2. /\ last \in Seq(Questions \X Questions)
          /\ Len(last) = IF 2 <= n + 1 THEN n + 1 - 2 + 1 ELSE 0
          /\ \A i \in 1..(n + 1 - 2 + 1) : last[i] = more[2 + i - 1]
      BY <1>0, <3>1, SubSeqProperties
    <3> HIDE DEF last
    <3>3. QED
      BY <1>0, <1>7, <3>2
  <2> HIDE DEF short, last
  <2>5. /\ Pairs(short) \in Seq(Questions \X Questions) /\ Len(Pairs(short)) = n
        /\ \A i \in 1..n : Pairs(short)[i] = <<short[2 * i - 1].text, short[2 * i].text>>
    <3>1. n \in Nat
      BY <1>0
    <3>2. QED
      BY <2>3, <3>1, PairsType
  <2>6. ASSUME NEW i \in 1..n PROVE Pairs(short)[i] = last[i]
    <3>1. short[2 * i - 1] = longer[2 * (i + 1) - 1] /\ short[2 * i] = longer[2 * (i + 1)]
      <4>1. /\ 2 * i - 1 \in 1..(2 * n) /\ 2 * i \in 1..(2 * n)
            /\ 2 * i - 1 + 2 = 2 * (i + 1) - 1 /\ 2 * i + 2 = 2 * (i + 1)
        BY <1>0
      <4>2. QED
        BY <2>3, <4>1
    <3>2. more[i + 1] = <<longer[2 * (i + 1) - 1].text, longer[2 * (i + 1)].text>>
      BY <1>0, <1>5
    <3>3. QED
      BY <2>4, <2>5, <3>1, <3>2
  <2>7. Pairs(short) = last
    BY <2>4, <2>5, <2>6, SeqEqual
  <2>8. QED
    BY <2>1, <2>2, <2>3, <2>7 DEF more
<1>8. QED
  BY <1>0, <1>6, <1>7

-----------------------------------------------------------------------------
(* Steps *)

\* Nothing that a chat shows changes while c keeps its list and who holds it.
LEMMA SameChat ==
  ASSUME NEW c \in Chats, history'[c] = history[c],
         history[c] # None => lists'[history[c]] = lists[history[c]],
         \A p \in Requests :
           /\ Busy(p)' /\ work'[p].list = history[c]
                <=> Busy(p) /\ work[p].list = history[c]
           /\ Busy(p) /\ work[p].list = history[c] => work'[p].text = work[p].text
  PROVE  Said(c)' = Said(c) /\ Open(c)' = Open(c)
<1>1. Said(c)' = Said(c)
  BY DEF Said
<1>2. ASSUME NEW x PROVE x \in Open(c)' <=> x \in Open(c)
  <2>1. x \in Open(c) <=>
          \E p \in Requests : /\ Busy(p) /\ work[p].list = history[c]
                             /\ x = [of |-> p, text |-> work[p].text]
    BY DEF Open
  <2>2. x \in Open(c)' <=>
          \E p \in Requests : /\ Busy(p)' /\ work'[p].list = history'[c]
                             /\ x = [of |-> p, text |-> work'[p].text]
    BY DEF Open
  <2>3. QED
    BY <2>1, <2>2
<1>3. QED
  BY <1>1, <1>2

\* A step that changes one chat at most.
LEMMA OneChat ==
  ASSUME NEW c \in Chats, \A d \in Chats \ {c} : Said(d)' = Said(d) /\ Open(d)' = Open(d)
  PROVE  /\ [d \in Chats |-> Said(d)]' = [[d \in Chats |-> Said(d)] EXCEPT ![c] = Said(c)']
         /\ [d \in Chats |-> Open(d)]' = [[d \in Chats |-> Open(d)] EXCEPT ![c] = Open(c)']
OBVIOUS

LEMMA WithinStep ==
  ASSUME AgentInv, NEW r \in Requests, Within(r)
  PROVE  AgentInv' /\ \A c \in Chats : Said(c)' = Said(c) /\ Open(c)' = Open(c)
<1>1. AgentInv'
  BY DEF AgentInv, Within
<1>2. ASSUME NEW c \in Chats PROVE Said(c)' = Said(c) /\ Open(c)' = Open(c)
  BY SameChat DEF Within, Busy
<1>3. QED
  BY <1>1, <1>2

LEMMA AskStep ==
  ASSUME AgentInv, NEW r \in Requests, NEW c \in Chats, NEW q \in Questions, Ask(r, c, q)
  PROVE  AgentInv' /\ Promised!Ask(c, r, q)
<1>1. PICK l \in Lists :
        /\ IF history[c] # None THEN l = history[c] /\ UNCHANGED lists
           ELSE l \notin Referred /\ lists' = [lists EXCEPT ![l] = <<>>]
        /\ history' = [history EXCEPT ![c] = l]
        /\ work' = [work EXCEPT ![r] = [Idle EXCEPT !.pc = "complete", !.chat = c,
                                          !.text = q, !.list = l]]
  BY DEF Ask
<1>2. /\ work \in [Requests -> Work] /\ history \in [Chats -> Lists \cup {None}]
      /\ lists \in [Lists -> Seq(Message)] /\ None \notin Lists
      /\ \A p \in Requests : work[p] \in Work /\ WorkOK(work[p])
      /\ \A d, e \in Chats : history[d] = history[e] /\ history[d] # None => d = e
  BY AgentAssumption DEF AgentInv
<1>3. /\ work'[r] \in Work /\ work'[r].pc = "complete" /\ work'[r].list = l
      /\ work'[r].text = q /\ work'[r].chat = c /\ work'[r].round = 0
      /\ \A p \in Requests \ {r} : work'[p] = work[p]
      /\ work' \in [Requests -> Work]
  <2>1. Idle \in Work /\ Idle.round = 0
    BY IdleType DEF Idle
  <2>2. work'[r] = [Idle EXCEPT !.pc = "complete", !.chat = c, !.text = q, !.list = l]
    BY <1>1, <1>2
  <2>3. /\ work'[r] \in Work /\ work'[r].pc = "complete" /\ work'[r].list = l
        /\ work'[r].text = q /\ work'[r].chat = c /\ work'[r].round = 0
    <3>1. c \in Chats \cup {None} /\ q \in Questions \cup {None} /\ l \in Lists \cup {None}
      OBVIOUS
    <3>2. work'[r] \in Work
      BY <2>1, <2>2, <3>1 DEF Work
    <3>3. DOMAIN Idle = {"pc", "chat", "text", "list", "round", "messages", "todo",
                         "pending", "db"}
      BY DEF Idle
    <3>4. QED
      BY <2>1, <2>2, <3>2, <3>3
  <2>4. QED
    BY <1>1, <1>2, <2>3
<1>4. ~Busy(r) /\ asked' \in 0..MaxAsked
  BY AgentAssumption DEF Ask, AgentInv
<1>5. ASSUME NEW d \in Chats \ {c} PROVE history'[d] = history[d] /\ history[d] # l
  BY <1>1, <1>2 DEF Referred
<1>6. history'[c] = l
  BY <1>1, <1>2
<1>7. \A k \in Lists \ {l} : lists'[k] = lists[k]
  BY <1>1, <1>2
<1>8. AgentInv'
  <2>1. lists' \in [Lists -> Seq(Message)]
    <3>1. lists' = lists \/ lists' = [lists EXCEPT ![l] = <<>>]
      BY <1>1
    <3>2. <<>> \in Seq(Message)
      BY EmptySeq
    <3>3. QED
      BY <1>2, <3>1, <3>2
  <2>2. \A k \in Lists : \E n \in 0..MaxExchanges : Len(lists'[k]) = 2 * n
    <3>1. ASSUME NEW k \in Lists, lists'[k] = lists[k]
          PROVE  \E n \in 0..MaxExchanges : Len(lists'[k]) = 2 * n
      BY <3>1 DEF AgentInv
    <3>2. lists'[l] = lists[l] \/ lists'[l] = <<>>
      BY <1>1, <1>2
    <3>3. 0 \in 0..MaxExchanges /\ Len(<<>>) = 2 * 0
      BY AgentAssumption
    <3>4. QED
      BY <1>7, <3>1, <3>2, <3>3
  <2>3. \A p \in Requests : WorkOK(work'[p])
    BY <1>2, <1>3, AgentAssumption DEF WorkOK
  <2>4. \A d, e \in Chats : history'[d] = history'[e] /\ history'[d] # None => d = e
    BY <1>2, <1>5, <1>6
  <2>5. history' \in [Chats -> Lists \cup {None}]
    BY <1>1, <1>2
  <2>6. QED
    BY <1>3, <1>4, <2>1, <2>2, <2>3, <2>4, <2>5 DEF AgentInv
<1>9. ASSUME NEW d \in Chats \ {c} PROVE Said(d)' = Said(d) /\ Open(d)' = Open(d)
  <2>1. history[d] # None => lists'[history[d]] = lists[history[d]]
    BY <1>2, <1>5, <1>7
  <2>2. QED
    BY <1>3, <1>4, <1>5, <2>1, SameChat DEF Busy
<1>10. Said(c)' = Said(c)
  <2>1. CASE history[c] # None
    <3>1. history'[c] = history[c] /\ lists' = lists
      BY <1>1, <1>6, <2>1
    <3>2. QED
      BY <3>1 DEF Said
  <2>2. CASE history[c] = None
    <3>1. lists'[l] = <<>> /\ history'[c] # None
      BY <1>1, <1>2, <1>6, <2>2
    <3>2. Said(c)' = [i \in 1..(Len(lists'[l]) \div 2) |->
                        <<lists'[l][2 * i - 1].text, lists'[l][2 * i].text>>]
      BY <1>6, <3>1 DEF Said
    <3>3. 1..(Len(<<>>) \div 2) = {}
      OBVIOUS
    <3>4. Said(c)' = <<>>
      BY <3>1, <3>2, <3>3
    <3>5. QED
      BY <2>2, <3>4 DEF Said
  <2>3. QED
    BY <2>1, <2>2
<1>11. Open(c)' = Open(c) \cup {[of |-> r, text |-> q]}
  <2> SUFFICES ASSUME NEW x
               PROVE  x \in Open(c)' <=> x \in Open(c) \/ x = [of |-> r, text |-> q]
    OBVIOUS
  <2>1. x \in Open(c) <=>
          \E p \in Requests : /\ Busy(p) /\ work[p].list = history[c]
                             /\ x = [of |-> p, text |-> work[p].text]
    BY DEF Open
  <2>2. x \in Open(c)' <=>
          \E p \in Requests : /\ Busy(p)' /\ work'[p].list = l
                             /\ x = [of |-> p, text |-> work'[p].text]
    BY <1>6 DEF Open
  <2>3. \A p \in Requests \ {r} : Busy(p)' <=> Busy(p)
    BY <1>3 DEF Busy
  <2>4. Busy(r)'
    BY <1>3 DEF Busy
  <2>5. \A p \in Requests \ {r} :
          Busy(p) => (work[p].list = l <=> work[p].list = history[c])
    BY <1>1, <1>2 DEF Referred, WorkOK, Busy
  <2>6. QED
    BY <1>3, <1>4, <2>1, <2>2, <2>3, <2>4, <2>5
<1>12. Promised!Ask(c, r, q)
  BY <1>9, <1>10, <1>11, OneChat DEF Promised!Ask
<1>13. QED
  BY <1>8, <1>12

\* A request ends: its question is dropped from the chat that has its list, if any.
LEMMA EndOpen ==
  ASSUME AgentInv, NEW r \in Requests, Busy(r), work' = [work EXCEPT ![r] = Idle],
         NEW c \in Chats, history'[c] = history[c]
  PROVE  Open(c)' = IF history[c] = work[r].list
                    THEN Open(c) \ {[of |-> r, text |-> work[r].text]} ELSE Open(c)
<1>1. /\ work \in [Requests -> Work] /\ work'[r] = Idle
      /\ \A p \in Requests \ {r} : work'[p] = work[p]
  BY DEF AgentInv
<1>2. ~Busy(r)' /\ \A p \in Requests \ {r} : Busy(p)' <=> Busy(p)
  BY <1>1, IdleType DEF Busy
<1> SUFFICES ASSUME NEW x
             PROVE  x \in Open(c)' <=>
                      x \in IF history[c] = work[r].list
                            THEN Open(c) \ {[of |-> r, text |-> work[r].text]} ELSE Open(c)
  OBVIOUS
<1>3. x \in Open(c) <=>
        \E p \in Requests : /\ Busy(p) /\ work[p].list = history[c]
                           /\ x = [of |-> p, text |-> work[p].text]
  BY DEF Open
<1>4. x \in Open(c)' <=>
        \E p \in Requests : /\ Busy(p)' /\ work'[p].list = history[c]
                           /\ x = [of |-> p, text |-> work'[p].text]
  BY DEF Open
<1>5. x \in Open(c)' <=>
        \E p \in Requests \ {r} : /\ Busy(p) /\ work[p].list = history[c]
                                 /\ x = [of |-> p, text |-> work[p].text]
  BY <1>1, <1>2, <1>4
<1>6. \A p \in Requests \ {r} :
        [of |-> p, text |-> work[p].text] # [of |-> r, text |-> work[r].text]
  OBVIOUS
<1>7. QED
  BY <1>3, <1>5, <1>6

\* What a chat shows is a step of the conversation or stays as it is.
Shown == <<[c \in Chats |-> Said(c)], [c \in Chats |-> Open(c)]>>

LEMMA FailStep ==
  ASSUME AgentInv, NEW r \in Requests, Fail(r)
  PROVE  AgentInv' /\ (Promised!Next \/ UNCHANGED Shown)
<1>1. /\ Busy(r) /\ work' = [work EXCEPT ![r] = Idle] /\ UNCHANGED <<history, lists, asked>>
  BY DEF Fail
<1>2. AgentInv'
  <2>1. work' \in [Requests -> Work] /\ \A p \in Requests : WorkOK(work'[p])
    BY <1>1, IdleType DEF AgentInv
  <2>2. QED
    BY <1>1, <2>1 DEF AgentInv
<1>3. \A c \in Chats : Said(c)' = Said(c)
  BY <1>1 DEF Said
<1>4. ASSUME NEW c \in Chats, history[c] # work[r].list PROVE Open(c)' = Open(c)
  BY <1>1, <1>4, EndOpen
<1>5. CASE \E c \in Chats : history[c] = work[r].list
  <2>1. PICK c \in Chats : history[c] = work[r].list
    BY <1>5
  <2>2. work[r].list # None /\ work[r].text \in Questions
    BY <1>1, AgentAssumption DEF AgentInv, WorkOK, Busy
  <2>3. \A d \in Chats \ {c} : history[d] # work[r].list
    BY <2>1, <2>2 DEF AgentInv
  <2>4. Open(c)' = Open(c) \ {[of |-> r, text |-> work[r].text]}
    BY <1>1, <2>1, EndOpen
  <2>5. \A d \in Chats \ {c} : Open(d)' = Open(d)
    BY <1>4, <2>3
  <2>6. Promised!Drop(c, r, work[r].text)
    BY <1>3, <2>4, <2>5, OneChat DEF Promised!Drop
  <2>7. QED
    BY <1>2, <2>2, <2>6 DEF Promised!Next
<1>6. CASE ~\E c \in Chats : history[c] = work[r].list
  BY <1>2, <1>3, <1>4, <1>6 DEF Shown
<1>7. QED
  BY <1>5, <1>6

LEMMA ReplyStep ==
  ASSUME AgentInv, NEW r \in Requests, Reply(r)
  PROVE  AgentInv' /\ (Promised!Next \/ UNCHANGED Shown)
<1> DEFINE l == work[r].list
           q == work[r].text
<1>1. /\ Busy(r) /\ work' = [work EXCEPT ![r] = Idle] /\ UNCHANGED <<history, asked>>
      /\ lists' = [lists EXCEPT ![l] = Remembered(lists[l], q)]
  BY DEF Reply, At, Busy
<1>2. l \in Lists /\ q \in Questions /\ None \notin Lists
  BY <1>1, AgentAssumption DEF AgentInv, WorkOK, Busy
<1>3. lists[l] \in Seq(Message)
  BY <1>2 DEF AgentInv
<1>4. PICK n \in 0..MaxExchanges : Len(lists[l]) = 2 * n
  BY <1>2 DEF AgentInv
<1>5. /\ Remembered(lists[l], q) \in Seq(Message)
      /\ \E m \in 0..MaxExchanges : Len(Remembered(lists[l], q)) = 2 * m
      /\ Pairs(Remembered(lists[l], q))
           = Promised!LastOf(MaxExchanges, Append(Pairs(lists[l]), <<q, q>>))
  BY <1>2, <1>3, <1>4, RememberedIsLast
<1>6. /\ lists'[l] = Remembered(lists[l], q)
      /\ \A k \in Lists \ {l} : lists'[k] = lists[k]
      /\ lists' \in [Lists -> Seq(Message)]
  BY <1>1, <1>2, <1>5 DEF AgentInv
<1>7. AgentInv'
  <2>1. work' \in [Requests -> Work] /\ \A p \in Requests : WorkOK(work'[p])
    BY <1>1, IdleType DEF AgentInv
  <2>2. \A k \in Lists : \E m \in 0..MaxExchanges : Len(lists'[k]) = 2 * m
    BY <1>5, <1>6 DEF AgentInv
  <2>3. QED
    BY <1>1, <1>6, <2>1, <2>2 DEF AgentInv
<1>8. ASSUME NEW c \in Chats, history[c] # l
      PROVE  Said(c)' = Said(c) /\ Open(c)' = Open(c)
  <2>1. history[c] # None => history[c] \in Lists \ {l}
    BY <1>8 DEF AgentInv
  <2>2. history'[c] = history[c]
    BY <1>1
  <2>3. history[c] # None => lists'[history[c]] = lists[history[c]]
    BY <1>6, <2>1
  <2>4. Said(c)' = Said(c)
    BY <2>2, <2>3 DEF Said
  <2>5. Open(c)' = Open(c)
    BY <1>1, <1>8, <2>2, EndOpen
  <2>6. QED
    BY <2>4, <2>5
<1>9. CASE \E c \in Chats : history[c] = l
  <2>1. PICK c \in Chats : history[c] = l
    BY <1>9
  <2>2. \A d \in Chats \ {c} : history[d] # l
    BY <1>2, <2>1 DEF AgentInv
  <2>3. Open(c)' = Open(c) \ {[of |-> r, text |-> q]}
    BY <1>1, <2>1, EndOpen
  <2>4. [of |-> r, text |-> q] \in Open(c)
    BY <1>1, <2>1 DEF Open
  <2>5. Said(c) = Pairs(lists[l])
    BY <1>2, <2>1 DEF Said, Pairs
  <2>6. Said(c)' = Pairs(lists'[l])
    <3>1. history'[c] = l /\ l # None
      BY <1>1, <1>2, <2>1
    <3> HIDE DEF l
    <3>2. QED
      BY <3>1 DEF Said, Pairs
  <2>7. Said(c)' = Promised!LastOf(MaxExchanges, Append(Said(c), <<q, q>>))
    BY <1>5, <1>6, <2>5, <2>6
  <2>8. Promised!Answer(c, r, q)
    BY <1>8, <2>2, <2>3, <2>4, <2>7, OneChat DEF Promised!Answer
  <2>9. QED
    BY <1>2, <1>7, <2>8 DEF Promised!Next
<1>10. CASE ~\E c \in Chats : history[c] = l
  BY <1>7, <1>8, <1>10 DEF Shown
<1>11. QED
  BY <1>9, <1>10

LEMMA ClearStep ==
  ASSUME AgentInv, NEW c \in Chats, ClearHistory(c)
  PROVE  AgentInv' /\ Promised!Forget({c})
<1>1. /\ history' = [history EXCEPT ![c] = None] /\ UNCHANGED <<lists, work, asked>>
      /\ history \in [Chats -> Lists \cup {None}]
  BY DEF ClearHistory, AgentInv
<1>2. history'[c] = None /\ \A d \in Chats \ {c} : history'[d] = history[d]
  BY <1>1
<1>3. AgentInv'
  BY <1>1, <1>2 DEF AgentInv
<1>4. \A d \in Chats \ {c} : Said(d)' = Said(d) /\ Open(d)' = Open(d)
  BY <1>1, <1>2 DEF Said, Open, Busy
<1>5. Said(c)' = <<>>
  BY <1>2 DEF Said
<1>6. Open(c)' = {}
  <2>1. \A p \in Requests : Busy(p) => work[p].list # None
    BY AgentAssumption DEF AgentInv, WorkOK, Busy
  <2>2. \A p \in Requests : Busy(p)' => work'[p].list # history'[c]
    BY <1>1, <1>2, <2>1 DEF Busy
  <2>3. QED
    BY <2>2 DEF Open
<1>7. Promised!Forget({c})
  BY <1>4, <1>5, <1>6 DEF Promised!Forget
<1>8. QED
  BY <1>3, <1>7

LEMMA RestartStep ==
  ASSUME AgentInv, Restart
  PROVE  AgentInv' /\ Promised!Forget(Chats)
<1>1. /\ history' = [c \in Chats |-> None] /\ lists' = [l \in Lists |-> <<>>]
      /\ work' = [r \in Requests |-> Idle] /\ asked' = asked
  BY DEF Restart
<1>2. AgentInv'
  <2>1. lists' \in [Lists -> Seq(Message)]
    BY <1>1, EmptySeq
  <2>2. \A l \in Lists : \E n \in 0..MaxExchanges : Len(lists'[l]) = 2 * n
    <3>1. 0 \in 0..MaxExchanges /\ Len(<<>>) = 2 * 0
      BY AgentAssumption
    <3>2. QED
      BY <1>1, <3>1
  <2>3. work' \in [Requests -> Work] /\ \A r \in Requests : WorkOK(work'[r])
    BY <1>1, IdleType
  <2>4. QED
    BY <1>1, <2>1, <2>2, <2>3 DEF AgentInv
<1>3. \A c \in Chats : Said(c)' = <<>>
  BY <1>1 DEF Said
<1>4. \A c \in Chats : Open(c)' = {}
  BY <1>1, IdleType DEF Open, Busy
<1>5. Promised!Forget(Chats)
  BY <1>3, <1>4 DEF Promised!Forget
<1>6. QED
  BY <1>2, <1>5

-----------------------------------------------------------------------------
(* Theorems *)

LEMMA InitAgent == Init => AgentInv /\ Promised!Init
<1> SUFFICES ASSUME Init PROVE AgentInv /\ Promised!Init
  OBVIOUS
<1>1. /\ history = [c \in Chats |-> None] /\ lists = [l \in Lists |-> <<>>]
      /\ work = [r \in Requests |-> Idle] /\ asked = 0
  BY DEF Init
<1>2. AgentInv
  <2>1. lists \in [Lists -> Seq(Message)]
    BY <1>1, EmptySeq
  <2>2. 0 \in 0..MaxExchanges /\ Len(<<>>) = 2 * 0 /\ 0 \in 0..MaxAsked
    BY AgentAssumption
  <2>3. work \in [Requests -> Work] /\ \A r \in Requests : WorkOK(work[r])
    BY <1>1, IdleType
  <2>4. QED
    BY <1>1, <2>1, <2>2, <2>3 DEF AgentInv
<1>3. \A c \in Chats : Said(c) = <<>> /\ Open(c) = {}
  BY <1>1, IdleType DEF Said, Open, Busy
<1>4. QED
  BY <1>2, <1>3 DEF Promised!Init

LEMMA NextAgent ==
  AgentInv /\ [Next]_vars => AgentInv' /\ (Promised!Next \/ UNCHANGED Shown)
<1> SUFFICES ASSUME AgentInv, [Next]_vars
             PROVE  AgentInv' /\ (Promised!Next \/ UNCHANGED Shown)
  OBVIOUS
<1>1. ASSUME NEW r \in Requests,
             Complete(r) \/ Execute(r) \/ CommitTool(r) \/ ToolRaises(r)
      PROVE  AgentInv' /\ UNCHANGED Shown
  BY <1>1, StepWithin, WithinStep DEF Shown
<1>2. ASSUME NEW r \in Requests, Fail(r) \/ Reply(r)
      PROVE  AgentInv' /\ (Promised!Next \/ UNCHANGED Shown)
  BY <1>2, FailStep, ReplyStep
<1>3. ASSUME NEW r \in Requests, NEW c \in Chats, NEW q \in Questions, Ask(r, c, q)
      PROVE  AgentInv' /\ Promised!Next
  BY <1>3, AskStep DEF Promised!Next
<1>4. ASSUME NEW c \in Chats, ClearHistory(c)
      PROVE  AgentInv' /\ Promised!Next
  BY <1>4, ClearStep DEF Promised!Next
<1>5. CASE Restart
  BY <1>5, RestartStep DEF Promised!Next
<1>6. CASE UNCHANGED vars
  BY <1>6 DEF vars, AgentInv, Shown, Said, Open, Busy
<1>7. QED
  BY <1>1, <1>2, <1>3, <1>4, <1>5, <1>6 DEF Next, Step

\* The lists, requests and histories keep their types, however many chats and rounds
\* there are: a history holds whole exchanges and never more than MAX_HISTORY.
THEOREM AgentTypeCorrect == Spec => []TypeOK
<1>1. Spec => []AgentInv
  BY InitAgent, NextAgent, PTL DEF Spec
<1>2. QED
  BY <1>1, InvType, PTL

\* The agent with its list objects, tools and failing requests implements the
\* conversation: a question answered after a reset of its chat, or while another is
\* asked there, never shows up where it does not belong.
THEOREM AgentKeepsItsPromise == Spec => KeepsItsPromise
<1>1. AgentInv /\ [Next]_vars
        => AgentInv' /\ [Promised!Next]_<<[c \in Chats |-> Said(c)], [c \in Chats |-> Open(c)]>>
  BY NextAgent DEF Shown
<1>2. QED
  BY InitAgent, <1>1, PTL DEF Spec, KeepsItsPromise, Promised!Spec

-----------------------------------------------------------------------------
(* Results *)

\* The messages and the calls still to be made are one sequence of results after the
\* message that made them; calls are made once, the next one after all that were.
FollowOK(w) ==
  LET m == w.messages
  IN  /\ \A i \in Turns(m) : \A n \in DOMAIN m[i].calls :
           \/ Answered(m, i, n)
           \/ i + n - Len(m) \in DOMAIN w.todo /\ w.todo[i + n - Len(m)] = m[i].calls[n]
      /\ \A k \in DOMAIN w.todo :
           \E i \in Turns(m) : Len(m) + k - i \in DOMAIN m[i].calls
                              /\ m[i].calls[Len(m) + k - i] = w.todo[k]
      /\ \A j \in DOMAIN m \ Turns(m) :
           \E i \in Turns(m) : j - i \in DOMAIN m[i].calls /\ Answered(m, i, j - i)

\* A call that is yet to be made is made for the first time, and nothing of it is written
\* before.
AnewOK(w) ==
  LET results == DOMAIN w.messages \ Turns(w.messages)
  IN  /\ \A j \in results : w.messages[j].call.round < w.round
      /\ \A k \in DOMAIN w.todo :
           /\ w.todo[k].round = w.round - 1 /\ w.todo[k].i = w.todo[1].i + k - 1
           /\ \A j \in results :
                w.messages[j].call.round < w.round - 1 \/ w.messages[j].call.i < w.todo[1].i
      /\ \A j \in results : w.messages[j].call \in w.db <=> w.messages[j].ok
      /\ \A x \in w.db : \E j \in results : w.messages[j].call = x
      /\ w.pending = IF w.pc = "commit" THEN {Head(w.todo)} ELSE {}
      /\ w.pc \notin {"tool", "commit"} => w.todo = <<>>

ResultInv == \A r \in Requests : FollowOK(work[r]) /\ AnewOK(work[r])

\* What comes after a message has been added.
LEMMA AddedMessage ==
  ASSUME NEW m \in Seq(Turn), NEW x \in Turn
  PROVE  LET l == Append(m, x)
         IN  /\ l \in Seq(Turn) /\ Len(l) = Len(m) + 1 /\ Len(m) \in Nat
             /\ DOMAIN m = 1..Len(m) /\ DOMAIN l = 1..(Len(m) + 1)
             /\ \A i \in DOMAIN m : l[i] = m[i] /\ m[i] \in Turn
             /\ l[Len(m) + 1] = x
             /\ Turns(l) = Turns(m) \cup (IF x.role = "assistant" THEN {Len(m) + 1} ELSE {})
             /\ \A i \in Turns(m) : i \in 1..Len(m) /\ m[i].calls \in Seq(CallOf)
             /\ \A i \in Turns(m), n \in Nat : Answered(m, i, n) => Answered(l, i, n)
<1> DEFINE l == Append(m, x)
<1>1. /\ l \in Seq(Turn) /\ Len(l) = Len(m) + 1 /\ Len(m) \in Nat
      /\ \A i \in 1..Len(m) : l[i] = m[i]
      /\ l[Len(m) + 1] = x
  BY AppendProperties, LenProperties
<1>2. DOMAIN m = 1..Len(m) /\ DOMAIN l = 1..Len(l)
  BY <1>1, LenProperties
<1>3. \A i \in DOMAIN m : m[i] \in Turn
  BY <1>2, ElementOfSeq
<1> HIDE DEF l
<1>4. Turns(l) = Turns(m) \cup (IF x.role = "assistant" THEN {Len(m) + 1} ELSE {})
  BY <1>1, <1>2 DEF Turns
<1>5. \A i \in Turns(m) : i \in 1..Len(m) /\ m[i].calls \in Seq(CallOf)
  BY <1>2, <1>3 DEF Turns, Turn
<1>6. ASSUME NEW i \in Turns(m), NEW n \in Nat, Answered(m, i, n)
      PROVE  Answered(l, i, n)
  <2>1. i + n \in 1..Len(m) /\ i \in 1..Len(m)
    BY <1>2, <1>6 DEF Answered, Turns
  <2>2. l[i + n] = m[i + n] /\ l[i] = m[i] /\ i + n \in DOMAIN l
    BY <1>1, <1>2, <2>1
  <2>3. QED
    BY <1>6, <2>2 DEF Answered
<1>7. QED
  BY <1>1, <1>2, <1>3, <1>4, <1>5, <1>6 DEF l

LEMMA NoResults == FollowOK(Idle) /\ AnewOK(Idle)
<1>1. DOMAIN Idle.messages = {} /\ DOMAIN Idle.todo = {} /\ Idle.todo = <<>>
  BY DEF Idle
<1>2. Turns(Idle.messages) = {}
  BY <1>1 DEF Turns
<1>3. Idle.db = {} /\ Idle.pending = {} /\ Idle.pc = "idle"
  BY DEF Idle
<1>4. QED
  BY <1>1, <1>2, <1>3 DEF FollowOK, AnewOK

\* The model has answered with calls.
LEMMA FollowComplete ==
  ASSUME NEW w \in Work, NEW v \in Work, FollowOK(w), w.todo = <<>>,
         NEW calls \in Seq(CallOf), v.todo = calls,
         v.messages = Append(w.messages, [role |-> "assistant", calls |-> calls])
  PROVE  FollowOK(v)
<1> DEFINE m == w.messages
           x == [role |-> "assistant", calls |-> calls]
           l == v.messages
<1>1. m \in Seq(Turn) /\ x \in Turn /\ x.role = "assistant" /\ x.calls = calls
  BY DEF Work, Turn
<1>2. /\ Len(l) = Len(m) + 1 /\ Len(m) \in Nat
      /\ DOMAIN m = 1..Len(m) /\ DOMAIN l = 1..(Len(m) + 1)
      /\ \A i \in DOMAIN m : l[i] = m[i]
      /\ l[Len(m) + 1] = x /\ Turns(l) = Turns(m) \cup {Len(m) + 1}
      /\ \A i \in Turns(m) : i \in 1..Len(m) /\ m[i].calls \in Seq(CallOf)
      /\ \A i \in Turns(m), n \in Nat : Answered(m, i, n) => Answered(l, i, n)
  BY <1>1, AddedMessage
<1>3. DOMAIN calls = 1..Len(calls) /\ Len(calls) \in Nat
  BY LenProperties
<1> HIDE DEF m, x, l
<1>4. ASSUME NEW i \in Turns(l), NEW n \in DOMAIN l[i].calls
      PROVE  \/ Answered(l, i, n)
             \/ i + n - Len(l) \in DOMAIN calls /\ calls[i + n - Len(l)] = l[i].calls[n]
  <2>1. CASE i = Len(m) + 1
    <3>1. n \in DOMAIN calls /\ n \in Nat
      BY <1>1, <1>2, <1>3, <2>1
    <3>2. i + n - Len(l) = n
      BY <1>2, <2>1, <3>1
    <3>3. QED
      BY <1>1, <1>2, <2>1, <3>1, <3>2
  <2>2. CASE i \in Turns(m)
    <3>1. l[i] = m[i]
      BY <1>2, <2>2
    <3>2. m[i].calls \in Seq(CallOf)
      BY <1>2, <2>2
    <3>3. n \in DOMAIN m[i].calls /\ n \in Nat
      BY <3>1, <3>2, LenProperties
    <3>4. Answered(m, i, n)
      <4>1. \/ Answered(m, i, n)
            \/ i + n - Len(m) \in DOMAIN <<>>
        BY <2>2, <3>3 DEF FollowOK, m
      <4>2. QED
        BY <4>1
    <3>5. QED
      BY <1>2, <2>2, <3>3, <3>4
  <2>3. QED
    BY <1>2, <2>1, <2>2
<1>5. ASSUME NEW k \in DOMAIN calls
      PROVE  \E i \in Turns(l) : Len(l) + k - i \in DOMAIN l[i].calls
                               /\ l[i].calls[Len(l) + k - i] = calls[k]
  <2>1. Len(m) + 1 \in Turns(l) /\ Len(l) + k - (Len(m) + 1) = k
    BY <1>2, <1>3
  <2>2. QED
    BY <1>1, <1>2, <2>1
<1>6. ASSUME NEW j \in DOMAIN l \ Turns(l)
      PROVE  \E i \in Turns(l) : j - i \in DOMAIN l[i].calls /\ Answered(l, i, j - i)
  <2>1. j \in DOMAIN m \ Turns(m)
    BY <1>2
  <2>2. PICK i \in Turns(m) : j - i \in DOMAIN m[i].calls /\ Answered(m, i, j - i)
    BY <2>1 DEF FollowOK, m
  <2>3. m[i].calls \in Seq(CallOf) /\ l[i] = m[i]
    BY <1>2
  <2>4. j - i \in Nat
    BY <2>2, <2>3, LenProperties
  <2>5. QED
    BY <1>2, <2>2, <2>3, <2>4
<1>7. QED
  BY <1>4, <1>5, <1>6 DEF FollowOK, l

\* A tool has answered.
LEMMA FollowResult ==
  ASSUME NEW w \in Work, NEW v \in Work, FollowOK(w), w.todo # <<>>,
         NEW ok \in BOOLEAN, v.todo = Tail(w.todo),
         v.messages = Append(w.messages,
                             [role |-> "tool", call |-> Head(w.todo), ok |-> ok])
  PROVE  FollowOK(v)
<1> DEFINE m == w.messages
           x == [role |-> "tool", call |-> Head(w.todo), ok |-> ok]
           l == v.messages
           q == w.todo
           t == v.todo
<1>0. /\ q \in Seq(CallOf) /\ q # <<>> /\ Head(q) \in CallOf /\ Head(q) = q[1]
      /\ t \in Seq(CallOf) /\ Len(t) = Len(q) - 1 /\ Len(q) \in Nat \ {0}
      /\ \A k \in 1..Len(t) : t[k] = q[k + 1]
      /\ DOMAIN q = 1..Len(q) /\ DOMAIN t = 1..Len(t)
  <2>1. q \in Seq(CallOf) /\ q # <<>>
    BY DEF Work
  <2>2. QED
    BY <2>1, HeadTailProperties, LenProperties, EmptySeq
<1>1. m \in Seq(Turn) /\ x \in Turn /\ x.role = "tool" /\ x.call = q[1]
  BY <1>0 DEF Work, Turn
<1>2. /\ Len(l) = Len(m) + 1 /\ Len(m) \in Nat
      /\ DOMAIN m = 1..Len(m) /\ DOMAIN l = 1..(Len(m) + 1)
      /\ \A i \in DOMAIN m : l[i] = m[i]
      /\ l[Len(m) + 1] = x /\ Turns(l) = Turns(m)
      /\ \A i \in Turns(m) : i \in 1..Len(m) /\ m[i].calls \in Seq(CallOf)
      /\ \A i \in Turns(m), n \in Nat : Answered(m, i, n) => Answered(l, i, n)
  <2>1. Turns(l) = Turns(m) \cup (IF x.role = "assistant" THEN {Len(m) + 1} ELSE {})
    BY <1>1, AddedMessage
  <2>2. x.role # "assistant"
    BY <1>1
  <2>3. Turns(l) = Turns(m)
    BY <2>1, <2>2
  <2>4. QED
    BY <1>1, <2>3, AddedMessage
<1>n. Len(l) = Len(m) + 1 /\ Len(m) \in Nat
  BY <1>2
<1>f. /\ \A i \in Turns(m) : \A n \in DOMAIN m[i].calls :
           \/ Answered(m, i, n)
           \/ i + n - Len(m) \in DOMAIN q /\ q[i + n - Len(m)] = m[i].calls[n]
      /\ \A k \in DOMAIN q :
           \E i \in Turns(m) : Len(m) + k - i \in DOMAIN m[i].calls
                              /\ m[i].calls[Len(m) + k - i] = q[k]
      /\ \A j \in DOMAIN m \ Turns(m) :
           \E i \in Turns(m) : j - i \in DOMAIN m[i].calls /\ Answered(m, i, j - i)
  BY DEF FollowOK
<1> HIDE DEF m, x, l, q, t
<1>3. \A i \in Turns(m) : \A n \in DOMAIN m[i].calls : n \in Nat
  BY <1>2, LenProperties
<1>4. ASSUME NEW i \in Turns(m), NEW n \in DOMAIN m[i].calls,
             i + n = Len(m) + 1, q[1] = m[i].calls[n]
      PROVE  Answered(l, i, n)
  <2>1. l[i] = m[i] /\ i + n \in DOMAIN l
    BY <1>2, <1>4
  <2>2. QED
    BY <1>1, <1>2, <1>4, <2>1 DEF Answered
<1>5. ASSUME NEW i \in Turns(l), NEW n \in DOMAIN l[i].calls
      PROVE  \/ Answered(l, i, n)
             \/ i + n - Len(l) \in DOMAIN t /\ t[i + n - Len(l)] = l[i].calls[n]
  <2>1. i \in Turns(m) /\ l[i] = m[i] /\ n \in DOMAIN m[i].calls /\ n \in Nat /\ i \in Nat
    BY <1>2, <1>3
  <2>2. CASE Answered(m, i, n)
    BY <1>2, <2>1, <2>2
  <2>3. CASE i + n - Len(m) \in DOMAIN q /\ q[i + n - Len(m)] = m[i].calls[n]
    <3>1. CASE i + n - Len(m) = 1
      <4>1. i + n = Len(m) + 1
        BY <1>n, <2>1, <3>1
      <4>2. QED
        BY <1>4, <2>1, <2>3, <3>1, <4>1
    <3>2. CASE i + n - Len(m) # 1
      <4>1. /\ i + n - Len(l) \in 1..Len(t)
            /\ i + n - Len(l) + 1 = i + n - Len(m)
        BY <1>0, <1>2, <2>1, <2>3, <3>2
      <4>2. t[i + n - Len(l)] = q[i + n - Len(m)]
        BY <1>0, <4>1
      <4>3. QED
        BY <1>0, <2>1, <2>3, <4>1, <4>2
    <3>3. QED
      BY <3>1, <3>2
  <2>4. QED
    BY <1>f, <2>1, <2>2, <2>3
<1>6. ASSUME NEW k \in DOMAIN t
      PROVE  \E i \in Turns(l) : Len(l) + k - i \in DOMAIN l[i].calls
                               /\ l[i].calls[Len(l) + k - i] = t[k]
  <2>1. k + 1 \in DOMAIN q /\ t[k] = q[k + 1] /\ k \in Nat
    BY <1>0
  <2>2. PICK i \in Turns(m) : Len(m) + (k + 1) - i \in DOMAIN m[i].calls
                           /\ m[i].calls[Len(m) + (k + 1) - i] = q[k + 1]
    BY <1>f, <2>1
  <2>3. Len(l) + k - i = Len(m) + (k + 1) - i /\ l[i] = m[i] /\ i \in Turns(l)
    <3>1. l[i] = m[i] /\ i \in Turns(l) /\ i \in Int
      BY <1>2
    <3>2. QED
      BY <1>n, <2>1, <3>1
  <2>4. QED
    BY <2>1, <2>2, <2>3
<1>7. ASSUME NEW j \in DOMAIN l \ Turns(l)
      PROVE  \E i \in Turns(l) : j - i \in DOMAIN l[i].calls /\ Answered(l, i, j - i)
  <2>1. CASE j = Len(m) + 1
    <3>1. 1 \in DOMAIN q
      BY <1>0
    <3>2. PICK i \in Turns(m) : Len(m) + 1 - i \in DOMAIN m[i].calls
                             /\ m[i].calls[Len(m) + 1 - i] = q[1]
      BY <1>f, <3>1
    <3>3. l[i] = m[i] /\ i \in Turns(l) /\ i \in Int
      BY <1>2
    <3>4. i + (Len(m) + 1 - i) = Len(m) + 1
      BY <1>n, <3>3
    <3>5. Answered(l, i, Len(m) + 1 - i)
      BY <1>4, <3>2, <3>4
    <3>6. j - i = Len(m) + 1 - i
      BY <1>n, <2>1, <3>3
    <3>7. QED
      BY <3>2, <3>3, <3>5, <3>6
  <2>2. CASE j # Len(m) + 1
    <3>1. j \in DOMAIN m \ Turns(m)
      BY <1>2, <2>2
    <3>2. PICK i \in Turns(m) : j - i \in DOMAIN m[i].calls /\ Answered(m, i, j - i)
      BY <1>f, <3>1
    <3>3. j - i \in Nat /\ l[i] = m[i] /\ i \in Turns(l)
      BY <1>2, <1>3, <3>2
    <3>4. QED
      BY <1>2, <3>2, <3>3
  <2>3. QED
    BY <2>1, <2>2
<1>8. QED
  BY <1>5, <1>6, <1>7 DEF FollowOK, l, t

\* Calls that are to be made are new ones of this round.
LEMMA AnewComplete ==
  ASSUME NEW w \in Work, NEW v \in Work, AnewOK(w), w.pc = "complete",
         NEW calls \in Seq(CallOf), v.todo = calls, v.round = w.round + 1,
         \A k \in DOMAIN calls : calls[k] = [round |-> w.round, i |-> k],
         v.messages = Append(w.messages, [role |-> "assistant", calls |-> calls]),
         v.db = w.db, v.pending = w.pending,
         v.pc = IF calls = <<>> THEN "reply" ELSE "tool"
  PROVE  AnewOK(v)
<1> DEFINE m == w.messages
           x == [role |-> "assistant", calls |-> calls]
           l == v.messages
<1>1. m \in Seq(Turn) /\ x \in Turn /\ x.role = "assistant"
  BY DEF Work, Turn
<1>2. /\ Len(l) = Len(m) + 1 /\ Len(m) \in Nat
      /\ DOMAIN m = 1..Len(m) /\ DOMAIN l = 1..(Len(m) + 1)
      /\ \A i \in DOMAIN m : l[i] = m[i] /\ m[i] \in Turn
      /\ Turns(l) = Turns(m) \cup {Len(m) + 1}
  BY <1>1, AddedMessage
<1>3. DOMAIN calls = 1..Len(calls) /\ Len(calls) \in Nat /\ w.round \in Nat
  BY LenProperties, AgentAssumption DEF Work
<1> HIDE DEF m, x, l
<1>4. /\ \A j \in DOMAIN m \ Turns(m) : m[j].call.round < w.round
      /\ \A j \in DOMAIN m \ Turns(m) : m[j].call \in w.db <=> m[j].ok
      /\ \A y \in w.db : \E j \in DOMAIN m \ Turns(m) : m[j].call = y
      /\ w.pending = {}
  BY DEF AnewOK, m
<1>5. DOMAIN l \ Turns(l) = DOMAIN m \ Turns(m)
  BY <1>2 DEF Turns
<1>6. \A j \in DOMAIN m \ Turns(m) : l[j] = m[j] /\ m[j].call \in CallOf
  BY <1>2 DEF Turns, Turn
<1>7. \A j \in DOMAIN l \ Turns(l) : l[j].call.round < v.round
  BY <1>3, <1>4, <1>5, <1>6 DEF CallOf
<1>8. ASSUME NEW k \in DOMAIN v.todo
      PROVE  /\ v.todo[k].round = v.round - 1 /\ v.todo[k].i = v.todo[1].i + k - 1
             /\ \A j \in DOMAIN l \ Turns(l) :
                  l[j].call.round < v.round - 1 \/ l[j].call.i < v.todo[1].i
  <2>1. v.todo[k].round = w.round /\ v.todo[k].i = k /\ v.todo[1].i = 1 /\ k \in Nat
    BY <1>3
  <2>2. v.round - 1 = w.round
    BY <1>3
  <2>3. QED
    BY <1>4, <1>5, <1>6, <2>1, <2>2
<1>9. v.pc \in {"reply", "tool"} /\ (v.pc = "reply" => v.todo = <<>>)
  OBVIOUS
<1>10. /\ \A j \in DOMAIN l \ Turns(l) : l[j].call \in v.db <=> l[j].ok
       /\ \A y \in v.db : \E j \in DOMAIN l \ Turns(l) : l[j].call = y
  BY <1>4, <1>5, <1>6
<1>11. v.pending = IF v.pc = "commit" THEN {Head(v.todo)} ELSE {}
  BY <1>4, <1>9
<1>12. v.pc \notin {"tool", "commit"} => v.todo = <<>>
  BY <1>9
<1>13. QED
  BY <1>7, <1>8, <1>10, <1>11, <1>12 DEF AnewOK, l

\* A tool has written what it flushes before its commit.
LEMMA AnewExecute ==
  ASSUME NEW w, NEW v, AnewOK(w), w.pc = "tool", v.pc = "commit",
         v.messages = w.messages, v.todo = w.todo, v.round = w.round, v.db = w.db,
         v.pending = w.pending \cup {Head(w.todo)}
  PROVE  AnewOK(v)
<1>1. v.pending = {Head(v.todo)}
  BY DEF AnewOK
<1>2. QED
  BY <1>1 DEF AnewOK

\* A tool has answered, and committed if its answer says so.
LEMMA AnewResult ==
  ASSUME NEW w \in Work, NEW v \in Work, AnewOK(w), w.todo # <<>>, NEW ok \in BOOLEAN,
         w.pc \in {"tool", "commit"}, v.round = w.round, v.todo = Tail(w.todo),
         v.messages = Append(w.messages,
                             [role |-> "tool", call |-> Head(w.todo), ok |-> ok]),
         v.pending = {}, v.pc \in {"tool", "complete", "reply"},
         v.pc # "tool" => Tail(w.todo) = <<>>,
         v.db = IF ok THEN w.db \cup w.pending ELSE w.db, ok => w.pc = "commit"
  PROVE  AnewOK(v)
<1> DEFINE m == w.messages
           x == [role |-> "tool", call |-> Head(w.todo), ok |-> ok]
           l == v.messages
           q == w.todo
           t == v.todo
           c == Head(w.todo)
<1>0. /\ q \in Seq(CallOf) /\ c \in CallOf /\ c = q[1]
      /\ Len(t) = Len(q) - 1 /\ Len(q) \in Nat \ {0}
      /\ \A k \in 1..Len(t) : t[k] = q[k + 1]
      /\ \A k \in 1..Len(q) : q[k] \in CallOf
      /\ DOMAIN q = 1..Len(q) /\ DOMAIN t = 1..Len(t)
  <2>1. q \in Seq(CallOf) /\ q # <<>> /\ t \in Seq(CallOf)
    BY DEF Work
  <2>2. QED
    BY <2>1, HeadTailProperties, LenProperties, EmptySeq, ElementOfSeq
<1>1. m \in Seq(Turn) /\ x \in Turn /\ x.role = "tool" /\ x.call = c /\ x.ok = ok
  BY <1>0 DEF Work, Turn
<1>2. /\ Len(l) = Len(m) + 1 /\ Len(m) \in Nat
      /\ DOMAIN m = 1..Len(m) /\ DOMAIN l = 1..(Len(m) + 1)
      /\ \A i \in DOMAIN m : l[i] = m[i] /\ m[i] \in Turn
      /\ l[Len(m) + 1] = x
      /\ Turns(l) = Turns(m) \cup (IF x.role = "assistant" THEN {Len(m) + 1} ELSE {})
  BY <1>1, AddedMessage
<1>3. w.round \in Nat
  BY AgentAssumption DEF Work
<1>4. v.db = IF ok THEN w.db \cup {c} ELSE w.db
  BY DEF AnewOK
<1>f. /\ \A j \in DOMAIN m \ Turns(m) : m[j].call.round < w.round
      /\ \A k \in DOMAIN q :
           /\ q[k].round = w.round - 1 /\ q[k].i = q[1].i + k - 1
           /\ \A j \in DOMAIN m \ Turns(m) :
                m[j].call.round < w.round - 1 \/ m[j].call.i < q[1].i
      /\ \A j \in DOMAIN m \ Turns(m) : m[j].call \in w.db <=> m[j].ok
      /\ \A y \in w.db : \E j \in DOMAIN m \ Turns(m) : m[j].call = y
  BY DEF AnewOK
<1> HIDE DEF m, x, l, q, t, c
<1>5. DOMAIN l \ Turns(l) = (DOMAIN m \ Turns(m)) \cup {Len(m) + 1}
  <2>1. Turns(l) = Turns(m)
    BY <1>1, <1>2
  <2>2. DOMAIN l = DOMAIN m \cup {Len(m) + 1} /\ Len(m) + 1 \notin DOMAIN m
    BY <1>2
  <2>3. Turns(m) \subseteq DOMAIN m
    BY DEF Turns
  <2>4. QED
    BY <2>1, <2>2, <2>3
<1>6. \A j \in DOMAIN m \ Turns(m) : l[j] = m[j] /\ m[j].call \in CallOf
  BY <1>2 DEF Turns, Turn
<1>7. c.round = w.round - 1 /\ c.i \in Nat /\ c.round \in Nat /\ 1 \in DOMAIN q
  BY <1>0, <1>f DEF CallOf
\* The call is made for the first time.
<1>8. \A j \in DOMAIN m \ Turns(m) : m[j].call # c
  <2> SUFFICES ASSUME NEW j \in DOMAIN m \ Turns(m), m[j].call = c PROVE FALSE
    OBVIOUS
  <2>1. m[j].call.round < w.round - 1 \/ m[j].call.i < q[1].i
    BY <1>7, <1>f
  <2>2. c.round < w.round - 1 \/ c.i < c.i
    BY <1>0, <2>1
  <2>3. QED
    BY <1>3, <1>7, <2>2
<1>9. \A j \in DOMAIN l \ Turns(l) : l[j].call.round < v.round
  <2>1. x.call.round < w.round
    BY <1>1, <1>3, <1>7
  <2>2. QED
    BY <1>2, <1>5, <1>6, <1>f, <2>1
<1>10. ASSUME NEW k \in DOMAIN t
       PROVE  /\ t[k].round = v.round - 1 /\ t[k].i = t[1].i + k - 1
              /\ \A j \in DOMAIN l \ Turns(l) :
                   l[j].call.round < v.round - 1 \/ l[j].call.i < t[1].i
  <2>1. k \in Nat /\ 1 \in DOMAIN t /\ k + 1 \in DOMAIN q /\ 2 \in DOMAIN q
    BY <1>0
  <2>2. t[k] = q[k + 1] /\ t[1] = q[2]
    BY <1>0, <2>1
  <2>3. t[k].round = w.round - 1 /\ t[k].i = q[1].i + k /\ t[1].i = q[1].i + 1
    <3>1. q[k + 1].i = q[1].i + (k + 1) - 1 /\ q[2].i = q[1].i + 2 - 1
          /\ q[k + 1].round = w.round - 1
      BY <1>f, <2>1
    <3>2. q[1].i \in Nat
      BY <1>0, <1>7
    <3>3. QED
      BY <2>1, <2>2, <3>1, <3>2
  <2>4. q[1].i \in Nat /\ q[1] = c
    BY <1>0, <1>7
  <2>5. ASSUME NEW j \in DOMAIN l \ Turns(l)
        PROVE  l[j].call.round < v.round - 1 \/ l[j].call.i < t[1].i
    <3>1. CASE j = Len(m) + 1
      <4>1. l[j].call = c
        BY <1>1, <1>2, <3>1
      <4>2. QED
        BY <2>3, <2>4, <4>1
    <3>2. CASE j \in DOMAIN m \ Turns(m)
      <4>1. l[j].call = m[j].call /\ m[j].call \in CallOf
        BY <1>6, <3>2
      <4>2. m[j].call.round < w.round - 1 \/ m[j].call.i < q[1].i
        BY <1>7, <1>f, <3>2
      <4>3. m[j].call.i \in Nat
        BY <4>1 DEF CallOf
      <4>4. QED
        BY <2>3, <2>4, <4>1, <4>2, <4>3
    <3>3. QED
      BY <1>5, <3>1, <3>2
  <2>6. t[k].i = t[1].i + k - 1
    BY <2>1, <2>3, <2>4
  <2>7. QED
    BY <2>3, <2>5, <2>6
<1>11. ASSUME NEW j \in DOMAIN l \ Turns(l) PROVE l[j].call \in v.db <=> l[j].ok
  <2>1. CASE j = Len(m) + 1
    <3>1. l[j].call = c /\ l[j].ok = ok
      BY <1>1, <1>2, <2>1
    <3>2. c \notin w.db
      BY <1>8, <1>f
    <3>3. QED
      BY <1>4, <3>1, <3>2
  <2>2. CASE j \in DOMAIN m \ Turns(m)
    <3>1. l[j] = m[j] /\ m[j].call # c
      BY <1>6, <1>8, <2>2
    <3>2. QED
      BY <1>4, <1>f, <2>2, <3>1
  <2>3. QED
    BY <1>5, <2>1, <2>2
<1>12. \A y \in v.db : \E j \in DOMAIN l \ Turns(l) : l[j].call = y
  <2> SUFFICES ASSUME NEW y \in v.db PROVE \E j \in DOMAIN l \ Turns(l) : l[j].call = y
    OBVIOUS
  <2>1. CASE y = c
    BY <1>1, <1>2, <1>5, <2>1
  <2>2. CASE y \in w.db
    <3>1. PICK j \in DOMAIN m \ Turns(m) : m[j].call = y
      BY <1>f, <2>2
    <3>2. QED
      BY <1>5, <1>6, <3>1
  <2>3. QED
    BY <1>4, <2>1, <2>2
<1>13. QED
  BY <1>9, <1>10, <1>11, <1>12 DEF AnewOK, l, t

LEMMA ResultStep ==
  ASSUME AgentInv, ResultInv, [Next]_vars
  PROVE  ResultInv'
<1>0. work \in [Requests -> Work] /\ \A r \in Requests : WorkOK(work[r])
  BY DEF AgentInv
<1>1. ASSUME NEW r \in Requests, \A p \in Requests \ {r} : work'[p] = work[p],
             FollowOK(work'[r]), AnewOK(work'[r])
      PROVE  ResultInv'
  BY <1>1 DEF ResultInv
<1>2. ASSUME NEW r \in Requests, Complete(r) PROVE ResultInv'
  <2>0. Within(r)
    BY <1>2, StepWithin
  <2> DEFINE w == work[r]
             v == work'[r]
  <2>1. w \in Work /\ v \in Work /\ FollowOK(w) /\ AnewOK(w) /\ w.pc = "complete"
    BY <1>0, <1>2, <2>0 DEF Within, ResultInv, Complete, At
  <2>2. PICK n \in 0..MaxCalls :
          LET calls == [i \in 1..n |-> Call(r, i)]
          IN  work' = [work EXCEPT
                ![r].messages = Append(@, [role |-> "assistant", calls |-> calls]),
                ![r].todo = calls, ![r].round = @ + 1,
                ![r].pc = IF calls = <<>> THEN "reply" ELSE "tool"]
    BY <1>2 DEF Complete
  <2> DEFINE calls == [i \in 1..n |-> Call(r, i)]
  <2>3. n \in Nat /\ w.round \in Nat
    BY <1>0, AgentAssumption DEF Work
  <2>4. calls \in Seq(CallOf) /\ \A k \in DOMAIN calls : calls[k] = [round |-> w.round, i |-> k]
    BY <2>3 DEF Call, CallOf
  <2>5. v = [w EXCEPT !.messages = Append(w.messages, [role |-> "assistant", calls |-> calls]),
               !.todo = calls, !.round = w.round + 1,
               !.pc = IF calls = <<>> THEN "reply" ELSE "tool"]
    BY <1>0, <2>2
  <2> HIDE DEF w, v, calls
  <2>6. /\ v.messages = Append(w.messages, [role |-> "assistant", calls |-> calls])
        /\ v.todo = calls /\ v.round = w.round + 1 /\ v.db = w.db /\ v.pending = w.pending
        /\ v.pc = IF calls = <<>> THEN "reply" ELSE "tool"
    BY <2>1, <2>5 DEF Work
  <2>7. w.todo = <<>>
    BY <2>1 DEF AnewOK
  <2>8. FollowOK(v)
    BY <2>1, <2>4, <2>6, <2>7, FollowComplete
  <2>9. AnewOK(v)
    BY <2>1, <2>4, <2>6, AnewComplete
  <2>10. QED
    BY <1>1, <2>0, <2>8, <2>9 DEF Within, v
<1>3. ASSUME NEW r \in Requests, Execute(r) PROVE ResultInv'
  <2>0. Within(r)
    BY <1>3, StepWithin
  <2> DEFINE w == work[r]
             v == work'[r]
  <2>1. w \in Work /\ FollowOK(w) /\ AnewOK(w) /\ w.pc = "tool"
    BY <1>0, <1>3 DEF ResultInv, Execute, At
  <2>2. v = [w EXCEPT !.pc = "commit", !.pending = w.pending \cup {Head(w.todo)}]
    BY <1>0, <1>3 DEF Execute
  <2> HIDE DEF w, v
  <2>3. /\ v.messages = w.messages /\ v.todo = w.todo /\ v.round = w.round /\ v.db = w.db
        /\ v.pc = "commit" /\ v.pending = w.pending \cup {Head(w.todo)}
    BY <2>1, <2>2 DEF Work
  <2>4. AnewOK(v)
    BY <2>1, <2>3, AnewExecute
  <2>5. FollowOK(v)
    BY <2>1, <2>3 DEF FollowOK
  <2>6. QED
    BY <1>1, <2>0, <2>4, <2>5 DEF Within, v
<1>4. ASSUME NEW r \in Requests, NEW ok \in BOOLEAN,
             IF ok THEN CommitTool(r) ELSE ToolRaises(r)
      PROVE  ResultInv'
  <2>0. Within(r)
    BY <1>4, StepWithin
  <2> DEFINE w == work[r]
             u == Result(w, ok)
             v == work'[r]
  <2>1. /\ w \in Work /\ v \in Work /\ FollowOK(w) /\ AnewOK(w) /\ WorkOK(w)
        /\ w.pc \in {"tool", "commit"} /\ (ok => w.pc = "commit")
    BY <1>0, <1>4, <2>0 DEF Within, ResultInv, CommitTool, ToolRaises, At
  <2>2. u \in Work
    BY <2>1, ResultType
  <2>3. /\ u.messages = Append(w.messages, [role |-> "tool", call |-> Head(w.todo), ok |-> ok])
        /\ u.todo = Tail(w.todo) /\ u.pending = {} /\ u.round = w.round /\ u.db = w.db
        /\ u.pc = IF Len(w.todo) > 1 THEN "tool"
                  ELSE IF w.round < MaxToolRounds THEN "complete" ELSE "reply"
    BY <2>1 DEF Result, Work
  <2>4. v = IF ok THEN [u EXCEPT !.db = w.db \cup w.pending] ELSE u
    <3>1. CASE ok
      <4>1. work' = [work EXCEPT ![r] = [u EXCEPT !.db = @ \cup work[r].pending]]
        BY <1>4, <3>1 DEF CommitTool
      <4> HIDE DEF u
      <4>2. v = [u EXCEPT !.db = u.db \cup work[r].pending]
        BY <1>0, <4>1
      <4>3. QED
        BY <2>3, <3>1, <4>2
    <3>2. CASE ~ok
      BY <1>0, <1>4, <3>2 DEF ToolRaises
    <3>3. QED
      BY <3>1, <3>2
  <2> HIDE DEF w, u, v
  <2>5. /\ v.messages = u.messages /\ v.todo = u.todo /\ v.pending = {}
        /\ v.round = w.round /\ v.pc = u.pc
        /\ v.db = IF ok THEN w.db \cup w.pending ELSE w.db
    BY <2>2, <2>3, <2>4 DEF Work
  <2>6. w.todo # <<>> /\ w.todo \in Seq(CallOf)
    BY <2>1 DEF WorkOK, Work
  <2>7. FollowOK(v)
    BY <2>1, <2>3, <2>5, <2>6, FollowResult
  <2>8. u.pc # "tool" => Tail(w.todo) = <<>>
    <3>1. ASSUME ~(Len(w.todo) > 1) PROVE Tail(w.todo) = <<>>
      <4> DEFINE q == w.todo
                 rest == Tail(q)
      <4>1. /\ q \in Seq(CallOf) /\ q # <<>> /\ ~(Len(q) > 1) /\ rest \in Seq(CallOf)
            /\ Len(rest) = Len(q) - 1
        BY <2>6, <3>1, HeadTailProperties
      <4>2. Len(q) \in Nat /\ Len(rest) \in Nat
        BY <4>1, LenProperties
      <4> HIDE DEF q, rest
      <4>3. Len(rest) = 0
        BY <4>1, <4>2
      <4>4. rest = <<>>
        BY <4>1, <4>3, EmptySeq
      <4>5. QED
        BY <4>4 DEF rest, q
    <3>2. QED
      BY <2>3, <3>1
  <2>9. u.pc \in {"tool", "complete", "reply"}
    BY <2>3
  <2>10. AnewOK(v)
    BY <2>1, <2>3, <2>5, <2>6, <2>8, <2>9, AnewResult
  <2>11. QED
    BY <1>1, <2>0, <2>7, <2>10 DEF Within, v
<1>5. ASSUME NEW r \in Requests, Fail(r) \/ Reply(r) PROVE ResultInv'
  <2>1. work' = [work EXCEPT ![r] = Idle]
    BY <1>5 DEF Fail, Reply
  <2>2. QED
    BY <1>0, <1>1, <2>1, NoResults
<1>6. ASSUME NEW r \in Requests, NEW c \in Chats, NEW q \in Questions, Ask(r, c, q)
      PROVE  ResultInv'
  <2>1. PICK l \in Lists :
          work' = [work EXCEPT ![r] = [Idle EXCEPT !.pc = "complete", !.chat = c,
                                         !.text = q, !.list = l]]
    BY <1>6 DEF Ask
  <2> DEFINE v == work'[r]
  <2>2. /\ v.messages = Idle.messages /\ v.todo = Idle.todo /\ v.pending = Idle.pending
        /\ v.round = Idle.round /\ v.db = Idle.db /\ v.pc = "complete"
    BY <1>0, <2>1 DEF Idle
  <2>3. Idle.pc = "idle" /\ Idle.todo = <<>> /\ Idle.pending = {}
    BY DEF Idle
  <2> HIDE DEF v
  <2>4. FollowOK(v) /\ AnewOK(v)
    BY <2>2, <2>3, NoResults DEF FollowOK, AnewOK
  <2>5. QED
    BY <1>0, <1>1, <2>1, <2>4 DEF v
<1>7. CASE Restart
  BY <1>7, NoResults DEF Restart, ResultInv
<1>8. CASE UNCHANGED work
  BY <1>8 DEF ResultInv
<1>9. ASSUME NEW c \in Chats, ClearHistory(c) PROVE ResultInv'
  BY <1>8, <1>9 DEF ClearHistory
<1>10. CASE UNCHANGED vars
  BY <1>8, <1>10 DEF vars
<1>11. QED
  <2>1. ASSUME NEW r \in Requests, Step(r) PROVE ResultInv'
    <3>1. CASE CommitTool(r)
      BY <1>4, <3>1
    <3>2. CASE ToolRaises(r)
      BY <1>4, <3>2
    <3>3. QED
      BY <1>2, <1>3, <1>5, <2>1, <3>1, <3>2 DEF Step
  <2>2. QED
    BY <1>6, <1>7, <1>9, <1>10, <2>1 DEF Next

\* The model is told the truth about its tools, for any number of rounds, calls and
\* requests: a result belongs to its call, and says that it worked exactly if what the
\* tool wrote was committed.
THEOREM ResultsStayTrue == Spec => []ResultsAreTrue
<1>1. Init => ResultInv
  BY NoResults DEF Init, ResultInv
<1>2. AgentInv /\ ResultInv => ResultsAreTrue
  <2> SUFFICES ASSUME AgentInv, ResultInv, NEW r \in Requests
               PROVE  LET w == work[r]
                          m == w.messages
                      IN  /\ At(r, "complete") =>
                               \A i \in Turns(m) : \A n \in DOMAIN m[i].calls :
                                 Answered(m, i, n)
                          /\ \A j \in DOMAIN m \ Turns(m) :
                               /\ \E i \in Turns(m) : /\ j - i \in DOMAIN m[i].calls
                                                     /\ Answered(m, i, j - i)
                               /\ m[j].call \in w.db <=> m[j].ok
    BY DEF ResultsAreTrue, Turns
  <2>1. FollowOK(work[r]) /\ AnewOK(work[r])
    BY DEF ResultInv
  <2>2. At(r, "complete") => DOMAIN work[r].todo = {}
    BY <2>1 DEF AnewOK, At
  <2>3. QED
    BY <2>1, <2>2 DEF FollowOK, AnewOK
<1>3. QED
  BY <1>1, <1>2, InitAgent, NextAgent, ResultStep, PTL DEF Spec
=============================================================================
