---------------------------- MODULE MatchProofs -----------------------------
(***************************************************************************)
(* Proofs about the two queues of the match server.  First FifoMatch, for  *)
(* every number of connections, users, taps and faults: what a client and  *)
(* the server believe of a search.  Then ScoreMatch, for every number of   *)
(* users, goroutines, offers, retries and restarts.                        *)
(***************************************************************************)
EXTENDS FifoMatch, ScoreMatch, SequenceTheorems, TLAPS

-----------------------------------------------------------------------------
(* FifoMatch: what holds of one connection.  Until something goes wrong    *)
(* for it, either the answer to its last search or cancel is on its way,   *)
(* one answer and nothing else, or it has none and its requests, in the    *)
(* order in which they will be handled, take it in and out of the queues   *)
(* in turn and leave it where its client believes it to be.                *)

Up == {"queue2", "queue3", "cancel"}
Down == {"retry", "retry3", "matched", "later", "cancelled"}

\* Connection c's agent that waits to be sent, a cancel or not.
Has(s, c, b) == \E i \in 1 .. Len(s) : s[i] = [conn |-> c, cancel |-> b]
InChannel(c, b) == Has(sendq, c, b)

\* Where c will be when its goroutine's own agent has been taken.
Place(c) ==
  IF InChannel(c, TRUE) \/ c \in cancelling THEN "out"
  ELSE IF InChannel(c, FALSE) \/ Queued(c) THEN "in" ELSE "out"

\* Where the requests of s leave a connection that was at a, and that they are
\* searches and cancels in turn.
PlaceAfter(s, a) == IF s = <<>> THEN a ELSE IF s[Len(s)] = "cancel" THEN "out" ELSE "in"
InTurn(s, a) ==
  \A i \in 1 .. Len(s) :
    s[i] = "cancel" <=> (IF i = 1 THEN a = "in" ELSE s[i - 1] # "cancel")

\* The one answer on its way to c.
Making(c) == \E m \in Parties : c \in m /\ making[m] > 0
OneMatch(c) ==
  \A m, n \in Parties :
    c \in m /\ c \in n /\ making[m] > 0 /\ making[n] > 0 => m = n /\ making[m] = 1
OneAnswer(c) ==
  \/ coming[c] = 1 /\ down[c] = <<>> /\ ~Making(c)
  \/ coming[c] = 0 /\ Len(down[c]) = 1 /\ ~Making(c)
  \/ coming[c] = 0 /\ down[c] = <<>> /\ OneMatch(c)

Clean(c) == c \notin gone \cup crossed /\ causes[c] = {}

Asking(c) ==
  /\ first = [conn |-> c, cancel |-> FALSE] => c \notin nearestMap
  /\ InChannel(c, TRUE) => first = [conn |-> c, cancel |-> FALSE]
  /\ InChannel(c, FALSE) => ~Queued(c)
  /\ c \in cancelling => c \in nearestMap /\ ~InChannel(c, TRUE)
  /\ InTurn(up[c], Place(c))
  /\ c \in search <=> PlaceAfter(up[c], Place(c)) = "in"

Answered(c) ==
  /\ ~RequestDue(c) /\ ~Queued(c) /\ OneAnswer(c)
  /\ c \in search <=> down[c] # <<"cancelled">>

View(c) ==
  Clean(c) =>
    /\ first # [conn |-> c, cancel |-> TRUE]
    /\ IF AnswerDue(c) THEN Answered(c) ELSE Asking(c)

Apart(s) == \A i, j \in 1 .. Len(s) : s[i].conn = s[j].conn => i = j
OneEach == Apart(sendq)

FifoInv == FifoTypeOK /\ OneEach /\ \A c \in Conns : View(c)

\* Nothing of c is touched.
Still(c) ==
  /\ up'[c] = up[c] /\ down'[c] = down[c] /\ coming'[c] = coming[c]
  /\ c \in nearestMap' <=> c \in nearestMap
  /\ c \in cancelling' <=> c \in cancelling
  /\ \A b \in BOOLEAN :
       /\ first' = [conn |-> c, cancel |-> b] <=> first = [conn |-> c, cancel |-> b]
       /\ InChannel(c, b)' <=> InChannel(c, b)
  /\ \A m \in Parties : c \in m => making'[m] = making[m]
  /\ c \in search' <=> c \in search
  /\ Clean(c)' => Clean(c)

-----------------------------------------------------------------------------
(* Requests in turn.                                                       *)

\* No request leaves a connection where it is.
LEMMA InTurnEmpty ==
  ASSUME NEW a
  PROVE  InTurn(<<>>, a) /\ PlaceAfter(<<>>, a) = a
BY DEF InTurn, PlaceAfter

\* A client that searches when it is out of the queues, and cancels when it is
\* in one, keeps its requests in turn.
LEMMA InTurnAppend ==
  ASSUME NEW s \in Seq(Up), NEW x \in Up, NEW a \in {"in", "out"}, InTurn(s, a),
         x = "cancel" <=> PlaceAfter(s, a) = "in"
  PROVE  /\ InTurn(Append(s, x), a)
         /\ PlaceAfter(Append(s, x), a) = IF x = "cancel" THEN "out" ELSE "in"
<1> DEFINE t == Append(s, x)
<1>1. /\ Len(t) = Len(s) + 1 /\ t[Len(t)] = x /\ t # <<>>
      /\ \A i \in 1 .. Len(s) : t[i] = s[i]
  OBVIOUS
<1>2. PICK n \in Nat : n = Len(s)
  OBVIOUS
<1> HIDE DEF t
<1>3. ASSUME NEW i \in 1 .. n + 1
      PROVE  t[i] = "cancel" <=> (IF i = 1 THEN a = "in" ELSE t[i - 1] # "cancel")
  <2>1. CASE i <= n
    <3>1. s[i] = "cancel" <=> (IF i = 1 THEN a = "in" ELSE s[i - 1] # "cancel")
      BY <2>1, <1>2 DEF InTurn
    <3>2. t[i] = s[i] /\ (i # 1 => t[i - 1] = s[i - 1])
      BY <2>1, <1>1, <1>2
    <3> QED BY <3>1, <3>2
  <2>2. CASE i = n + 1 /\ n = 0
    BY <2>2, <1>1, <1>2 DEF PlaceAfter
  <2>3. CASE i = n + 1 /\ n # 0
    <3>1. s # <<>> /\ t[i - 1] = s[n] /\ t[i] = x /\ i # 1
      BY <2>3, <1>1, <1>2
    <3>2. PlaceAfter(s, a) = "in" <=> s[n] # "cancel"
      BY <3>1, <1>2 DEF PlaceAfter
    <3> QED BY <3>1, <3>2
  <2> QED BY <2>1, <2>2, <2>3
<1>4. InTurn(t, a)
  BY <1>1, <1>2, <1>3 DEF InTurn
<1>5. PlaceAfter(t, a) = IF x = "cancel" THEN "out" ELSE "in"
  BY <1>1 DEF PlaceAfter
<1> QED BY <1>4, <1>5 DEF t

\* The oldest request takes the connection to the other place, and the others
\* go on from there.
LEMMA InTurnTail ==
  ASSUME NEW s \in Seq(Up), s # <<>>, NEW a \in {"in", "out"}, InTurn(s, a)
  PROVE  /\ Head(s) = "cancel" <=> a = "in"
         /\ InTurn(Tail(s), IF a = "in" THEN "out" ELSE "in")
         /\ PlaceAfter(Tail(s), IF a = "in" THEN "out" ELSE "in") = PlaceAfter(s, a)
<1> DEFINE t == Tail(s)
           b == IF a = "in" THEN "out" ELSE "in"
<1>1. PICK n \in Nat : n + 1 = Len(s)
  OBVIOUS
<1>2. /\ Len(t) = n /\ \A i \in 1 .. n : t[i] = s[i + 1]
      /\ Head(s) = s[1]
  BY <1>1
<1>3. s[1] = "cancel" <=> a = "in"
  BY <1>1 DEF InTurn
<1> HIDE DEF t
<1>4. ASSUME NEW i \in 1 .. n
      PROVE  t[i] = "cancel" <=> (IF i = 1 THEN b = "in" ELSE t[i - 1] # "cancel")
  <2>1. s[i + 1] = "cancel" <=> s[i] # "cancel"
    BY <1>1 DEF InTurn
  <2>2. CASE i = 1
    BY <2>1, <2>2, <1>2, <1>3
  <2>3. CASE i # 1
    <3>1. t[i - 1] = s[i]
      BY <2>3, <1>2
    <3> QED BY <2>1, <2>3, <3>1, <1>2
  <2> QED BY <2>2, <2>3
<1>5. InTurn(t, b)
  BY <1>2, <1>4 DEF InTurn
<1>6. PlaceAfter(t, b) = PlaceAfter(s, a)
  <2>1. CASE n = 0
    <3>1. t = <<>>
      <4>1. t \in Seq(Up) /\ Len(t) = 0
        BY <2>1, <1>1 DEF t
      <4> QED BY ONLY <4>1, EmptySeq
    <3>2. s[Len(s)] = s[1]
      BY <2>1, <1>1
    <3> QED BY <3>1, <3>2, <1>3 DEF PlaceAfter
  <2>2. CASE n # 0
    <3>1. t # <<>> /\ t[Len(t)] = s[Len(s)]
      BY <2>2, <1>1, <1>2
    <3> QED BY <3>1 DEF PlaceAfter
  <2> QED BY <2>1, <2>2
<1> QED BY <1>2, <1>3, <1>5, <1>6 DEF t

-----------------------------------------------------------------------------
(* Agents that wait.                                                       *)

\* A goroutine that waits to send has its agent in the channel, a cancel or not.
LEMMA HasAgent ==
  ASSUME NEW s \in Seq(Agent), NEW c
  PROVE  (\E i \in DOMAIN s : s[i].conn = c) <=> Has(s, c, TRUE) \/ Has(s, c, FALSE)
<1>1. ASSUME NEW i \in DOMAIN s, s[i].conn = c PROVE Has(s, c, TRUE) \/ Has(s, c, FALSE)
  <2>1. s[i] \in Agent /\ i \in 1 .. Len(s)
    OBVIOUS
  <2>2. s[i] = [conn |-> c, cancel |-> TRUE] \/ s[i] = [conn |-> c, cancel |-> FALSE]
    BY <2>1, <1>1 DEF Agent
  <2> QED BY <2>1, <2>2 DEF Has
<1>2. ASSUME NEW b \in BOOLEAN, Has(s, c, b) PROVE \E i \in DOMAIN s : s[i].conn = c
  <2>1. PICK i \in 1 .. Len(s) : s[i] = [conn |-> c, cancel |-> b]
    BY <1>2 DEF Has
  <2> QED BY <2>1
<1> QED BY <1>1, <1>2

\* Taking the oldest agent out leaves everybody else's, and no other of its
\* connection.
LEMMA HasTail ==
  ASSUME NEW s \in Seq(Agent), s # <<>>, Apart(s), NEW c, NEW b \in BOOLEAN
  PROVE  /\ Has(Tail(s), c, b) <=> c # Head(s).conn /\ Has(s, c, b)
         /\ Has(s, Head(s).conn, Head(s).cancel)
         /\ Apart(Tail(s))
<1> DEFINE t == Tail(s)
<1>1. PICK n \in Nat : n + 1 = Len(s)
  OBVIOUS
<1>2. /\ Len(t) = n /\ \A i \in 1 .. n : t[i] = s[i + 1]
      /\ Head(s) = s[1]
  BY <1>1
<1> HIDE DEF t
<1>3. ASSUME Has(t, c, b) PROVE c # Head(s).conn /\ Has(s, c, b)
  <2>1. PICK i \in 1 .. n : t[i] = [conn |-> c, cancel |-> b]
    BY <1>2, <1>3 DEF Has
  <2>2. i + 1 \in 1 .. Len(s) /\ s[i + 1] = [conn |-> c, cancel |-> b]
    BY <2>1, <1>1, <1>2
  <2>3. s[i + 1].conn = c /\ 1 \in 1 .. Len(s) /\ i + 1 # 1
    BY <2>2
  <2> QED BY <2>2, <2>3, <1>2 DEF Has, Apart
<1>4. ASSUME c # Head(s).conn, Has(s, c, b) PROVE Has(t, c, b)
  <2>1. PICK i \in 1 .. Len(s) : s[i] = [conn |-> c, cancel |-> b]
    BY <1>4 DEF Has
  <2>2. i # 1
    BY <2>1, <1>2, <1>4
  <2>3. PICK j \in 1 .. n : j + 1 = i
    BY <2>2, <1>1
  <2> QED BY <2>1, <2>3, <1>2 DEF Has
<1>5. Has(s, Head(s).conn, Head(s).cancel)
  <2>1. s[1] \in Agent /\ 1 \in 1 .. Len(s)
    BY <1>1
  <2>2. s[1] = [conn |-> s[1].conn, cancel |-> s[1].cancel]
    BY <2>1 DEF Agent
  <2> QED BY <2>1, <2>2, <1>2 DEF Has
<1>6. Apart(t)
  <2> SUFFICES ASSUME NEW i \in 1 .. n, NEW j \in 1 .. n, t[i].conn = t[j].conn PROVE i = j
    BY <1>2 DEF Apart
  <2>1. i + 1 \in 1 .. Len(s) /\ j + 1 \in 1 .. Len(s) /\ s[i + 1].conn = s[j + 1].conn
    BY <1>1, <1>2
  <2>2. i + 1 = j + 1
    BY ONLY <2>1, Apart(s) DEF Apart
  <2> QED BY <2>2
<1> QED BY <1>3, <1>4, <1>5, <1>6 DEF t

\* An agent of a connection that had none is the only one of it.
LEMMA HasAppend ==
  ASSUME NEW s \in Seq(Agent), Apart(s), NEW e \in Conns, NEW k \in BOOLEAN,
         ~(\E i \in DOMAIN s : s[i].conn = e), NEW c, NEW b \in BOOLEAN
  PROVE  /\ Has(Append(s, [conn |-> e, cancel |-> k]), c, b) <=>
              Has(s, c, b) \/ (c = e /\ b = k)
         /\ Apart(Append(s, [conn |-> e, cancel |-> k]))
<1> DEFINE x == [conn |-> e, cancel |-> k]
           t == Append(s, x)
<1>1. PICK n \in Nat : n = Len(s)
  OBVIOUS
<1>2. Len(t) = n + 1 /\ t[n + 1] = x /\ \A i \in 1 .. n : t[i] = s[i]
  BY <1>1
<1>3. \A i \in 1 .. n : s[i].conn # e
  BY <1>1
<1> HIDE DEF t
<1>4. ASSUME Has(t, c, b) PROVE Has(s, c, b) \/ (c = e /\ b = k)
  <2>1. PICK i \in 1 .. n + 1 : t[i] = [conn |-> c, cancel |-> b]
    BY <1>2, <1>4 DEF Has
  <2>2. CASE i <= n
    BY <2>1, <2>2, <1>1, <1>2 DEF Has
  <2>3. CASE i = n + 1
    BY <2>1, <2>3, <1>2
  <2> QED BY <2>2, <2>3
<1>5. ASSUME Has(s, c, b) PROVE Has(t, c, b)
  <2>1. PICK i \in 1 .. n : s[i] = [conn |-> c, cancel |-> b]
    BY <1>1, <1>5 DEF Has
  <2> QED BY <2>1, <1>2 DEF Has
<1>6. ASSUME c = e, b = k PROVE Has(t, c, b)
  BY <1>2, <1>6 DEF Has
<1>7. Apart(t)
  <2> SUFFICES ASSUME NEW i \in 1 .. n + 1, NEW j \in 1 .. n + 1, t[i].conn = t[j].conn
               PROVE  i = j
    BY <1>2 DEF Apart
  <2>1. CASE i <= n /\ j <= n
    <3>1. s[i].conn = s[j].conn /\ i \in 1 .. Len(s) /\ j \in 1 .. Len(s)
      BY <2>1, <1>1, <1>2
    <3> QED BY ONLY <3>1, Apart(s) DEF Apart
  <2>2. CASE i = n + 1 /\ j <= n
    BY <2>2, <1>2, <1>3
  <2>3. CASE i <= n /\ j = n + 1
    BY <2>3, <1>2, <1>3
  <2> QED BY <2>1, <2>2, <2>3
<1> QED BY <1>4, <1>5, <1>6, <1>7 DEF t

-----------------------------------------------------------------------------
(* Parties on their way.                                                   *)

\* A match begun is one for its players, and none of anybody else's.
LEMMA OneMore ==
  ASSUME making \in [Parties -> Nat], NEW k \in Parties,
         making' = [making EXCEPT ![k] = @ + 1], NEW c \in Conns
  PROVE  /\ c \notin k => \A m \in Parties : c \in m => making'[m] = making[m]
         /\ c \in k => Making(c)' /\ (~Making(c) => OneMatch(c)')
         /\ making' \in [Parties -> Nat]
<1>1. /\ making' \in [Parties -> Nat] /\ making'[k] = making[k] + 1
      /\ \A m \in Parties : m # k => making'[m] = making[m]
  OBVIOUS
<1>2. ASSUME c \in k PROVE Making(c)'
  BY <1>1, <1>2 DEF Making
<1>3. ASSUME c \in k, ~Making(c) PROVE OneMatch(c)'
  <2>1. \A m \in Parties : c \in m => making[m] = 0
    BY <1>3 DEF Making
  <2>2. \A m \in Parties : c \in m /\ making'[m] > 0 => m = k
    BY <2>1, <1>1
  <2>3. making'[k] = 1
    BY <2>1, <1>1, <1>3
  <2> QED BY <2>2, <2>3 DEF OneMatch
<1> QED BY <1>1, <1>2, <1>3

\* A match made or failed was on its way, and was the last if there was only
\* one.
LEMMA OneLess ==
  ASSUME making \in [Parties -> Nat], NEW k \in Parties, making[k] > 0,
         making' = [making EXCEPT ![k] = @ - 1], NEW c \in Conns
  PROVE  /\ c \notin k => \A m \in Parties : c \in m => making'[m] = making[m]
         /\ c \in k => Making(c) /\ (OneMatch(c) => ~Making(c)')
         /\ making' \in [Parties -> Nat]
<1>1. /\ making' \in [Parties -> Nat] /\ making'[k] = making[k] - 1
      /\ \A m \in Parties : m # k => making'[m] = making[m]
  OBVIOUS
<1>2. ASSUME c \in k PROVE Making(c)
  BY <1>2 DEF Making
<1>3. ASSUME c \in k, OneMatch(c) PROVE ~Making(c)'
  <2>1. making[k] = 1 /\ \A m \in Parties : c \in m /\ making[m] > 0 => m = k
    BY <1>3 DEF OneMatch
  <2> QED BY <2>1, <1>1 DEF Making
<1> QED BY <1>1, <1>2, <1>3

-----------------------------------------------------------------------------
(* What a step is for one connection.                                      *)

\* The types of what belongs to one connection.
LEMMA OfConn ==
  ASSUME FifoInv, NEW c \in Conns
  PROVE  /\ up[c] \in Seq(Up) /\ down[c] \in Seq(Down) /\ coming[c] \in Nat
         /\ View(c) /\ Place(c) \in {"in", "out"}
         /\ Sending(c) <=> InChannel(c, TRUE) \/ InChannel(c, FALSE)
         /\ AnswerDue(c) <=> coming[c] > 0 \/ down[c] # <<>> \/ Making(c)
<1>1. up[c] \in Seq(Up) /\ down[c] \in Seq(Down) /\ coming[c] \in Nat /\ sendq \in Seq(Agent)
  BY DEF FifoInv, FifoTypeOK, Up, Down
<1>2. Sending(c) <=> InChannel(c, TRUE) \/ InChannel(c, FALSE)
  BY <1>1, HasAgent DEF Sending, InChannel
<1>3. Place(c) \in {"in", "out"}
  BY DEF Place
<1> QED BY <1>1, <1>2, <1>3 DEF FifoInv, AnswerDue, Making

\* What holds of a connection holds after a step that does not concern it.
LEMMA StillView ==
  ASSUME FifoInv, FifoTypeOK', NEW c \in Conns, Still(c)
  PROVE  View(c)'
<1>1. CASE ~Clean(c)'
  BY <1>1 DEF View
<1>2. CASE Clean(c)'
  <2>1. /\ up'[c] = up[c] /\ down'[c] = down[c] /\ coming'[c] = coming[c]
        /\ c \in nearestMap' <=> c \in nearestMap
        /\ c \in search' <=> c \in search
        /\ c \in cancelling' <=> c \in cancelling
        /\ \A m \in Parties : c \in m => making'[m] = making[m]
    BY DEF Still
  <2>2. /\ InChannel(c, TRUE)' <=> InChannel(c, TRUE)
        /\ InChannel(c, FALSE)' <=> InChannel(c, FALSE)
        /\ first' = [conn |-> c, cancel |-> TRUE] <=> first = [conn |-> c, cancel |-> TRUE]
        /\ first' = [conn |-> c, cancel |-> FALSE] <=> first = [conn |-> c, cancel |-> FALSE]
    BY DEF Still
  <2>3. View(c) /\ Clean(c)
    BY <1>2 DEF Still, FifoInv
  <2>4. /\ Making(c)' <=> Making(c)
        /\ OneMatch(c)' <=> OneMatch(c)
    BY <2>1 DEF Making, OneMatch
  <2>5. Sending(c)' <=> Sending(c)
    <3>1. sendq \in Seq(Agent) /\ sendq' \in Seq(Agent)
      BY DEF FifoInv, FifoTypeOK
    <3> QED BY <3>1, <2>2, HasAgent DEF Sending, InChannel
  <2>6. /\ Queued(c)' <=> Queued(c)
        /\ RequestDue(c)' <=> RequestDue(c)
        /\ AnswerDue(c)' <=> AnswerDue(c)
    BY <2>1, <2>2, <2>4, <2>5 DEF Queued, RequestDue, AnswerDue, Making, Busy
  <2>7. Place(c)' = Place(c)
    BY <2>1, <2>2, <2>6 DEF Place
  <2>8. CASE AnswerDue(c)
    BY <2>1, <2>2, <2>3, <2>4, <2>6, <2>8 DEF View, Answered, OneAnswer
  <2>9. CASE ~AnswerDue(c)
    <3>1. InTurn(up[c], Place(c))' /\ PlaceAfter(up[c], Place(c))' = PlaceAfter(up[c], Place(c))
      BY <2>1, <2>3, <2>7, <2>9 DEF View, Asking, InTurn, PlaceAfter
    <3> QED BY <3>1, <2>1, <2>2, <2>3, <2>6, <2>9 DEF View, Asking
  <2> QED BY <2>8, <2>9
<1> QED BY <1>1, <1>2

\* One who has an answer coming is asking for nothing, or has crossed with it.
LEMMA NotBoth ==
  ASSUME Observe, NEW c \in Conns, Clean(c)', AnswerDue(c)'
  PROVE  ~RequestDue(c)'
BY DEF Observe, Clean

\* One who has an answer coming asks for nothing.
LEMMA AnswerOnly ==
  ASSUME FifoInv, NEW c \in Conns, Clean(c), AnswerDue(c)
  PROVE  Answered(c) /\ first # [conn |-> c, cancel |-> TRUE]
BY DEF FifoInv, View

\* One who asks, or is queued, has no answer coming.
LEMMA AskingOnly ==
  ASSUME FifoInv, NEW c \in Conns, Clean(c), RequestDue(c) \/ Queued(c)
  PROVE  /\ Asking(c) /\ first # [conn |-> c, cancel |-> TRUE]
         /\ coming[c] = 0 /\ down[c] = <<>> /\ ~Making(c) /\ ~AnswerDue(c)
<1>1. ~AnswerDue(c)
  BY AnswerOnly DEF Answered
<1>2. Asking(c) /\ first # [conn |-> c, cancel |-> TRUE]
  <2>1. View(c)
    BY DEF FifoInv
  <2> QED BY ONLY <1>1, <2>1, Clean(c) DEF View
<1>3. coming[c] \in Nat /\ (AnswerDue(c) <=> coming[c] > 0 \/ down[c] # <<>> \/ Making(c))
  BY OfConn
<1> QED BY <1>1, <1>2, <1>3

\* The answer to a search goes on its way when nothing else is asked.
LEMMA SearchAnswered ==
  ASSUME Observe, NEW c \in Conns, Clean(c)', AnswerDue(c)', ~Queued(c)', OneAnswer(c)',
         first' # [conn |-> c, cancel |-> TRUE], c \in search' <=> down'[c] # <<"cancelled">>
  PROVE  View(c)'
BY NotBoth DEF View, Answered

-----------------------------------------------------------------------------
(* Types.                                                                  *)

\* Nothing is an agent and NoAgent.
LEMMA NoAgentApart ==
  ASSUME NEW c \in Conns, NEW b \in BOOLEAN
  PROVE  [conn |-> c, cancel |-> b] \in Agent /\ [conn |-> c, cancel |-> b] # NoAgent
<1>1. [conn |-> c, cancel |-> b] \in [conn : Conns, cancel : BOOLEAN]
  OBVIOUS
<1> QED BY <1>1, FifoAssumption DEF Agent

\* Nobody has asked for anything in the beginning.
LEMMA FifoInitInv == FifoInit => FifoInv
<1> SUFFICES ASSUME FifoInit PROVE FifoInv
  OBVIOUS
<1>1. /\ <<>> \in Seq(Up) /\ <<>> \in Seq(Down) /\ <<>> \in Seq(Agent) /\ Len(sendq) = 0
  BY DEF FifoInit
<1>2. FifoTypeOK
  <2>1. up \in [Conns -> Seq(Up)] /\ down \in [Conns -> Seq(Down)] /\ sendq \in Seq(Agent)
    BY <1>1 DEF FifoInit
  <2>2. /\ taps \in [Conns -> Nat] /\ \A c \in Conns : taps[c] <= MaxTaps(c)
        /\ making \in [Parties -> Nat] /\ coming \in [Conns -> Nat]
    BY FifoAssumption DEF FifoInit
  <2>3. first \in Agent \cup {NoAgent} /\ worker = "first" /\ first = NoAgent
        /\ faults \in 0 .. MaxFaults
    BY FifoAssumption DEF FifoInit
  <2>4. /\ {search, gone, shut, cancelling, nearestMap, crossed} \subseteq SUBSET Conns
        /\ \A c, d \in nearestMap : Same(c, d) => c = d
        /\ causes \in [Conns -> SUBSET {"fault", "later", "shared"}]
    BY DEF FifoInit
  <2> QED BY <2>1, <2>2, <2>3, <2>4 DEF FifoTypeOK, Up, Down
<1>3. OneEach
  BY <1>1 DEF OneEach, Apart
<1>4. ASSUME NEW c \in Conns PROVE View(c)
  <2>1. /\ up[c] = <<>> /\ down[c] = <<>> /\ coming[c] = 0 /\ c \notin search
        /\ \A m \in Parties : making[m] = 0
        /\ first = NoAgent /\ nearestMap = {} /\ cancelling = {}
    BY DEF FifoInit
  <2>2. ~AnswerDue(c)
    BY <2>1 DEF AnswerDue
  <2>3. ~InChannel(c, TRUE) /\ ~InChannel(c, FALSE)
    BY <1>1 DEF InChannel, Has
  <2>4. first # [conn |-> c, cancel |-> TRUE] /\ first # [conn |-> c, cancel |-> FALSE]
    BY <2>1, NoAgentApart
  <2>5. Place(c) = "out"
    BY <2>1, <2>3, <2>4 DEF Place, Queued
  <2>6. InTurn(up[c], Place(c)) /\ PlaceAfter(up[c], Place(c)) = "out"
    BY <2>1, <2>5, InTurnEmpty
  <2> QED BY <2>1, <2>2, <2>3, <2>4, <2>6 DEF View, Asking
<1> QED BY <1>2, <1>3, <1>4 DEF FifoInv

\* The parts of the type invariant, for steps that leave most of them alone.
Sets == {search, gone, shut, cancelling, nearestMap, crossed} \subseteq SUBSET Conns
Tapped == taps \in [Conns -> Nat] /\ \A c \in Conns : taps[c] <= MaxTaps(c)
Packets == up \in [Conns -> Seq(Up)] /\ down \in [Conns -> Seq(Down)]
Worker ==
  /\ worker \in {"first", "push", "second"}
  /\ first \in Agent \cup {NoAgent} /\ (first = NoAgent <=> worker = "first")
Score ==
  /\ coming \in [Conns -> Nat] /\ making \in [Parties -> Nat]
  /\ \A c, d \in nearestMap : Same(c, d) => c = d
Notes == faults \in 0 .. MaxFaults /\ causes \in [Conns -> SUBSET {"fault", "later", "shared"}]

\* The type invariant is its parts.
LEMMA TypeParts ==
  FifoTypeOK <=> Sets /\ Tapped /\ Packets /\ sendq \in Seq(Agent) /\ Worker /\ Score /\ Notes
BY DEF FifoTypeOK, Sets, Tapped, Packets, Worker, Score, Notes, Up, Down

\* The parts after a step make the type invariant after it.
LEMMA PartsNext ==
  ASSUME Sets', Tapped', Packets', sendq' \in Seq(Agent), Worker', Score', Notes'
  PROVE  FifoTypeOK'
BY DEF FifoTypeOK, Sets, Tapped, Packets, Worker, Score, Notes, Up, Down

\* The helpers of the actions keep the types.
LEMMA AsksType ==
  ASSUME Packets, NEW c \in Conns, NEW x \in Up, Asks(c, x)
  PROVE  /\ up' \in [Conns -> Seq(Up)] /\ up'[c] = Append(up[c], x)
         /\ \A d \in Conns \ {c} : up'[d] = up[d]
BY DEF Packets, Asks

\* An answer is appended for those who are there.
LEMMA TellType ==
  ASSUME Packets, NEW S \in SUBSET Conns, NEW x \in Down, Tell(S, x)
  PROVE  /\ down' \in [Conns -> Seq(Down)]
         /\ \A c \in Conns :
              down'[c] = IF c \in S \ gone THEN Append(down[c], x) ELSE down[c]
BY DEF Packets, Tell

\* What is held against a connection is not forgotten.
LEMMA SpoiltType ==
  ASSUME Notes, NEW S, NEW why \in {"fault", "later", "shared"}, causes' = Spoilt(S, why)
  PROVE  /\ causes' \in [Conns -> SUBSET {"fault", "later", "shared"}]
         /\ \A c \in Conns : /\ causes[c] \subseteq causes'[c]
                             /\ c \in S => causes'[c] # {}
BY DEF Notes, Spoilt

\* The faults stay within their bound.
LEMMA FaultType ==
  ASSUME Notes, Fault
  PROVE  faults' \in 0 .. MaxFaults
BY FifoAssumption DEF Notes, Fault

\* Who has crossed with an answer stays noted.
LEMMA ObserveType ==
  ASSUME Sets, Observe
  PROVE  crossed' \in SUBSET Conns /\ crossed \subseteq crossed'
BY DEF Sets, Observe

\* The taps stay within their bound.
LEMMA TapType ==
  ASSUME Tapped, NEW c \in Conns, Tap(c)
  PROVE  Tapped'
BY FifoAssumption DEF Tapped, Tap

\* A step that only adds to what is held against a connection.
LEMMA CleanBefore ==
  ASSUME FifoTypeOK, Observe, gone \subseteq gone', NEW c \in Conns, causes[c] \subseteq causes'[c],
         Clean(c)'
  PROVE  Clean(c)
BY DEF Clean, Observe

\* A step of others, which may add to what is held against the connection.
LEMMA LeftAlone ==
  ASSUME FifoInv, Observe, gone \subseteq gone', NEW c \in Conns, causes[c] \subseteq causes'[c],
         UNCHANGED <<sendq, first>>,
         up'[c] = up[c], down'[c] = down[c], coming'[c] = coming[c],
         Clean(c)' => (c \in nearestMap' <=> c \in nearestMap),
         c \in cancelling' <=> c \in cancelling,
         c \in search' <=> c \in search,
         \A m \in Parties : c \in m => making'[m] = making[m],
         FifoTypeOK'
  PROVE  View(c)'
<1>1. CASE ~Clean(c)'
  BY <1>1 DEF View
<1>2. CASE Clean(c)'
  <2>1. Still(c)
    BY <1>2, CleanBefore DEF Still, InChannel, FifoInv
  <2> QED BY <2>1, StillView
<1> QED BY <1>1, <1>2

-----------------------------------------------------------------------------
(* The clients.                                                            *)

\* A tap asks for a search, or breaks one off.
LEMMA TapView ==
  ASSUME FifoInv, FifoTypeOK', NEW e \in Conns, NEW x \in Up, Asks(e, x), Observe,
         UNCHANGED <<gone, down, handlerVars, matcherVars, scoreVars, making, causes>>,
         \/ x # "cancel" /\ e \notin search /\ search' = search \cup {e}
         \/ x = "cancel" /\ e \in search /\ search' = search \ {e},
         NEW c \in Conns
  PROVE  View(c)'
<1>1. /\ up'[e] = Append(up[e], x)
      /\ \A d \in Conns \ {e} : up'[d] = up[d]
  BY AsksType, TypeParts DEF FifoInv
<1>2. CASE c # e
  BY <1>1, <1>2, LeftAlone DEF handlerVars, matcherVars, scoreVars
<1>3. CASE c = e /\ Clean(c)'
  <2>1. Clean(c)
    BY <1>3, CleanBefore DEF FifoInv
  <2>2. up'[c] # <<>>
    BY <1>1, <1>3, OfConn
  <2>3. RequestDue(c)'
    BY <2>2 DEF RequestDue, Busy
  <2>4. ~AnswerDue(c)'
    BY <2>3, <1>3, NotBoth
  <2>5. ~AnswerDue(c)
    BY <2>4 DEF AnswerDue, handlerVars, scoreVars
  <2>6. Asking(c) /\ first # [conn |-> c, cancel |-> TRUE]
    <3>1. View(c)
      BY DEF FifoInv
    <3> QED BY ONLY <3>1, <2>1, <2>5 DEF View
  <2>7. Place(c)' = Place(c)
    BY DEF Place, InChannel, Queued, handlerVars, matcherVars, scoreVars
  <2>8. x = "cancel" <=> PlaceAfter(up[c], Place(c)) = "in"
    BY <2>6, <1>3 DEF Asking
  <2>9. up[c] \in Seq(Up) /\ Place(c) \in {"in", "out"}
    BY OfConn
  <2>10. /\ InTurn(Append(up[c], x), Place(c))
         /\ PlaceAfter(Append(up[c], x), Place(c)) = IF x = "cancel" THEN "out" ELSE "in"
    BY <2>6, <2>8, <2>9, InTurnAppend DEF Asking
  <2>11. /\ InTurn(up[c], Place(c))'
         /\ PlaceAfter(up[c], Place(c))' = IF x = "cancel" THEN "out" ELSE "in"
    <3>1. up'[c] = Append(up[c], x)
      BY <1>1, <1>3
    <3> QED BY ONLY <2>7, <2>10, <3>1 DEF InTurn, PlaceAfter
  <2>12. c \in search' <=> x # "cancel"
    BY <1>3
  <2>13. Asking(c)'
    BY <2>6, <2>11, <2>12 DEF Asking, InChannel, Queued, handlerVars, matcherVars, scoreVars
  <2> QED BY <2>4, <2>6, <2>13 DEF View, handlerVars, matcherVars
<1>4. CASE c = e /\ ~Clean(c)'
  BY <1>4 DEF View
<1> QED BY <1>2, <1>3, <1>4

\* online_button asks for a search when the client is in none.
LEMMA OnlineInv ==
  ASSUME FifoInv, NEW e \in Conns, Online(e)
  PROVE  FifoInv'
<1>1. PICK x \in Up : Asks(e, x) /\ x # "cancel"
  BY DEF Online, Up
<1>2. /\ Tap(e) /\ e \notin search /\ search' = search \cup {e}
      /\ UNCHANGED <<gone, down, handlerVars, matcherVars, scoreVars, making, faults, causes>> /\ Observe
  BY DEF Online
<1>3. FifoTypeOK'
  <2>1. Packets' /\ Tapped'
    BY <1>1, <1>2, AsksType, TapType, TypeParts DEF FifoInv, Packets
  <2>2. Sets'
    BY <1>2, ObserveType, TypeParts DEF FifoInv, Sets, handlerVars, scoreVars
  <2>3. sendq' \in Seq(Agent) /\ Worker' /\ Score' /\ Notes'
    BY <1>2, TypeParts DEF FifoInv, Worker, Score, Notes, handlerVars, matcherVars, scoreVars
  <2> QED BY <2>1, <2>2, <2>3, PartsNext
<1>4. \A c \in Conns : View(c)'
  BY <1>1, <1>2, <1>3, TapView
<1>5. OneEach'
  BY <1>2 DEF FifoInv, OneEach, handlerVars, matcherVars
<1> QED BY <1>3, <1>4, <1>5 DEF FifoInv

\* back_button asks for the end of the search the client is in.
LEMMA BackInv ==
  ASSUME FifoInv, NEW e \in Conns, Back(e)
  PROVE  FifoInv'
<1>1. "cancel" \in Up /\ Asks(e, "cancel")
  BY DEF Back, Up
<1>2. /\ Tap(e) /\ e \in search /\ search' = search \ {e}
      /\ UNCHANGED <<gone, down, handlerVars, matcherVars, scoreVars, making, faults, causes>> /\ Observe
  BY DEF Back
<1>3. FifoTypeOK'
  <2>1. Packets' /\ Tapped'
    BY <1>1, <1>2, AsksType, TapType, TypeParts DEF FifoInv, Packets
  <2>2. Sets'
    BY <1>2, ObserveType, TypeParts DEF FifoInv, Sets, handlerVars, scoreVars
  <2>3. sendq' \in Seq(Agent) /\ Worker' /\ Score' /\ Notes'
    BY <1>2, TypeParts DEF FifoInv, Worker, Score, Notes, handlerVars, matcherVars, scoreVars
  <2> QED BY <2>1, <2>2, <2>3, PartsNext
<1>4. \A c \in Conns : View(c)'
  BY <1>1, <1>2, <1>3, TapView
<1>5. OneEach'
  BY <1>2 DEF FifoInv, OneEach, handlerVars, matcherVars
<1> QED BY <1>3, <1>4, <1>5 DEF FifoInv

\* A connection that ends is no longer looked at.
LEMMA LeaveInv ==
  ASSUME FifoInv, NEW e \in Conns, Leave(e)
  PROVE  FifoInv'
<1>1. /\ Fault /\ gone' = gone \cup {e} /\ search' = search \ {e}
      /\ down' = [down EXCEPT ![e] = <<>>]
      /\ UNCHANGED <<taps, up, handlerVars, matcherVars, scoreVars, making, causes>> /\ Observe
  BY DEF Leave
<1>2. FifoTypeOK'
  <2>1. <<>> \in Seq(Down)
    OBVIOUS
  <2>2. Packets'
    BY <1>1, <2>1, TypeParts DEF FifoInv, Packets
  <2>3. Sets'
    BY <1>1, ObserveType, TypeParts DEF FifoInv, Sets, handlerVars, scoreVars
  <2>4. sendq' \in Seq(Agent) /\ Worker' /\ Score' /\ Tapped'
    BY <1>1, TypeParts DEF FifoInv, Worker, Score, Tapped, handlerVars, matcherVars, scoreVars
  <2>5. Notes'
    BY <1>1, FaultType, TypeParts DEF FifoInv, Notes
  <2> QED BY <2>2, <2>3, <2>4, <2>5, PartsNext
<1>3. ASSUME NEW c \in Conns PROVE View(c)'
  <2>1. CASE c = e
    BY <1>1, <2>1 DEF View, Clean
  <2>2. CASE c # e
    <3>1. down'[c] = down[c] /\ (c \in search' <=> c \in search)
      BY <1>1, <2>2 DEF FifoInv, FifoTypeOK
    <3> QED BY <3>1, <1>1, <1>2, LeftAlone DEF handlerVars, matcherVars, scoreVars
  <2> QED BY <2>1, <2>2
<1>4. OneEach'
  BY <1>1 DEF FifoInv, OneEach, handlerVars, matcherVars
<1> QED BY <1>2, <1>3, <1>4 DEF FifoInv

\* A sequence of one element.
LEMMA OneElement ==
  ASSUME NEW S, NEW s \in Seq(S), Len(s) = 1
  PROVE  s = <<Head(s)>> /\ Tail(s) = <<>>
<1> DEFINE t == Tail(s)
           u == <<Head(s)>>
<1>1. t \in Seq(S) /\ Len(t) = 0 /\ Head(s) = s[1] /\ Head(s) \in S
  OBVIOUS
<1>2. u \in Seq(S) /\ Len(u) = 1 /\ u[1] = s[1]
  BY <1>1
<1> HIDE DEF t, u
<1>3. t = <<>>
  BY ONLY <1>1, EmptySeq
<1>4. \A i \in 1 .. Len(s) : s[i] = u[i]
  BY <1>2
<1>5. s = u
  BY ONLY <1>2, <1>4, SeqEqual, s \in Seq(S), Len(s) = 1
<1> QED BY <1>3, <1>5 DEF t, u

\* A client that has no answer to wait for, and asks again.
LEMMA AskAgain ==
  ASSUME FifoInv, FifoTypeOK', NEW c \in Conns, Clean(c), Answered(c),
         first # [conn |-> c, cancel |-> TRUE],
         UNCHANGED <<sendq, first, nearestMap, cancelling>>, ~AnswerDue(c)',
         \/ up'[c] = <<>> /\ c \notin search'
         \/ c \in search' /\ \E x \in Up \ {"cancel"} : up'[c] = <<x>>
  PROVE  View(c)'
<1>1. ~InChannel(c, TRUE) /\ ~InChannel(c, FALSE) /\ ~Queued(c) /\ c \notin cancelling
  BY OfConn DEF Answered, RequestDue, Busy
<1>2. ~InChannel(c, TRUE)' /\ ~InChannel(c, FALSE)' /\ ~Queued(c)' /\ c \notin cancelling'
  BY <1>1 DEF InChannel, Queued
<1>3. Place(c)' = "out"
  BY <1>2 DEF Place
<1>4. InTurn(up[c], Place(c))' /\ (c \in search' <=> PlaceAfter(up[c], Place(c))' = "in")
  <2>1. CASE up'[c] = <<>> /\ c \notin search'
    BY <2>1, <1>3 DEF InTurn, PlaceAfter
  <2>2. ASSUME NEW x \in Up \ {"cancel"}, up'[c] = <<x>>, c \in search'
        PROVE  InTurn(up[c], Place(c))' /\ (c \in search' <=> PlaceAfter(up[c], Place(c))' = "in")
    <3>1. InTurn(up[c], Place(c))'
      BY <2>2, <1>3 DEF InTurn
    <3>2. PlaceAfter(up[c], Place(c))' = "in"
      BY <2>2, <1>3 DEF PlaceAfter
    <3> QED BY <3>1, <3>2, <2>2
  <2> QED BY <2>1, <2>2
<1>5. Asking(c)'
  BY <1>2, <1>4 DEF Asking, Queued
<1> QED BY <1>5 DEF View

\* A client told to try again does so; told of its battle, or that its search
\* has been cancelled, it is in no search.
LEMMA ReadsInv ==
  ASSUME FifoInv, NEW e \in Conns, Reads(e)
  PROVE  FifoInv'
<1> DEFINE told == Head(down[e])
<1>1. /\ down[e] # <<>> /\ down' = [down EXCEPT ![e] = Tail(@)]
      /\ \/ told = "retry" /\ Asks(e, "queue2")
         \/ told = "retry3" /\ Asks(e, "queue3")
         \/ told \notin {"retry", "retry3"} /\ UNCHANGED up
      /\ search' = IF told = "matched" THEN search \ {e} ELSE search
      /\ causes' = IF told = "later" THEN Spoilt({e}, "later") ELSE causes
      /\ UNCHANGED <<gone, taps, handlerVars, matcherVars, scoreVars, making, faults>> /\ Observe
  BY DEF Reads
<1>2. down[e] \in Seq(Down) /\ Packets /\ Notes /\ Sets
  BY OfConn, TypeParts DEF FifoInv
<1>3. /\ told \in Down /\ Tail(down[e]) \in Seq(Down)
      /\ Len(down[e]) = 1 => down[e] = <<told>> /\ Tail(down[e]) = <<>>
  BY <1>1, <1>2, OneElement
<1> HIDE DEF told
<1>4. /\ up' \in [Conns -> Seq(Up)]
      /\ \A d \in Conns \ {e} : up'[d] = up[d]
  BY <1>1, <1>2, AsksType DEF Up, Packets
<1>5. FifoTypeOK'
  <2>1. Packets'
    BY <1>1, <1>2, <1>3, <1>4 DEF Packets
  <2>2. Sets'
    BY <1>1, <1>2, ObserveType DEF Sets, handlerVars, scoreVars
  <2>3. sendq' \in Seq(Agent) /\ Worker' /\ Score' /\ Tapped'
    BY <1>1, TypeParts DEF FifoInv, Worker, Score, Tapped, handlerVars, matcherVars, scoreVars
  <2>4. Notes'
    BY <1>1, <1>2, SpoiltType DEF Notes
  <2> QED BY <2>1, <2>2, <2>3, <2>4, PartsNext
<1>6. \A c \in Conns : causes[c] \subseteq causes'[c]
  BY <1>1, <1>2, SpoiltType
<1>7. ASSUME NEW c \in Conns PROVE View(c)'
  <2>1. CASE c # e
    <3>1. down'[c] = down[c] /\ (c \in search' <=> c \in search) /\ up'[c] = up[c]
      BY <1>1, <1>2, <1>4, <2>1 DEF Packets
    <3> QED BY <3>1, <1>1, <1>5, <1>6, LeftAlone DEF handlerVars, matcherVars, scoreVars
  <2>2. CASE c = e /\ Clean(c)'
    <3>1. Clean(c) /\ AnswerDue(c)
      BY <1>1, <1>6, <2>2, CleanBefore DEF FifoInv, AnswerDue
    <3>2. Answered(c) /\ first # [conn |-> c, cancel |-> TRUE]
      BY <3>1, AnswerOnly
    <3>3. coming[c] = 0 /\ Len(down[c]) = 1 /\ ~Making(c)
      <4>1. Making(c) \/ ~Making(c)
        OBVIOUS
      <4> QED BY <3>2, <1>1, <2>2 DEF Answered, OneAnswer
    <3>4. down'[c] = <<>> /\ down[c] = <<told>>
      BY <3>3, <1>1, <1>2, <1>3, <2>2 DEF Packets
    <3>5. coming'[c] = 0 /\ ~Making(c)'
      BY <3>3, <1>1 DEF Making, handlerVars, scoreVars
    <3>6. ~AnswerDue(c)'
      BY <3>4, <3>5 DEF AnswerDue, Making
    <3>7. up[c] = <<>> /\ (c \in search <=> told # "cancelled")
      BY <3>2, <3>4 DEF Answered, RequestDue, Busy
    <3>8. told # "later"
      BY <1>1, <1>2, <2>2, SpoiltType DEF Clean
    <3>9. \/ up'[c] = <<>> /\ c \notin search'
          \/ c \in search' /\ \E x \in Up \ {"cancel"} : up'[c] = <<x>>
      <4>1. CASE told = "retry"
        <5>1. up'[c] = Append(<<>>, "queue2") /\ c \in search'
          BY <4>1, <1>1, <1>2, <2>2, <3>7, AsksType DEF Up
        <5> QED BY <5>1 DEF Up
      <4>2. CASE told = "retry3"
        <5>1. up'[c] = Append(<<>>, "queue3") /\ c \in search'
          BY <4>2, <1>1, <1>2, <2>2, <3>7, AsksType DEF Up
        <5> QED BY <5>1 DEF Up
      <4>3. CASE told \in {"matched", "cancelled"}
        BY <4>3, <1>1, <2>2, <3>7
      <4> QED BY <4>1, <4>2, <4>3, <1>3, <3>8 DEF Down
    <3> QED BY <3>1, <3>2, <3>6, <3>9, <1>1, <1>5, AskAgain DEF handlerVars, matcherVars, scoreVars
  <2>3. CASE ~Clean(c)'
    BY <2>3 DEF View
  <2> QED BY <2>1, <2>2, <2>3
<1>8. OneEach'
  BY <1>1 DEF FifoInv, OneEach, handlerVars, matcherVars
<1> QED BY <1>5, <1>7, <1>8 DEF FifoInv

-----------------------------------------------------------------------------
(* The goroutine of a connection.                                          *)

\* The request handled is the oldest.
LEMMA HandlesType ==
  ASSUME FifoInv, NEW e \in Conns, NEW q \in Up, Handles(e, q)
  PROVE  /\ up' \in [Conns -> Seq(Up)] /\ up'[e] = Tail(up[e])
         /\ \A d \in Conns \ {e} : up'[d] = up[d]
<1>1. up \in [Conns -> Seq(Up)] /\ up[e] # <<>> /\ up' = [up EXCEPT ![e] = Tail(@)]
  BY TypeParts DEF FifoInv, Packets, Handles, Readable, Busy
<1>2. Tail(up[e]) \in Seq(Up)
  BY <1>1
<1> QED BY <1>1, <1>2

\* The oldest request of a connection is a cancel if and only if it is queued.
LEMMA HandlesView ==
  ASSUME FifoInv, NEW e \in Conns, NEW q \in Up, Handles(e, q), Clean(e)
  PROVE  /\ first # [conn |-> e, cancel |-> TRUE]
         /\ first = [conn |-> e, cancel |-> FALSE] => e \notin nearestMap
         /\ coming[e] = 0 /\ down[e] = <<>> /\ ~Making(e) /\ ~AnswerDue(e)
         /\ ~InChannel(e, TRUE) /\ ~InChannel(e, FALSE) /\ e \notin cancelling
         /\ q = "cancel" <=> Queued(e)
         /\ InTurn(up'[e], IF Queued(e) THEN "out" ELSE "in")
         /\ e \in search <=> PlaceAfter(up'[e], IF Queued(e) THEN "out" ELSE "in") = "in"
<1>1. up[e] # <<>> /\ Head(up[e]) = q /\ ~Sending(e) /\ e \notin cancelling
  BY DEF Handles, Readable, Busy
<1>2. /\ Asking(e) /\ first # [conn |-> e, cancel |-> TRUE]
      /\ coming[e] = 0 /\ down[e] = <<>> /\ ~Making(e) /\ ~AnswerDue(e)
  BY <1>1, AskingOnly DEF RequestDue, Busy
<1>3. ~InChannel(e, TRUE) /\ ~InChannel(e, FALSE)
  BY <1>1, OfConn
<1>4. Place(e) = IF Queued(e) THEN "in" ELSE "out"
  BY <1>1, <1>3 DEF Place
<1>5. up[e] \in Seq(Up) /\ Place(e) \in {"in", "out"} /\ InTurn(up[e], Place(e))
  BY <1>2, OfConn DEF Asking
<1>6. /\ q = "cancel" <=> Place(e) = "in"
      /\ InTurn(Tail(up[e]), IF Place(e) = "in" THEN "out" ELSE "in")
      /\ PlaceAfter(Tail(up[e]), IF Place(e) = "in" THEN "out" ELSE "in") =
           PlaceAfter(up[e], Place(e))
  BY ONLY <1>1, <1>5, InTurnTail
<1>7. (IF Place(e) = "in" THEN "out" ELSE "in") = IF Queued(e) THEN "out" ELSE "in"
  BY <1>4
<1>8. up'[e] = Tail(up[e])
  BY HandlesType
<1>9. /\ InTurn(up'[e], IF Queued(e) THEN "out" ELSE "in")
      /\ PlaceAfter(up'[e], IF Queued(e) THEN "out" ELSE "in") = PlaceAfter(up[e], Place(e))
  BY ONLY <1>6, <1>7, <1>8
<1>10. q = "cancel" <=> Queued(e)
  BY <1>4, <1>6
<1>11. /\ first = [conn |-> e, cancel |-> FALSE] => e \notin nearestMap
       /\ e \in search <=> PlaceAfter(up[e], Place(e)) = "in"
  BY ONLY <1>2 DEF Asking
<1>12. e \in search <=> PlaceAfter(up'[e], IF Queued(e) THEN "out" ELSE "in") = "in"
  BY ONLY <1>9, <1>11
<1> QED BY ONLY <1>1, <1>2, <1>3, <1>9, <1>10, <1>11, <1>12

\* A search that is answered at once leaves nothing else asked for.
LEMMA SearchEnds ==
  ASSUME FifoInv, NEW e \in Conns, NEW q \in Up \ {"cancel"}, Handles(e, q), Clean(e), Clean(e)',
         Observe, AnswerDue(e)', OneAnswer(e)', search' = search,
         UNCHANGED <<first, nearestMap>>, down'[e] # <<"cancelled">>
  PROVE  View(e)'
<1>1. /\ ~Queued(e) /\ first # [conn |-> e, cancel |-> TRUE]
      /\ e \in search <=> PlaceAfter(up'[e], "in") = "in"
  BY HandlesView
<1>2. up'[e] = <<>>
  BY NotBoth DEF RequestDue, Busy
<1>3. e \in search
  BY <1>1, <1>2 DEF PlaceAfter
<1>4. ~Queued(e)'
  BY <1>1 DEF Queued
<1> QED BY <1>1, <1>3, <1>4, SearchAnswered

\* A player with a battle to go back to is answered at once.
LEMMA ResumedInv ==
  ASSUME FifoInv, NEW e \in Conns, Resumed(e)
  PROVE  FifoInv'
<1>1. PICK q \in Up \ {"cancel"} : Handles(e, q)
  BY DEF Resumed, Up
<1>2. /\ Tell({e}, "matched") /\ Observe
      /\ UNCHANGED <<clientVars, handlerVars, matcherVars, scoreVars, making, faults, causes>>
  BY DEF Resumed
<1>3. /\ up' \in [Conns -> Seq(Up)]
      /\ \A d \in Conns \ {e} : up'[d] = up[d]
  BY <1>1, HandlesType
<1>4. /\ down' \in [Conns -> Seq(Down)]
      /\ \A c \in Conns :
           down'[c] = IF c \in {e} \ gone THEN Append(down[c], "matched") ELSE down[c]
  BY <1>2, TellType, TypeParts DEF FifoInv, Down
<1>5. FifoTypeOK'
  <2>1. Packets'
    BY <1>3, <1>4 DEF Packets
  <2>2. Sets'
    BY <1>2, ObserveType, TypeParts DEF FifoInv, Sets, handlerVars, scoreVars, clientVars
  <2>3. sendq' \in Seq(Agent) /\ Worker' /\ Score' /\ Tapped' /\ Notes'
    BY <1>2, TypeParts DEF FifoInv, Worker, Score, Tapped, Notes, handlerVars, matcherVars, scoreVars, clientVars
  <2> QED BY <2>1, <2>2, <2>3, PartsNext
<1>6. ASSUME NEW c \in Conns PROVE View(c)'
  <2>1. CASE c # e
    <3>1. down'[c] = down[c] /\ up'[c] = up[c]
      BY <1>3, <1>4, <2>1
    <3> QED BY <3>1, <1>2, <1>5, LeftAlone DEF handlerVars, matcherVars, scoreVars, clientVars
  <2>2. CASE c = e /\ Clean(c)'
    <3>1. Clean(c) /\ c \notin gone
      BY <1>2, <2>2, CleanBefore DEF FifoInv, handlerVars, clientVars, Clean
    <3>2. coming[c] = 0 /\ down[c] = <<>> /\ ~Making(c)
      BY <1>1, <2>2, <3>1, HandlesView
    <3>3. down'[c] = <<"matched">>
      BY <3>1, <3>2, <1>4, <2>2
    <3>4. coming'[c] = 0 /\ ~Making(c)'
      BY <3>2, <1>2 DEF Making, handlerVars, scoreVars
    <3>5. AnswerDue(c)' /\ OneAnswer(c)' /\ down'[c] # <<"cancelled">>
      BY <3>3, <3>4 DEF AnswerDue, OneAnswer
    <3> QED BY <1>1, <1>2, <2>2, <3>1, <3>5, SearchEnds DEF handlerVars, matcherVars, scoreVars, clientVars
  <2>3. CASE ~Clean(c)'
    BY <2>3 DEF View
  <2> QED BY <2>1, <2>2, <2>3
<1>7. OneEach'
  BY <1>2 DEF FifoInv, OneEach, handlerVars, matcherVars
<1> QED BY <1>5, <1>6, <1>7 DEF FifoInv

\* A request that is lost is held against its connection.
LEMMA GetFailsInv ==
  ASSUME FifoInv, NEW e \in Conns, GetFails(e)
  PROVE  FifoInv'
<1>1. PICK q \in Up : Handles(e, q)
  BY DEF GetFails, Up
<1>2. /\ Fault /\ causes' = Spoilt({e}, "fault") /\ Observe
      /\ UNCHANGED <<clientVars, down, handlerVars, matcherVars, scoreVars, making>>
  BY DEF GetFails
<1>3. /\ up' \in [Conns -> Seq(Up)]
      /\ \A d \in Conns \ {e} : up'[d] = up[d]
  BY <1>1, HandlesType
<1>4. /\ causes' \in [Conns -> SUBSET {"fault", "later", "shared"}]
      /\ \A c \in Conns : causes[c] \subseteq causes'[c]
      /\ causes'[e] # {}
  BY <1>2, SpoiltType, TypeParts DEF FifoInv
<1>5. FifoTypeOK'
  <2>1. Packets'
    BY <1>2, <1>3, TypeParts DEF FifoInv, Packets
  <2>2. Sets'
    BY <1>2, ObserveType, TypeParts DEF FifoInv, Sets, handlerVars, scoreVars, clientVars
  <2>3. sendq' \in Seq(Agent) /\ Worker' /\ Score' /\ Tapped'
    BY <1>2, TypeParts DEF FifoInv, Worker, Score, Tapped, handlerVars, matcherVars, scoreVars, clientVars
  <2>4. Notes'
    BY <1>2, <1>4, FaultType, TypeParts DEF FifoInv, Notes
  <2> QED BY <2>1, <2>2, <2>3, <2>4, PartsNext
<1>6. ASSUME NEW c \in Conns PROVE View(c)'
  <2>1. CASE c # e
    <3>1. up'[c] = up[c]
      BY <1>3, <2>1
    <3> QED BY <3>1, <1>2, <1>4, <1>5, LeftAlone DEF handlerVars, matcherVars, scoreVars, clientVars
  <2>2. CASE c = e
    BY <1>4, <2>2 DEF View, Clean
  <2> QED BY <2>1, <2>2
<1>7. OneEach'
  BY <1>2 DEF FifoInv, OneEach, handlerVars, matcherVars
<1> QED BY <1>5, <1>6, <1>7 DEF FifoInv

\* SendAgent: the goroutine waits until matchWorker has taken its agent.
LEMMA SendsType ==
  ASSUME FifoInv, NEW e \in Conns, ~Sending(e), NEW k \in BOOLEAN, SendsAgent(e, k)
  PROVE  /\ sendq' \in Seq(Agent) /\ OneEach'
         /\ \A c \in Conns, b \in BOOLEAN : InChannel(c, b)' <=> InChannel(c, b) \/ (c = e /\ b = k)
<1>1. sendq \in Seq(Agent) /\ Apart(sendq) /\ [conn |-> e, cancel |-> k] \in Agent
  BY NoAgentApart DEF FifoInv, FifoTypeOK, OneEach
<1>2. sendq' = Append(sendq, [conn |-> e, cancel |-> k])
  BY DEF SendsAgent
<1>3. ~(\E i \in DOMAIN sendq : sendq[i].conn = e)
  BY DEF Sending
<1>4. sendq' \in Seq(Agent)
  BY <1>1, <1>2
<1>5. ASSUME NEW c \in Conns, NEW b \in BOOLEAN
      PROVE  (InChannel(c, b)' <=> InChannel(c, b) \/ (c = e /\ b = k)) /\ OneEach'
  BY <1>1, <1>2, <1>3, HasAppend DEF InChannel, OneEach
<1> QED BY <1>4, <1>5

\* The next request has come as far as the channel.
LEMMA SendsView ==
  ASSUME FifoInv, FifoTypeOK', NEW e \in Conns, NEW q \in Up, Handles(e, q),
         SendsAgent(e, q = "cancel"), q = "cancel" => e \notin nearestMap,
         UNCHANGED <<clientVars, down, handlerVars, worker, first, coming, making, causes, nearestMap>>,
         Observe, NEW c \in Conns
  PROVE  View(c)'
<1>1. ~Sending(e) /\ (q = "cancel") \in BOOLEAN
  BY DEF Handles, Readable, Busy
<1>2. \A d \in Conns, b \in BOOLEAN :
        InChannel(d, b)' <=> InChannel(d, b) \/ (d = e /\ b = (q = "cancel"))
  BY <1>1, SendsType
<1>3. \A d \in Conns \ {e} : up'[d] = up[d]
  BY HandlesType
<1>4. CASE ~Clean(c)'
  BY <1>4 DEF View
<1>5. CASE c # e /\ Clean(c)'
  <2>1. Clean(c)
    BY <1>5, CleanBefore DEF FifoInv, handlerVars, clientVars
  <2>2. \A b \in BOOLEAN : InChannel(c, b)' <=> InChannel(c, b)
    BY <1>2, <1>5
  <2>3. Still(c)
    BY <2>1, <2>2, <1>3, <1>5 DEF Still, handlerVars, clientVars
  <2> QED BY <2>3, StillView
<1>6. CASE c = e /\ Clean(c)'
  <2>1. Clean(c)
    BY <1>6, CleanBefore DEF FifoInv, handlerVars, clientVars
  <2>2. /\ first # [conn |-> e, cancel |-> TRUE]
        /\ first = [conn |-> e, cancel |-> FALSE] => e \notin nearestMap
        /\ ~AnswerDue(e) /\ ~InChannel(e, TRUE) /\ ~InChannel(e, FALSE) /\ e \notin cancelling
        /\ q = "cancel" <=> Queued(e)
        /\ InTurn(up'[e], IF Queued(e) THEN "out" ELSE "in")
        /\ e \in search <=> PlaceAfter(up'[e], IF Queued(e) THEN "out" ELSE "in") = "in"
    BY <2>1, <1>6, HandlesView
  <2>3. ~AnswerDue(e)'
    BY <2>2 DEF AnswerDue
  <2>4. (Queued(e)' <=> Queued(e)) /\ e \notin cancelling'
    BY <2>2 DEF Queued, handlerVars
  <2>5. /\ InChannel(e, TRUE)' <=> Queued(e)
        /\ InChannel(e, FALSE)' <=> ~Queued(e)
    BY <1>2, <2>2
  <2>6. Place(e)' = IF Queued(e) THEN "out" ELSE "in"
    BY <2>4, <2>5 DEF Place
  <2>7. /\ InTurn(up[e], Place(e))'
        /\ e \in search' <=> PlaceAfter(up[e], Place(e))' = "in"
    BY <2>2, <2>6 DEF InTurn, PlaceAfter, handlerVars, clientVars
  <2>8. Queued(e) => first = [conn |-> e, cancel |-> FALSE]
    BY <2>2 DEF Queued
  <2>9. Asking(e)'
    BY <2>2, <2>4, <2>5, <2>7, <2>8 DEF Asking
  <2> QED BY <2>2, <2>3, <2>9, <1>6 DEF View
<1> QED BY <1>4, <1>5, <1>6

\* A search that goes through the channel leaves up for sendq.
LEMMA HandleQueue2Inv ==
  ASSUME FifoInv, NEW e \in Conns, HandleQueue2(e)
  PROVE  FifoInv'
<1>1. /\ Handles(e, "queue2") /\ SendsAgent(e, FALSE) /\ Observe
      /\ UNCHANGED <<clientVars, down, handlerVars, worker, first, scoreVars, making, faults, causes>>
  BY DEF HandleQueue2
<1>2. "queue2" \in Up /\ ("queue2" = "cancel") = FALSE /\ ~Sending(e)
  BY <1>1 DEF Up, Handles, Readable, Busy
<1>3. sendq' \in Seq(Agent) /\ OneEach'
  BY <1>1, <1>2, SendsType
<1>4. FifoTypeOK'
  <2>1. Packets'
    BY <1>1, <1>2, HandlesType, TypeParts DEF FifoInv, Packets
  <2>2. Sets'
    BY <1>1, ObserveType, TypeParts DEF FifoInv, Sets, handlerVars, scoreVars, clientVars
  <2>3. Worker' /\ Score' /\ Tapped' /\ Notes'
    BY <1>1, TypeParts DEF FifoInv, Worker, Score, Tapped, Notes, handlerVars, scoreVars, clientVars
  <2> QED BY <2>1, <2>2, <2>3, <1>3, PartsNext
<1>5. SendsAgent(e, "queue2" = "cancel")
  BY <1>1, <1>2
<1>6. \A c \in Conns : View(c)'
  BY <1>1, <1>2, <1>4, <1>5, SendsView DEF handlerVars, scoreVars
<1> QED BY <1>3, <1>4, <1>6 DEF FifoInv

\* Two connections of one user are held against both.
LEMMA SharedSpoilt ==
  ASSUME FifoInv, NEW e \in Conns, causes' = Spoilt(Sharing(e), "shared"), NEW d \in nearestMap,
         d # e, Same(e, d)
  PROVE  causes'[e] # {} /\ causes'[d] # {}
<1>1. d \in Conns /\ nearestMap \subseteq Conns
  BY TypeParts DEF FifoInv, Sets
<1>2. {e, d} \in {{e, x} : x \in {y \in nearestMap \ {e} : Same(e, y)}}
  OBVIOUS
<1>3. e \in Sharing(e) /\ d \in Sharing(e)
  BY <1>2 DEF Sharing
<1> QED BY <1>1, <1>3, SpoiltType, TypeParts DEF FifoInv

\* A search by score is answered by a bot, or enters the map when its goroutine
\* gets there.
LEMMA HandleQueue3Inv ==
  ASSUME FifoInv, NEW e \in Conns, HandleQueue3(e)
  PROVE  FifoInv'
<1>1. /\ Handles(e, "queue3") /\ Observe /\ causes' = Spoilt(Sharing(e), "shared")
      /\ \/ InMap(e) /\ UNCHANGED <<coming, making>>
         \/ ~InMap(e) /\ making' = [making EXCEPT ![{e}] = @ + 1] /\ UNCHANGED coming
         \/ ~InMap(e) /\ coming' = [coming EXCEPT ![e] = @ + 1] /\ UNCHANGED making
      /\ UNCHANGED <<clientVars, down, handlerVars, matcherVars, nearestMap, faults>>
  BY DEF HandleQueue3
<1>2. "queue3" \in Up \ {"cancel"} /\ {e} \in Parties
  BY DEF Up, Parties
<1>3. /\ causes' \in [Conns -> SUBSET {"fault", "later", "shared"}]
      /\ \A c \in Conns : causes[c] \subseteq causes'[c]
  BY <1>1, SpoiltType, TypeParts DEF FifoInv
<1>4. /\ coming \in [Conns -> Nat] /\ making \in [Parties -> Nat]
  BY TypeParts DEF FifoInv, Score
<1>5. /\ coming' \in [Conns -> Nat] /\ making' \in [Parties -> Nat]
      /\ \A d \in Conns \ {e} : coming'[d] = coming[d]
      /\ \A d \in Conns \ {e} : \A m \in Parties : d \in m => making'[m] = making[m]
  <2>1. CASE UNCHANGED <<coming, making>>
    BY <2>1, <1>4
  <2>2. CASE making' = [making EXCEPT ![{e}] = @ + 1] /\ UNCHANGED coming
    <3>1. \A d \in Conns \ {e} : d \notin {e}
      OBVIOUS
    <3>2. making' \in [Parties -> Nat]
      BY <2>2, <1>2, <1>4, OneMore
    <3>3. \A m \in Parties : m # {e} => making'[m] = making[m]
      BY <2>2, <1>4
    <3>4. \A d \in Conns \ {e} : \A m \in Parties : d \in m => m # {e}
      BY <3>1
    <3> QED BY <3>2, <3>3, <3>4, <2>2, <1>4
  <2>3. CASE coming' = [coming EXCEPT ![e] = @ + 1] /\ UNCHANGED making
    BY <2>3, <1>4
  <2> QED BY <2>1, <2>2, <2>3, <1>1
<1>6. FifoTypeOK'
  <2>1. Packets'
    BY <1>1, <1>2, HandlesType, TypeParts DEF FifoInv, Packets
  <2>2. Sets'
    BY <1>1, ObserveType, TypeParts DEF FifoInv, Sets, handlerVars, clientVars
  <2>3. sendq' \in Seq(Agent) /\ Worker' /\ Tapped'
    BY <1>1, TypeParts DEF FifoInv, Worker, Tapped, handlerVars, matcherVars, clientVars
  <2>4. Score' /\ Notes'
    BY <1>1, <1>3, <1>5, TypeParts DEF FifoInv, Score, Notes
  <2> QED BY <2>1, <2>2, <2>3, <2>4, PartsNext
<1>7. ASSUME NEW c \in Conns PROVE View(c)'
  <2>1. CASE c # e
    <3>1. up'[c] = up[c]
      BY <1>1, <1>2, <2>1, HandlesType
    <3> QED BY <3>1, <1>1, <1>3, <1>5, <1>6, <2>1, LeftAlone DEF handlerVars, matcherVars, clientVars
  <2>2. CASE c = e /\ Clean(c)'
    <3>1. Clean(c)
      BY <1>1, <1>3, <2>2, CleanBefore DEF FifoInv, handlerVars, clientVars
    <3>2. /\ coming[c] = 0 /\ down[c] = <<>> /\ ~Making(c) /\ ~Queued(c)
      BY <1>1, <1>2, <2>2, <3>1, HandlesView
    <3>3. ~InMap(e)
      <4> SUFFICES ASSUME NEW d \in nearestMap, Same(e, d) PROVE FALSE
        BY DEF InMap
      <4>1. d # e
        BY <2>2, <3>2 DEF Queued
      <4> QED BY <4>1, <1>1, <2>2, SharedSpoilt DEF Clean
    <3>4. AnswerDue(c)' /\ OneAnswer(c)'
      <4>1. CASE making' = [making EXCEPT ![{e}] = @ + 1] /\ UNCHANGED coming
        <5>1. Making(c)' /\ OneMatch(c)'
          BY <4>1, <1>2, <1>4, <2>2, <3>2, OneMore
        <5> QED BY <5>1, <4>1, <1>1, <3>2 DEF AnswerDue, OneAnswer, Making
      <4>2. CASE coming' = [coming EXCEPT ![e] = @ + 1] /\ UNCHANGED making
        <5>1. coming'[c] = 1 /\ ~Making(c)' /\ down'[c] = <<>>
          BY <4>2, <1>1, <1>4, <2>2, <3>2 DEF Making
        <5> QED BY <5>1 DEF AnswerDue, OneAnswer
      <4> QED BY <4>1, <4>2, <1>1, <3>3
    <3>5. down'[c] # <<"cancelled">>
      BY <1>1, <3>2
    <3> QED BY <1>1, <1>2, <2>2, <3>1, <3>4, <3>5, SearchEnds DEF handlerVars, matcherVars, clientVars
  <2>3. CASE ~Clean(c)'
    BY <2>3 DEF View
  <2> QED BY <2>1, <2>2, <2>3
<1>8. OneEach'
  BY <1>1 DEF FifoInv, OneEach, handlerVars, matcherVars
<1> QED BY <1>6, <1>7, <1>8 DEF FifoInv

\* A closed connection had nothing left to handle.
LEMMA CloseInv ==
  ASSUME FifoInv, NEW e \in Conns, Close(e)
  PROVE  FifoInv'
<1>1. /\ shut' = shut \cup {e} /\ Observe
      /\ UNCHANGED <<cancelling, clientVars, up, down, matcherVars, scoreVars, making, faults, causes>>
  BY DEF Close
<1>2. FifoTypeOK'
  <2>1. Sets'
    BY <1>1, ObserveType, TypeParts DEF FifoInv, Sets, handlerVars, scoreVars, clientVars
  <2>2. Packets' /\ sendq' \in Seq(Agent) /\ Worker' /\ Score' /\ Tapped' /\ Notes'
    BY <1>1, TypeParts
    DEF FifoInv, Packets, Worker, Score, Tapped, Notes, handlerVars, matcherVars, scoreVars, clientVars
  <2> QED BY <2>1, <2>2, PartsNext
<1>3. \A c \in Conns : View(c)'
  BY <1>1, <1>2, LeftAlone DEF handlerVars, matcherVars, scoreVars, clientVars
<1>4. OneEach'
  BY <1>1 DEF FifoInv, OneEach, handlerVars, matcherVars
<1> QED BY <1>2, <1>3, <1>4 DEF FifoInv

\* Who else is in the map for the user is noted, and so is the connection.
LEMMA SharingNoted ==
  ASSUME FifoInv, NEW e \in Conns
  PROVE  /\ Spoilt(Sharing(e), "shared") \in [Conns -> SUBSET {"fault", "later", "shared"}]
         /\ \A c \in Conns : causes[c] \subseteq Spoilt(Sharing(e), "shared")[c]
         /\ \A d \in nearestMap : d # e /\ Same(e, d) =>
              /\ Spoilt(Sharing(e), "shared")[d] # {}
              /\ Spoilt(Sharing(e), "shared")[e] # {}
<1>1. nearestMap \subseteq Conns /\ causes \in [Conns -> SUBSET {"fault", "later", "shared"}]
  BY TypeParts DEF FifoInv, Sets, Notes
<1>2. ASSUME NEW d \in nearestMap, d # e, Same(e, d) PROVE e \in Sharing(e) /\ d \in Sharing(e)
  <2>1. {e, d} \in {{e, x} : x \in {y \in nearestMap \ {e} : Same(e, y)}}
    BY <1>2
  <2> QED BY <2>1 DEF Sharing
<1> QED BY <1>1, <1>2 DEF Spoilt

\* Those of the user who are in the map leave it: held against all of them but
\* the one connection.
LEMMA OthersOut ==
  ASSUME FifoInv, NEW e \in Conns, nearestMap' = {d \in nearestMap : ~Same(e, d)},
         NEW c \in Conns, c # e, Spoilt(Sharing(e), "shared")[c] = {}
  PROVE  c \in nearestMap' <=> c \in nearestMap
<1>1. ~(c \in nearestMap /\ Same(e, c))
  BY SharingNoted
<1> QED BY <1>1

\* A cancel is answered from the map, where its goroutine waits for
\* DeleteFromQueue, or goes through the channel.
LEMMA HandleCancelInv ==
  ASSUME FifoInv, NEW e \in Conns, HandleCancel(e)
  PROVE  FifoInv'
<1>1. /\ Handles(e, "cancel") /\ "cancel" \in Up
      /\ UNCHANGED <<clientVars, down, shut, worker, first, scoreVars, making, faults>> /\ Observe
  BY DEF HandleCancel, Up
<1>2. CASE Known(e)
  <2>1. /\ cancelling' = cancelling \cup {e} /\ causes' = Spoilt(Sharing(e), "shared")
        /\ UNCHANGED sendq
    BY <1>2 DEF HandleCancel
  <2>2. /\ causes' \in [Conns -> SUBSET {"fault", "later", "shared"}]
        /\ \A c \in Conns : causes[c] \subseteq causes'[c]
    BY <2>1, SharingNoted
  <2>3. FifoTypeOK'
    <3>1. Packets'
      BY <1>1, HandlesType, TypeParts DEF FifoInv, Packets
    <3>2. Sets'
      BY <1>1, <2>1, ObserveType, TypeParts DEF FifoInv, Sets, clientVars, scoreVars
    <3>3. sendq' \in Seq(Agent) /\ Worker' /\ Tapped' /\ Score' /\ Notes'
      BY <1>1, <2>1, <2>2, TypeParts
      DEF FifoInv, Worker, Tapped, Score, Notes, clientVars, scoreVars
    <3> QED BY <3>1, <3>2, <3>3, PartsNext
  <2>4. ASSUME NEW c \in Conns PROVE View(c)'
    <3>1. CASE c # e
      <4>1. up'[c] = up[c]
        BY <1>1, <3>1, HandlesType
      <4> QED BY <4>1, <3>1, <1>1, <2>1, <2>2, <2>3, LeftAlone DEF clientVars, scoreVars
    <3>2. CASE c = e /\ Clean(c)'
      <4>1. Clean(e)
        BY <1>1, <2>2, <3>2, CleanBefore DEF FifoInv, clientVars
      <4>2. /\ first # [conn |-> e, cancel |-> TRUE]
            /\ first = [conn |-> e, cancel |-> FALSE] => e \notin nearestMap
            /\ ~AnswerDue(e) /\ ~InChannel(e, TRUE) /\ ~InChannel(e, FALSE)
            /\ Queued(e)
            /\ InTurn(up'[e], IF Queued(e) THEN "out" ELSE "in")
            /\ e \in search <=> PlaceAfter(up'[e], IF Queued(e) THEN "out" ELSE "in") = "in"
        BY <1>1, <4>1, HandlesView
      <4>3. e \in nearestMap
        <5>1. PICK d \in nearestMap : Same(e, d)
          BY <1>2 DEF Known, InMap
        <5>2. d = e
          BY <2>1, <3>2, <5>1, SharingNoted DEF Clean
        <5> QED BY <5>1, <5>2
      <4>4. /\ ~AnswerDue(e)' /\ ~InChannel(e, TRUE)' /\ ~InChannel(e, FALSE)'
            /\ e \in cancelling' /\ e \in nearestMap'
        BY <4>2, <4>3, <1>1, <2>1 DEF AnswerDue, InChannel, scoreVars
      <4>5. Place(e)' = "out"
        BY <4>4 DEF Place
      <4>6. InTurn(up[e], Place(e))' /\ (e \in search' <=> PlaceAfter(up[e], Place(e))' = "in")
        BY <4>2, <4>5, <1>1 DEF InTurn, PlaceAfter, clientVars
      <4>7. /\ first' # [conn |-> e, cancel |-> TRUE]
            /\ first' # [conn |-> e, cancel |-> FALSE]
        BY <4>2, <4>3, <1>1
      <4>8. Asking(e)'
        BY <4>4, <4>6, <4>7 DEF Asking
      <4> QED BY <4>4, <4>7, <4>8, <3>2 DEF View
    <3>3. CASE ~Clean(c)'
      BY <3>3 DEF View
    <3> QED BY <3>1, <3>2, <3>3
  <2>5. OneEach'
    BY <2>1 DEF FifoInv, OneEach
  <2> QED BY <2>3, <2>4, <2>5 DEF FifoInv
<1>3. CASE ~Known(e)
  <2>1. SendsAgent(e, TRUE) /\ UNCHANGED <<cancelling, causes>>
    BY <1>3 DEF HandleCancel
  <2>2. ("cancel" = "cancel") = TRUE /\ ~Sending(e)
    BY <1>1 DEF Handles, Readable, Busy
  <2>3. sendq' \in Seq(Agent) /\ OneEach'
    BY <2>1, <2>2, SendsType
  <2>4. FifoTypeOK'
    <3>1. Packets'
      BY <1>1, HandlesType, TypeParts DEF FifoInv, Packets
    <3>2. Sets'
      BY <1>1, <2>1, ObserveType, TypeParts DEF FifoInv, Sets, clientVars, scoreVars
    <3>3. Worker' /\ Tapped' /\ Score' /\ Notes'
      BY <1>1, <2>1, TypeParts
      DEF FifoInv, Worker, Tapped, Score, Notes, clientVars, scoreVars
    <3> QED BY <3>1, <3>2, <3>3, <2>3, PartsNext
  <2>5. SendsAgent(e, "cancel" = "cancel")
    BY <2>1, <2>2
  <2>6. e \notin nearestMap
    BY <1>3 DEF Known, InMap, Same
  <2>7. \A c \in Conns : View(c)'
    BY <1>1, <2>1, <2>4, <2>5, <2>6, SendsView DEF handlerVars, scoreVars
  <2> QED BY <2>3, <2>4, <2>7 DEF FifoInv
<1> QED BY <1>2, <1>3

\* DeleteFromQueue has ended: the connection is where its cancel was to take it,
\* or the call is held against it.
LEMMA CancelAnsweredInv ==
  ASSUME FifoInv, NEW e \in Conns, CancelAnswered(e)
  PROVE  FifoInv'
<1>1. /\ e \in cancelling /\ cancelling' = cancelling \ {e} /\ Observe
      /\ UNCHANGED <<clientVars, up, down, shut, matcherVars, coming, making>>
  BY DEF CancelAnswered
<1>2. \/ /\ nearestMap' = {d \in nearestMap : ~Same(e, d)}
         /\ causes' = Spoilt(Sharing(e), "shared") /\ UNCHANGED faults
      \/ Fault /\ causes' = Spoilt({e}, "fault") /\ UNCHANGED nearestMap
  BY DEF CancelAnswered
<1>3. /\ causes' \in [Conns -> SUBSET {"fault", "later", "shared"}]
      /\ \A c \in Conns : causes[c] \subseteq causes'[c]
  <2>1. CASE causes' = Spoilt(Sharing(e), "shared")
    BY <2>1, SharingNoted
  <2>2. CASE causes' = Spoilt({e}, "fault")
    BY <2>2, SpoiltType, TypeParts DEF FifoInv
  <2> QED BY <1>2, <2>1, <2>2
<1>4. FifoTypeOK'
  <2>1. Sets' /\ nearestMap' \subseteq nearestMap
    BY <1>1, <1>2, ObserveType, TypeParts DEF FifoInv, Sets, clientVars
  <2>2. Packets' /\ sendq' \in Seq(Agent) /\ Worker' /\ Tapped' /\ Score'
    BY <1>1, <2>1, TypeParts DEF FifoInv, Packets, Worker, Tapped, Score, matcherVars, clientVars
  <2>3. Notes'
    BY <1>2, <1>3, FaultType, TypeParts DEF FifoInv, Notes
  <2> QED BY <2>1, <2>2, <2>3, PartsNext
<1>5. ASSUME NEW c \in Conns PROVE View(c)'
  <2>1. CASE c # e
    <3>1. ASSUME Clean(c)' PROVE c \in nearestMap' <=> c \in nearestMap
      <4>1. CASE UNCHANGED nearestMap
        BY <4>1
      <4>2. CASE /\ nearestMap' = {d \in nearestMap : ~Same(e, d)}
                 /\ causes' = Spoilt(Sharing(e), "shared")
        BY <4>2, <3>1, <2>1, OthersOut DEF Clean
      <4> QED BY <4>1, <4>2, <1>2
    <3>2. c \in cancelling' <=> c \in cancelling
      BY <1>1, <2>1
    <3> QED BY <3>1, <3>2, <1>1, <1>3, <1>4, LeftAlone DEF matcherVars, clientVars
  <2>2. CASE c = e /\ Clean(c)'
    <3>1. Clean(e)
      BY <1>1, <1>3, <2>2, CleanBefore DEF FifoInv, clientVars
    <3>2. Asking(e) /\ first # [conn |-> e, cancel |-> TRUE] /\ ~AnswerDue(e)
      BY <1>1, <3>1, AskingOnly DEF RequestDue, Busy
    <3>3. e \in nearestMap /\ ~InChannel(e, TRUE) /\ Queued(e)
      BY <1>1, <3>2 DEF Asking, Queued
    <3>4. ~InChannel(e, FALSE) /\ first # [conn |-> e, cancel |-> FALSE]
      BY <3>2, <3>3 DEF Asking
    <3>5. nearestMap' = {d \in nearestMap : ~Same(e, d)}
      <4>1. causes' # Spoilt({e}, "fault")
        BY <2>2, SpoiltType, TypeParts DEF Clean, FifoInv
      <4> QED BY <4>1, <1>2
    <3>6. e \notin nearestMap' /\ e \notin cancelling'
      BY <3>5, <1>1 DEF Same
    <3>7. /\ ~Queued(e)' /\ ~AnswerDue(e)' /\ ~InChannel(e, TRUE)' /\ ~InChannel(e, FALSE)'
          /\ first' # [conn |-> e, cancel |-> TRUE] /\ first' # [conn |-> e, cancel |-> FALSE]
      BY <3>2, <3>3, <3>4, <3>6, <1>1 DEF Queued, AnswerDue, InChannel, matcherVars
    <3>8. Place(e) = "out" /\ Place(e)' = "out"
      BY <1>1, <3>6, <3>7 DEF Place
    <3>9. InTurn(up[e], Place(e))' /\ (e \in search' <=> PlaceAfter(up[e], Place(e))' = "in")
      BY <3>2, <3>8, <1>1 DEF Asking, InTurn, PlaceAfter, clientVars
    <3>10. Asking(e)'
      BY <3>6, <3>7, <3>9 DEF Asking
    <3> QED BY <3>7, <3>10, <2>2 DEF View
  <2>3. CASE ~Clean(c)'
    BY <2>3 DEF View
  <2> QED BY <2>1, <2>2, <2>3
<1>6. OneEach'
  BY <1>1 DEF FifoInv, OneEach, matcherVars
<1> QED BY <1>4, <1>5, <1>6 DEF FifoInv

-----------------------------------------------------------------------------
(* The nearest-score queue.                                                *)

\* Who enters the map has asked for nothing since.
LEMMA EnterMapInv ==
  ASSUME FifoInv, NEW e \in Conns, EnterMap(e)
  PROVE  FifoInv'
<1>1. /\ coming[e] > 0 /\ coming' = [coming EXCEPT ![e] = @ - 1]
      /\ nearestMap' = {d \in nearestMap : ~Same(e, d)} \cup {e}
      /\ causes' = Spoilt(Sharing(e), "shared")
      /\ UNCHANGED <<clientVars, up, down, handlerVars, matcherVars, making, faults>> /\ Observe
  BY DEF EnterMap, Entered
<1>2. /\ causes' \in [Conns -> SUBSET {"fault", "later", "shared"}]
      /\ \A c \in Conns : causes[c] \subseteq causes'[c]
  BY <1>1, SpoiltType, TypeParts DEF FifoInv
<1>3. /\ coming \in [Conns -> Nat] /\ coming' \in [Conns -> Nat] /\ coming'[e] = coming[e] - 1
      /\ \A d \in Conns \ {e} : coming'[d] = coming[d]
      /\ nearestMap \subseteq Conns
  BY <1>1, TypeParts DEF FifoInv, Score, Sets
<1>4. FifoTypeOK'
  <2>1. Sets'
    BY <1>1, ObserveType, TypeParts DEF FifoInv, Sets, handlerVars, clientVars
  <2>2. Packets' /\ sendq' \in Seq(Agent) /\ Worker' /\ Tapped'
    BY <1>1, TypeParts DEF FifoInv, Packets, Worker, Tapped, handlerVars, matcherVars, clientVars
  <2>3. Notes'
    BY <1>1, <1>2, TypeParts DEF FifoInv, Notes
  <2>4. Score'
    <3>1. making' \in [Parties -> Nat]
      BY <1>1, TypeParts DEF FifoInv, Score
    <3>2. \A c, d \in nearestMap' : Same(c, d) => c = d
      BY <1>1, TypeParts DEF FifoInv, Score, Same
    <3> QED BY <3>1, <3>2, <1>3 DEF Score
  <2> QED BY <2>1, <2>2, <2>3, <2>4, PartsNext
<1>5. ASSUME NEW c \in Conns PROVE View(c)'
  <2>1. CASE c # e
    <3>1. ASSUME Clean(c)' PROVE c \in nearestMap' <=> c \in nearestMap
      <4>1. CASE c \in nearestMap /\ Same(e, c)
        BY <1>1, <4>1, <3>1, <2>1, SharedSpoilt DEF Clean
      <4> QED BY <4>1, <1>1, <2>1
    <3> QED BY <3>1, <1>1, <1>2, <1>3, <1>4, <2>1, LeftAlone DEF handlerVars, matcherVars, clientVars
  <2>2. CASE c = e /\ Clean(c)'
    <3>1. Clean(e)
      BY <1>1, <1>2, <2>2, CleanBefore DEF FifoInv, handlerVars, clientVars
    <3>2. AnswerDue(e)
      BY <1>1 DEF AnswerDue
    <3>3. Answered(e) /\ first # [conn |-> e, cancel |-> TRUE]
      BY <3>1, <3>2, AnswerOnly
    <3>4. ~RequestDue(e) /\ ~Queued(e) /\ (e \in search <=> down[e] # <<"cancelled">>)
      BY <3>3 DEF Answered
    <3>5. coming[e] = 1 /\ down[e] = <<>> /\ ~Making(e)
      BY <3>3, <1>1 DEF Answered, OneAnswer
    <3>6. ~AnswerDue(e)'
      <4>1. coming'[e] = 0 /\ down'[e] = <<>> /\ ~Making(e)'
        BY <1>1, <1>3, <3>5 DEF Making
      <4> QED BY <4>1 DEF AnswerDue, Making
    <3>7. up[e] = <<>> /\ ~InChannel(e, TRUE) /\ ~InChannel(e, FALSE) /\ e \notin cancelling
      BY <3>4, OfConn DEF RequestDue, Busy
    <3>8. /\ first' # [conn |-> e, cancel |-> FALSE] /\ first' # [conn |-> e, cancel |-> TRUE]
          /\ Queued(e)' /\ ~InChannel(e, TRUE)' /\ ~InChannel(e, FALSE)' /\ e \notin cancelling'
      BY <1>1, <3>3, <3>4, <3>7 DEF Queued, InChannel, handlerVars, matcherVars
    <3>9. Place(e)' = "in"
      BY <3>8 DEF Place
    <3>10. up'[e] = <<>> /\ e \in search'
      BY <1>1, <3>4, <3>5, <3>7 DEF handlerVars, clientVars
    <3>11. InTurn(up[e], Place(e))' /\ PlaceAfter(up[e], Place(e))' = "in"
      BY <3>9, <3>10 DEF InTurn, PlaceAfter
    <3>12. Asking(e)'
      BY <3>8, <3>10, <3>11 DEF Asking
    <3> QED BY <3>6, <3>8, <3>12, <2>2 DEF View
  <2>3. CASE ~Clean(c)'
    BY <2>3 DEF View
  <2> QED BY <2>1, <2>2, <2>3
<1>6. OneEach'
  BY <1>1 DEF FifoInv, OneEach, handlerVars, matcherVars
<1> QED BY <1>4, <1>5, <1>6 DEF FifoInv

\* Who never enters the map has failed, and who leaves it for him is another
\* connection of his.
LEMMA NeverEntersInv ==
  ASSUME FifoInv, NEW e \in Conns, NeverEnters(e)
  PROVE  FifoInv'
<1>1. /\ Fault /\ coming' = [coming EXCEPT ![e] = @ - 1] /\ coming[e] > 0 /\ Observe
      /\ UNCHANGED <<clientVars, up, down, handlerVars, matcherVars>>
  BY DEF NeverEnters
<1>2. \/ causes' = Spoilt({e}, "fault") /\ UNCHANGED <<nearestMap, making>>
      \/ /\ nearestMap' = {d \in nearestMap : ~Same(e, d)}
         /\ making' = [making EXCEPT ![{e}] = @ + 1]
         /\ causes' = [Spoilt(Sharing(e), "shared") EXCEPT ![e] = @ \cup {"fault"}]
  BY DEF NeverEnters
<1>3. /\ coming \in [Conns -> Nat] /\ coming' \in [Conns -> Nat]
      /\ \A d \in Conns \ {e} : coming'[d] = coming[d]
  BY <1>1, TypeParts DEF FifoInv, Score
<1>4. /\ {e} \in Parties /\ making \in [Parties -> Nat] /\ making' \in [Parties -> Nat]
      /\ \A d \in Conns \ {e} : \A m \in Parties : d \in m => making'[m] = making[m]
  <2>1. {e} \in Parties /\ making \in [Parties -> Nat]
    BY TypeParts DEF FifoInv, Score, Parties
  <2>2. CASE UNCHANGED making
    BY <2>1, <2>2
  <2>3. CASE making' = [making EXCEPT ![{e}] = @ + 1]
    <3>1. making' \in [Parties -> Nat] /\ \A m \in Parties : m # {e} => making'[m] = making[m]
      BY <2>1, <2>3
    <3>2. \A d \in Conns \ {e} : \A m \in Parties : d \in m => m # {e}
      OBVIOUS
    <3> QED BY <2>1, <3>1, <3>2
  <2> QED BY <1>2, <2>1, <2>2, <2>3
<1>5. /\ causes' \in [Conns -> SUBSET {"fault", "later", "shared"}]
      /\ \A c \in Conns : causes[c] \subseteq causes'[c]
      /\ causes'[e] # {}
  <2>1. CASE causes' = Spoilt({e}, "fault")
    BY <2>1, SpoiltType, TypeParts DEF FifoInv
  <2>2. CASE causes' = [Spoilt(Sharing(e), "shared") EXCEPT ![e] = @ \cup {"fault"}]
    BY <2>2, SharingNoted
  <2> QED BY <1>2, <2>1, <2>2
<1>6. FifoTypeOK'
  <2>1. Sets' /\ nearestMap' \subseteq nearestMap
    BY <1>1, <1>2, ObserveType, TypeParts DEF FifoInv, Sets, handlerVars, clientVars
  <2>2. Packets' /\ sendq' \in Seq(Agent) /\ Worker' /\ Tapped'
    BY <1>1, TypeParts DEF FifoInv, Packets, Worker, Tapped, matcherVars, clientVars
  <2>3. Score'
    BY <1>3, <1>4, <2>1, TypeParts DEF FifoInv, Score
  <2>4. Notes'
    BY <1>1, <1>5, FaultType, TypeParts DEF FifoInv, Notes
  <2> QED BY <2>1, <2>2, <2>3, <2>4, PartsNext
<1>7. ASSUME NEW c \in Conns PROVE View(c)'
  <2>1. CASE c = e
    BY <2>1, <1>5 DEF View, Clean
  <2>2. CASE c # e
    <3>1. ASSUME Clean(c)' PROVE c \in nearestMap' <=> c \in nearestMap
      <4>1. CASE UNCHANGED nearestMap
        BY <4>1
      <4>2. CASE /\ nearestMap' = {d \in nearestMap : ~Same(e, d)}
                 /\ causes' = [Spoilt(Sharing(e), "shared") EXCEPT ![e] = @ \cup {"fault"}]
        <5>1. Spoilt(Sharing(e), "shared")[c] = {}
          BY <4>2, <3>1, <2>2, SharingNoted DEF Clean
        <5> QED BY <5>1, <4>2, <2>2, OthersOut
      <4> QED BY <4>1, <4>2, <1>2
    <3> QED BY <3>1, <2>2, <1>1, <1>3, <1>4, <1>5, <1>6, LeftAlone
            DEF handlerVars, matcherVars, clientVars
  <2> QED BY <2>1, <2>2
<1>8. OneEach'
  BY <1>1 DEF FifoInv, OneEach, matcherVars
<1> QED BY <1>6, <1>7, <1>8 DEF FifoInv

\* One who is queued, and asks for nothing else, is searching.
LEMMA QueuedSearches ==
  ASSUME FifoInv, NEW c \in Conns, Clean(c), Queued(c), ~RequestDue(c)
  PROVE  c \in search
<1>1. Asking(c)
  BY AskingOnly
<1>2. up[c] = <<>> /\ ~InChannel(c, TRUE) /\ c \notin cancelling
  BY OfConn DEF RequestDue, Busy
<1>3. Place(c) = "in"
  BY <1>2 DEF Place
<1>4. PlaceAfter(up[c], Place(c)) = "in"
  BY <1>2, <1>3 DEF PlaceAfter
<1> QED BY <1>1, <1>4 DEF Asking

\* One who leaves the map does so with an answer.
LEMMA LeavesMap ==
  ASSUME FifoInv, NEW c \in Conns, c \in nearestMap, Clean(c), Clean(c)', Observe,
         UNCHANGED <<sendq, first, up, cancelling, coming, search>>, c \notin nearestMap',
         down'[c] # <<"cancelled">>, AnswerDue(c)', OneAnswer(c)'
  PROVE  View(c)'
<1>1. Queued(c)
  BY DEF Queued
<1>2. Asking(c) /\ first # [conn |-> c, cancel |-> TRUE]
  BY <1>1, AskingOnly
<1>3. ~Queued(c)'
  BY <1>2 DEF Asking, Queued
<1>4. ~RequestDue(c)
  BY NotBoth DEF RequestDue, Sending, Busy
<1>5. c \in search
  BY <1>1, <1>4, QueuedSearches
<1> QED BY <1>2, <1>3, <1>5, SearchAnswered

\* Who is taken from the map has a match coming instead.
LEMMA TakenInv ==
  ASSUME FifoInv, NEW e \in Conns, Taken(e)
  PROVE  FifoInv'
<1>1. /\ e \in nearestMap /\ nearestMap' = nearestMap \ {e}
      /\ making' = [making EXCEPT ![{e}] = @ + 1]
      /\ UNCHANGED <<clientVars, up, down, handlerVars, matcherVars, coming, faults, causes>> /\ Observe
  BY DEF Taken
<1>2. /\ {e} \in Parties /\ making \in [Parties -> Nat]
      /\ \A c \in Conns : c \in {e} <=> c = e
  BY TypeParts DEF FifoInv, Score, Parties
<1>3. FifoTypeOK'
  <2>1. Sets'
    BY <1>1, ObserveType, TypeParts DEF FifoInv, Sets, handlerVars, clientVars
  <2>2. Packets' /\ sendq' \in Seq(Agent) /\ Worker' /\ Tapped' /\ Notes'
    BY <1>1, TypeParts DEF FifoInv, Packets, Worker, Tapped, Notes, handlerVars, matcherVars, clientVars
  <2>3. Score'
    <3>1. making' \in [Parties -> Nat]
      BY <1>1, <1>2
    <3> QED BY <3>1, <1>1, TypeParts DEF FifoInv, Score
  <2> QED BY <2>1, <2>2, <2>3, PartsNext
<1>4. ASSUME NEW c \in Conns PROVE View(c)'
  <2>1. CASE c # e
    <3>1. \A m \in Parties : c \in m => making'[m] = making[m]
      BY <1>1, <1>2, <2>1, OneMore
    <3> QED BY <3>1, <1>1, <1>3, <2>1, LeftAlone DEF handlerVars, matcherVars, clientVars
  <2>2. CASE c = e /\ Clean(c)'
    <3>1. Clean(c)
      BY <1>1, <2>2, CleanBefore DEF FifoInv, handlerVars, clientVars
    <3>2. coming[c] = 0 /\ down[c] = <<>> /\ ~Making(c)
      BY <1>1, <2>2, <3>1, AskingOnly DEF Queued
    <3>3. Making(c)' /\ OneMatch(c)'
      BY <1>1, <1>2, <2>2, <3>2, OneMore
    <3>4. AnswerDue(c)' /\ OneAnswer(c)' /\ down'[c] # <<"cancelled">>
      <4>1. coming'[c] = 0 /\ down'[c] = <<>>
        BY <3>2, <1>1
      <4>2. AnswerDue(c)'
        BY <3>3 DEF AnswerDue, Making
      <4>3. OneAnswer(c)'
        BY <3>3, <4>1 DEF OneAnswer
      <4> QED BY <4>1, <4>2, <4>3
    <3> QED BY <1>1, <2>2, <3>1, <3>4, LeavesMap DEF handlerVars, matcherVars, clientVars
  <2>3. CASE ~Clean(c)'
    BY <2>3 DEF View
  <2> QED BY <2>1, <2>2, <2>3
<1>5. OneEach'
  BY <1>1 DEF FifoInv, OneEach, handlerVars, matcherVars
<1> QED BY <1>3, <1>4, <1>5 DEF FifoInv

\* Who is taken with somebody who has gone is told to ask again.
LEMMA PartedInv ==
  ASSUME FifoInv, NEW e \in Conns, NEW d \in Conns, Parted(e, d)
  PROVE  FifoInv'
<1>1. /\ {e, d} \subseteq nearestMap /\ e # d /\ d \in gone
      /\ nearestMap' = nearestMap \ {e, d} /\ Tell({e}, "retry3")
      /\ UNCHANGED <<clientVars, up, handlerVars, matcherVars, coming, making, faults, causes>> /\ Observe
  BY DEF Parted
<1>2. /\ down' \in [Conns -> Seq(Down)]
      /\ \A c \in Conns :
           down'[c] = IF c \in {e} \ gone THEN Append(down[c], "retry3") ELSE down[c]
  BY <1>1, TellType, TypeParts DEF FifoInv, Down
<1>3. FifoTypeOK'
  <2>1. Sets'
    BY <1>1, ObserveType, TypeParts DEF FifoInv, Sets, handlerVars, clientVars
  <2>2. sendq' \in Seq(Agent) /\ Worker' /\ Tapped' /\ Notes' /\ Score'
    BY <1>1, TypeParts DEF FifoInv, Worker, Tapped, Notes, Score, handlerVars, matcherVars, clientVars
  <2>3. Packets'
    BY <1>1, <1>2, TypeParts DEF FifoInv, Packets
  <2> QED BY <2>1, <2>2, <2>3, PartsNext
<1>4. ASSUME NEW c \in Conns PROVE View(c)'
  <2>1. CASE c \notin {e, d}
    <3>1. down'[c] = down[c] /\ (c \in nearestMap' <=> c \in nearestMap)
      BY <1>1, <1>2, <2>1
    <3> QED BY <3>1, <1>1, <1>3, LeftAlone DEF handlerVars, matcherVars, clientVars
  <2>2. CASE c = e /\ Clean(c)'
    <3>1. Clean(c) /\ c \notin gone
      BY <1>1, <2>2, CleanBefore DEF FifoInv, handlerVars, clientVars, Clean
    <3>2. coming[c] = 0 /\ down[c] = <<>> /\ ~Making(c)
      BY <1>1, <2>2, <3>1, AskingOnly DEF Queued
    <3>3. down'[c] = <<"retry3">>
      BY <1>2, <2>2, <3>1, <3>2
    <3>4. AnswerDue(c)' /\ OneAnswer(c)' /\ down'[c] # <<"cancelled">>
      BY <3>2, <3>3, <1>1 DEF AnswerDue, OneAnswer, Making
    <3> QED BY <1>1, <2>2, <3>1, <3>4, LeavesMap DEF handlerVars, matcherVars, clientVars
  <2>3. CASE c = d
    BY <1>1, <2>3 DEF View, Clean, handlerVars, clientVars
  <2>4. CASE ~Clean(c)'
    BY <2>4 DEF View
  <2> QED BY <2>1, <2>2, <2>3, <2>4
<1>5. OneEach'
  BY <1>1 DEF FifoInv, OneEach, handlerVars, matcherVars
<1> QED BY <1>3, <1>4, <1>5 DEF FifoInv

-----------------------------------------------------------------------------
(* matchWorker.                                                            *)

\* What the worker takes from the channel is the oldest agent there.
LEMMA TakesHead ==
  ASSUME FifoInv, sendq # <<>>, sendq' = Tail(sendq), NEW h, h = Head(sendq)
  PROVE  /\ sendq' \in Seq(Agent) /\ OneEach' /\ h \in Agent /\ h.conn \in Conns
         /\ h.cancel \in BOOLEAN /\ h = [conn |-> h.conn, cancel |-> h.cancel]
         /\ InChannel(h.conn, h.cancel)
         /\ \A c \in Conns, b \in BOOLEAN : InChannel(c, b)' <=> c # h.conn /\ InChannel(c, b)
<1>1. sendq \in Seq(Agent) /\ Apart(sendq)
  BY DEF FifoInv, FifoTypeOK, OneEach
<1>2. sendq' \in Seq(Agent) /\ h \in Agent
  BY <1>1
<1>3. ASSUME NEW c \in Conns, NEW b \in BOOLEAN
      PROVE  /\ InChannel(c, b)' <=> c # h.conn /\ InChannel(c, b)
             /\ InChannel(h.conn, h.cancel) /\ OneEach'
  <2>1. /\ Has(Tail(sendq), c, b) <=> c # Head(sendq).conn /\ Has(sendq, c, b)
        /\ Has(sendq, Head(sendq).conn, Head(sendq).cancel)
        /\ Apart(Tail(sendq))
    BY ONLY <1>1, HasTail, sendq # <<>>, b \in BOOLEAN
  <2>2. /\ Has(sendq', c, b) <=> c # h.conn /\ Has(sendq, c, b)
        /\ Has(sendq, h.conn, h.cancel)
        /\ Apart(sendq')
    BY ONLY <2>1, sendq' = Tail(sendq), h = Head(sendq)
  <2> QED BY ONLY <2>2 DEF InChannel, OneEach
<1>4. h.conn \in Conns /\ h.cancel \in BOOLEAN /\ h = [conn |-> h.conn, cancel |-> h.cancel]
  BY <1>2 DEF Agent
<1> QED BY <1>2, <1>3, <1>4

\* A clean connection that waits with a search is not queued, one that waits with a
\* cancel is c1.
LEMMA InChannelView ==
  ASSUME FifoInv, NEW c \in Conns, Clean(c), NEW b \in BOOLEAN, InChannel(c, b)
  PROVE  /\ Asking(c) /\ first # [conn |-> c, cancel |-> TRUE]
         /\ coming[c] = 0 /\ down[c] = <<>> /\ ~Making(c) /\ ~AnswerDue(c)
         /\ b => first = [conn |-> c, cancel |-> FALSE]
         /\ ~b => ~Queued(c) /\ ~InChannel(c, TRUE) /\ c \notin cancelling
<1>1. RequestDue(c)
  BY OfConn DEF RequestDue, Busy
<1>2. /\ Asking(c) /\ first # [conn |-> c, cancel |-> TRUE]
      /\ coming[c] = 0 /\ down[c] = <<>> /\ ~Making(c) /\ ~AnswerDue(c)
  BY <1>1, AskingOnly
<1>3. b => first = [conn |-> c, cancel |-> FALSE]
  BY <1>2 DEF Asking
<1>4. ~b => ~Queued(c) /\ ~InChannel(c, TRUE) /\ c \notin cancelling
  BY <1>2 DEF Asking, Queued
<1> QED BY <1>2, <1>3, <1>4

\* matchWorker has a search: a cancel of a connection can only come after its
\* search, whose agent the worker has then.
LEMMA TakeFirstInv ==
  ASSUME FifoInv, TakeFirst
  PROVE  FifoInv'
<1> DEFINE h == Head(sendq)
<1>1. /\ worker = "first" /\ sendq # <<>> /\ first' = h /\ sendq' = Tail(sendq) /\ worker' = "push"
      /\ UNCHANGED <<clientVars, up, down, handlerVars, scoreVars, making, faults, causes>> /\ Observe
  BY DEF TakeFirst
<1>2. /\ sendq' \in Seq(Agent) /\ OneEach' /\ h \in Agent /\ h.conn \in Conns
      /\ h.cancel \in BOOLEAN /\ h = [conn |-> h.conn, cancel |-> h.cancel]
      /\ InChannel(h.conn, h.cancel)
      /\ \A c \in Conns, b \in BOOLEAN : InChannel(c, b)' <=> c # h.conn /\ InChannel(c, b)
  BY <1>1, TakesHead
<1> HIDE DEF h
<1>3. first = NoAgent /\ h # NoAgent
  BY <1>1, <1>2, NoAgentApart, TypeParts DEF FifoInv, Worker
<1>4. FifoTypeOK'
  <2>1. Sets'
    BY <1>1, ObserveType, TypeParts DEF FifoInv, Sets, handlerVars, scoreVars, clientVars
  <2>2. Packets' /\ Tapped' /\ Score' /\ Notes'
    BY <1>1, TypeParts DEF FifoInv, Packets, Tapped, Score, Notes, handlerVars, scoreVars, clientVars
  <2>3. Worker'
    BY <1>1, <1>2, <1>3 DEF Worker
  <2> QED BY <2>1, <2>2, <2>3, <1>2, PartsNext
<1>5. ASSUME NEW c \in Conns PROVE View(c)'
  <2>1. CASE ~Clean(c)'
    BY <2>1 DEF View
  <2>2. CASE c # h.conn /\ Clean(c)'
    <3>1. Clean(c)
      BY <1>1, <2>2, CleanBefore DEF FifoInv, handlerVars, clientVars
    <3>2. ASSUME NEW b \in BOOLEAN
          PROVE  /\ first' = [conn |-> c, cancel |-> b] <=> first = [conn |-> c, cancel |-> b]
                 /\ InChannel(c, b)' <=> InChannel(c, b)
      <4>1. first # [conn |-> c, cancel |-> b]
        BY <1>3, NoAgentApart
      <4>2. first' # [conn |-> c, cancel |-> b]
        BY <1>1, <1>2, <2>2
      <4> QED BY <4>1, <4>2, <1>2, <2>2
    <3>3. Still(c)
      BY <3>1, <3>2, <1>1 DEF Still, handlerVars, scoreVars, clientVars
    <3> QED BY <3>3, <1>4, StillView
  <2>3. CASE c = h.conn /\ Clean(c)'
    <3>1. Clean(c)
      BY <1>1, <2>3, CleanBefore DEF FifoInv, handlerVars, clientVars
    <3>2. h = [conn |-> c, cancel |-> FALSE]
      <4>1. ~h.cancel
        <5> SUFFICES ASSUME h.cancel PROVE FALSE
          OBVIOUS
        <5>1. first = [conn |-> c, cancel |-> FALSE]
          BY <1>2, <2>3, <3>1, InChannelView
        <5> QED BY <5>1, <1>3, NoAgentApart
      <4>2. h.cancel = FALSE
        BY <4>1, <1>2
      <4> QED BY <4>2, <1>2, <2>3
    <3>3. InChannel(c, FALSE)
      BY <3>2, <1>2, <2>3
    <3>4. Asking(c) /\ ~AnswerDue(c) /\ ~Queued(c) /\ ~InChannel(c, TRUE) /\ c \notin cancelling
      BY <3>1, <3>3, InChannelView
    <3>5. Place(c) = "in"
      BY <3>3, <3>4 DEF Place
    <3>6. /\ ~InChannel(c, TRUE)' /\ ~InChannel(c, FALSE)' /\ Queued(c)'
          /\ first' = [conn |-> c, cancel |-> FALSE] /\ c \notin cancelling'
      BY <1>1, <1>2, <2>3, <3>2, <3>4 DEF Queued, handlerVars
    <3>7. Place(c)' = "in"
      BY <3>6 DEF Place
    <3>8. /\ InTurn(up[c], Place(c))' /\ (c \in search' <=> PlaceAfter(up[c], Place(c))' = "in")
      BY <3>4, <3>5, <3>7, <1>1 DEF Asking, InTurn, PlaceAfter, handlerVars, clientVars
    <3>9. c \notin nearestMap'
      BY <3>4, <1>1 DEF Queued, handlerVars, scoreVars
    <3>10. Asking(c)'
      BY <3>6, <3>8, <3>9 DEF Asking
    <3>11. ~AnswerDue(c)'
      BY <3>4, <1>1 DEF AnswerDue, handlerVars, scoreVars
    <3>12. first' # [conn |-> c, cancel |-> TRUE]
      BY <3>6
    <3> QED BY <3>10, <3>11, <3>12 DEF View
  <2> QED BY <2>1, <2>2, <2>3
<1> QED BY <1>2, <1>4, <1>5 DEF FifoInv

\* The push message changes nothing for the players.
LEMMA PushInv ==
  ASSUME FifoInv, Push
  PROVE  FifoInv'
<1>1. /\ worker = "push" /\ worker' = "second" /\ Observe
      /\ UNCHANGED <<clientVars, up, down, handlerVars, sendq, first, scoreVars, making, faults, causes>>
  BY DEF Push
<1>2. FifoTypeOK'
  <2>1. Sets'
    BY <1>1, ObserveType, TypeParts DEF FifoInv, Sets, handlerVars, scoreVars, clientVars
  <2>2. Packets' /\ sendq' \in Seq(Agent) /\ Tapped' /\ Score' /\ Notes'
    BY <1>1, TypeParts DEF FifoInv, Packets, Tapped, Score, Notes, handlerVars, scoreVars, clientVars
  <2>3. Worker'
    BY <1>1, TypeParts DEF FifoInv, Worker
  <2> QED BY <2>1, <2>2, <2>3, PartsNext
<1>3. \A c \in Conns : View(c)'
  BY <1>1, <1>2, LeftAlone DEF handlerVars, scoreVars, clientVars
<1>4. OneEach'
  BY <1>1 DEF FifoInv, OneEach
<1> QED BY <1>2, <1>3, <1>4 DEF FifoInv

\* The queue is empty again, and the second agent gone.
LEMMA TakeSecondInv ==
  ASSUME FifoInv, NEW second \in Agent, TakeSecond(second)
  PROVE  /\ sendq' \in Seq(Agent) /\ OneEach' /\ Worker' /\ first' = NoAgent
         /\ first \in Agent /\ first = [conn |-> first.conn, cancel |-> first.cancel]
         /\ first.conn \in Conns /\ first.cancel \in BOOLEAN
         /\ second.conn \in Conns /\ second.cancel \in BOOLEAN
         /\ second = [conn |-> second.conn, cancel |-> second.cancel]
         /\ InChannel(second.conn, second.cancel)
         /\ \A c \in Conns, b \in BOOLEAN :
              /\ first' # [conn |-> c, cancel |-> b]
              /\ InChannel(c, b)' <=> c # second.conn /\ InChannel(c, b)
<1>1. /\ worker = "second" /\ sendq # <<>> /\ second = Head(sendq) /\ sendq' = Tail(sendq)
      /\ worker' = "first" /\ first' = NoAgent
  BY DEF TakeSecond
<1>2. first \in Agent
  BY <1>1, TypeParts DEF FifoInv, Worker
<1>3. first.conn \in Conns /\ first.cancel \in BOOLEAN
      /\ first = [conn |-> first.conn, cancel |-> first.cancel]
  BY <1>2 DEF Agent
<1>4. Worker'
  BY <1>1 DEF Worker
<1>5. \A c \in Conns, b \in BOOLEAN : first' # [conn |-> c, cancel |-> b]
  BY <1>1, NoAgentApart
<1>6. /\ sendq' \in Seq(Agent) /\ OneEach' /\ second.conn \in Conns
      /\ second.cancel \in BOOLEAN /\ second = [conn |-> second.conn, cancel |-> second.cancel]
      /\ InChannel(second.conn, second.cancel)
      /\ \A c \in Conns, b \in BOOLEAN : InChannel(c, b)' <=> c # second.conn /\ InChannel(c, b)
  BY <1>1, TakesHead
<1> QED BY <1>1, <1>2, <1>3, <1>4, <1>5, <1>6

\* Whose agent the worker does not have is not concerned.
LEMMA OthersSecond ==
  ASSUME FifoInv, NEW second \in Agent, TakeSecond(second), FifoTypeOK', Observe,
         UNCHANGED <<clientVars, up, cancelling, coming, nearestMap>>,
         NEW c \in Conns, c # first.conn, c # second.conn, down'[c] = down[c],
         \A m \in Parties : c \in m => making'[m] = making[m],
         causes[c] \subseteq causes'[c]
  PROVE  View(c)'
<1>1. CASE ~Clean(c)'
  BY <1>1 DEF View
<1>2. CASE Clean(c)'
  <2>1. Clean(c)
    BY <1>2, CleanBefore DEF FifoInv, handlerVars, clientVars
  <2>2. ASSUME NEW b \in BOOLEAN
        PROVE  /\ first' = [conn |-> c, cancel |-> b] <=> first = [conn |-> c, cancel |-> b]
               /\ InChannel(c, b)' <=> InChannel(c, b)
    <3>1. first # [conn |-> c, cancel |-> b]
      OBVIOUS
    <3>2. first' # [conn |-> c, cancel |-> b] /\ (InChannel(c, b)' <=> InChannel(c, b))
      BY TakeSecondInv
    <3> QED BY <3>1, <3>2
  <2>3. Still(c)
    BY <2>1, <2>2 DEF Still, handlerVars, clientVars
  <2> QED BY <2>3, StillView
<1> QED BY <1>1, <1>2

\* The search that waits in matchWorker is cancelled by its own connection.
LEMMA CancelledInv ==
  ASSUME FifoInv, NEW second \in Agent, Cancelled(second)
  PROVE  FifoInv'
<1> DEFINE e == second.conn
<1>1. /\ TakeSecond(second) /\ first.conn = e /\ second.cancel /\ Tell({e}, "cancelled")
      /\ UNCHANGED <<clientVars, up, handlerVars, scoreVars, making, faults, causes>> /\ Observe
  BY DEF Cancelled, OwnCancel
<1>2. /\ sendq' \in Seq(Agent) /\ OneEach' /\ Worker' /\ first' = NoAgent
      /\ e \in Conns /\ InChannel(e, second.cancel) /\ second.cancel \in BOOLEAN
      /\ \A c \in Conns, b \in BOOLEAN : first' # [conn |-> c, cancel |-> b]
  BY <1>1, TakeSecondInv
<1> HIDE DEF e
<1>3. InChannel(e, TRUE)
  BY <1>1, <1>2
<1>4. /\ down' \in [Conns -> Seq(Down)]
      /\ \A c \in Conns :
           down'[c] = IF c \in {e} \ gone THEN Append(down[c], "cancelled") ELSE down[c]
  BY <1>1, <1>2, TellType, TypeParts DEF FifoInv, Down
<1>5. FifoTypeOK'
  <2>1. Sets'
    BY <1>1, ObserveType, TypeParts DEF FifoInv, Sets, handlerVars, scoreVars, clientVars
  <2>2. Tapped' /\ Score' /\ Notes'
    BY <1>1, TypeParts DEF FifoInv, Tapped, Score, Notes, handlerVars, scoreVars, clientVars
  <2>3. Packets'
    BY <1>1, <1>4, TypeParts DEF FifoInv, Packets
  <2> QED BY <2>1, <2>2, <2>3, <1>2, PartsNext
<1>6. ASSUME NEW c \in Conns PROVE View(c)'
  <2>1. CASE ~Clean(c)'
    BY <2>1 DEF View
  <2>2. CASE c # e
    <3>1. down'[c] = down[c]
      BY <1>4, <2>2
    <3> QED BY <3>1, <1>1, <1>5, <2>2, OthersSecond DEF handlerVars, scoreVars, clientVars, e
  <2>3. CASE c = e /\ Clean(c)'
    <3>1. Clean(c) /\ c \notin gone
      BY <1>1, <2>3, CleanBefore DEF FifoInv, handlerVars, clientVars, Clean
    <3>2. /\ Asking(c) /\ first = [conn |-> c, cancel |-> FALSE]
          /\ coming[c] = 0 /\ down[c] = <<>> /\ ~Making(c)
      BY <1>3, <2>3, <3>1, InChannelView
    <3>3. down'[c] = <<"cancelled">>
      BY <1>4, <2>3, <3>1, <3>2
    <3>4. AnswerDue(c)' /\ OneAnswer(c)'
      <4>1. coming'[c] = 0 /\ ~Making(c)'
        BY <1>1, <3>2 DEF Making, handlerVars, scoreVars
      <4> QED BY <3>3, <4>1 DEF AnswerDue, OneAnswer
    <3>5. up[c] = <<>>
      BY <1>1, <2>3, <3>4, NotBoth DEF RequestDue, Busy
    <3>6. Place(c) = "out"
      BY <1>3, <2>3 DEF Place
    <3>7. c \notin search'
      BY <1>1, <3>2, <3>5, <3>6 DEF Asking, PlaceAfter, handlerVars, clientVars
    <3>8. ~Queued(c)'
      BY <1>1, <1>2, <3>2 DEF Asking, Queued, handlerVars, scoreVars
    <3> QED BY <1>1, <1>2, <2>3, <3>3, <3>4, <3>7, <3>8, SearchAnswered
  <2> QED BY <2>1, <2>2, <2>3
<1> QED BY <1>2, <1>5, <1>6 DEF FifoInv

\* The search that comes second is told something.
LEMMA SecondAnswered ==
  ASSUME FifoInv, NEW second \in Agent, TakeSecond(second), FifoTypeOK', Observe,
         UNCHANGED <<clientVars, up, cancelling, coming, nearestMap>>,
         NEW c \in Conns, c = second.conn, Clean(c), Clean(c)',
         first # [conn |-> c, cancel |-> FALSE],
         AnswerDue(c)', OneAnswer(c)', down'[c] # <<"cancelled">>
  PROVE  View(c)'
<1>1. /\ second.cancel \in BOOLEAN /\ InChannel(c, second.cancel)
      /\ \A b \in BOOLEAN : first' # [conn |-> c, cancel |-> b]
  BY TakeSecondInv
<1>2. second.cancel = FALSE
  <2> SUFFICES ASSUME second.cancel = TRUE PROVE FALSE
    BY <1>1
  <2> QED BY <1>1, InChannelView
<1>3. /\ Asking(c) /\ ~Queued(c) /\ ~InChannel(c, TRUE) /\ InChannel(c, FALSE)
      /\ c \notin cancelling
  BY <1>1, <1>2, InChannelView
<1>4. up[c] = <<>>
  BY NotBoth DEF RequestDue, Busy
<1>5. Place(c) = "in"
  BY <1>3 DEF Place
<1>6. c \in search'
  BY <1>3, <1>4, <1>5 DEF Asking, PlaceAfter, handlerVars, clientVars
<1>7. ~Queued(c)'
  BY <1>1, <1>3 DEF Queued
<1> QED BY <1>1, <1>6, <1>7, SearchAnswered

\* Two agents of one user: the second is told to try again, and the first is
\* another connection's or its own.
LEMMA FlushedInv ==
  ASSUME FifoInv, NEW second \in Agent, Flushed(second)
  PROVE  FifoInv'
<1> DEFINE e == second.conn
           a == first.conn
<1>1. /\ TakeSecond(second) /\ ~(a = e /\ second.cancel) /\ Tell({e}, "retry")
      /\ causes' = IF a = e THEN causes ELSE Spoilt({a}, "shared")
      /\ UNCHANGED <<clientVars, up, handlerVars, scoreVars, making, faults>> /\ Observe
  BY DEF Flushed, OwnCancel
<1>2. /\ sendq' \in Seq(Agent) /\ OneEach' /\ Worker' /\ first' = NoAgent
      /\ e \in Conns /\ a \in Conns /\ InChannel(e, second.cancel) /\ second.cancel \in BOOLEAN
      /\ first = [conn |-> a, cancel |-> first.cancel] /\ first.cancel \in BOOLEAN
      /\ \A c \in Conns, b \in BOOLEAN : first' # [conn |-> c, cancel |-> b]
  BY <1>1, TakeSecondInv
<1> HIDE DEF e, a
<1>3. /\ down' \in [Conns -> Seq(Down)]
      /\ \A c \in Conns :
           down'[c] = IF c \in {e} \ gone THEN Append(down[c], "retry") ELSE down[c]
  BY <1>1, <1>2, TellType, TypeParts DEF FifoInv, Down
<1>4. /\ causes' \in [Conns -> SUBSET {"fault", "later", "shared"}]
      /\ \A c \in Conns : causes[c] \subseteq causes'[c]
      /\ a # e => causes'[a] # {}
  BY <1>1, <1>2, SpoiltType, TypeParts DEF FifoInv, Notes
<1>5. FifoTypeOK'
  <2>1. Sets'
    BY <1>1, ObserveType, TypeParts DEF FifoInv, Sets, handlerVars, scoreVars, clientVars
  <2>2. Tapped' /\ Score' /\ Notes'
    BY <1>1, <1>4, TypeParts DEF FifoInv, Tapped, Score, Notes, handlerVars, scoreVars, clientVars
  <2>3. Packets'
    BY <1>1, <1>3, TypeParts DEF FifoInv, Packets
  <2> QED BY <2>1, <2>2, <2>3, <1>2, PartsNext
<1>6. ASSUME NEW c \in Conns PROVE View(c)'
  <2>1. CASE ~Clean(c)'
    BY <2>1 DEF View
  <2>2. CASE c # e /\ c # a
    <3>1. down'[c] = down[c]
      BY <1>3, <2>2
    <3> QED BY <3>1, <1>1, <1>4, <1>5, <2>2, OthersSecond DEF handlerVars, scoreVars, clientVars, e, a
  <2>3. CASE c = a /\ a # e
    BY <1>4, <2>3 DEF View, Clean
  <2>4. CASE c = e /\ Clean(c)'
    <3>1. Clean(c) /\ c \notin gone
      BY <1>1, <1>4, <2>4, CleanBefore DEF FifoInv, handlerVars, clientVars, Clean
    <3>2. coming[c] = 0 /\ down[c] = <<>> /\ ~Making(c) /\ first # [conn |-> c, cancel |-> TRUE]
      BY <1>2, <2>4, <3>1, InChannelView
    <3>3. first # [conn |-> c, cancel |-> FALSE]
      <4> SUFFICES ASSUME first = [conn |-> c, cancel |-> FALSE] PROVE FALSE
        OBVIOUS
      <4>1. a = e
        BY <2>4 DEF a
      <4>2. second.cancel = FALSE
        BY <4>1, <1>1, <1>2
      <4>3. ~Queued(c)
        BY <4>2, <1>2, <2>4, <3>1, InChannelView
      <4> QED BY <4>3 DEF Queued
    <3>4. down'[c] = <<"retry">>
      BY <1>3, <2>4, <3>1, <3>2
    <3>5. AnswerDue(c)' /\ OneAnswer(c)' /\ down'[c] # <<"cancelled">>
      <4>1. coming'[c] = 0 /\ ~Making(c)'
        BY <1>1, <3>2 DEF Making, handlerVars, scoreVars
      <4> QED BY <3>4, <4>1 DEF AnswerDue, OneAnswer
    <3> QED BY <1>1, <1>5, <2>4, <3>1, <3>3, <3>5, SecondAnswered DEF handlerVars, scoreVars, clientVars, e
  <2> QED BY <2>1, <2>2, <2>3, <2>4
<1> QED BY <1>2, <1>5, <1>6 DEF FifoInv

\* A match is answered on its way to either player, or at once.
LEMMA MatchAnswers ==
  ASSUME FifoInv, NEW written \in SUBSET Conns, NEW pair \in Parties, written \subseteq pair,
         IF written = pair
           THEN making' = [making EXCEPT ![written] = @ + 1] /\ UNCHANGED down
           ELSE UNCHANGED making /\ Tell(written, "retry"),
         UNCHANGED coming, NEW c \in Conns
  PROVE  /\ making' \in [Parties -> Nat] /\ down' \in [Conns -> Seq(Down)]
         /\ c \notin pair => /\ down'[c] = down[c]
                             /\ \A m \in Parties : c \in m => making'[m] = making[m]
         /\ c \in written \ gone /\ coming[c] = 0 /\ down[c] = <<>> /\ ~Making(c) =>
              AnswerDue(c)' /\ OneAnswer(c)' /\ down'[c] # <<"cancelled">>
<1>1. making \in [Parties -> Nat] /\ down \in [Conns -> Seq(Down)] /\ Packets
  BY TypeParts DEF FifoInv, Score, Packets
<1>2. CASE written = pair
  <2>1. making' = [making EXCEPT ![pair] = @ + 1] /\ UNCHANGED down
    BY <1>2
  <2>2. /\ c \notin pair => \A m \in Parties : c \in m => making'[m] = making[m]
        /\ c \in pair => Making(c)' /\ (~Making(c) => OneMatch(c)')
        /\ making' \in [Parties -> Nat]
    BY ONLY <1>1, <2>1, OneMore, pair \in Parties, c \in Conns
  <2>3. ASSUME c \in written \ gone, coming[c] = 0, down[c] = <<>>, ~Making(c)
        PROVE  AnswerDue(c)' /\ OneAnswer(c)' /\ down'[c] # <<"cancelled">>
    <3>1. Making(c)' /\ OneMatch(c)' /\ coming'[c] = 0 /\ down'[c] = <<>>
      BY <1>2, <2>1, <2>2, <2>3
    <3>2. AnswerDue(c)'
      BY <3>1 DEF AnswerDue, Making
    <3>3. OneAnswer(c)'
      BY <3>1 DEF OneAnswer
    <3> QED BY <3>1, <3>2, <3>3
  <2> QED BY <1>1, <2>1, <2>2, <2>3
<1>3. CASE written # pair
  <2>1. UNCHANGED making /\ Tell(written, "retry")
    BY <1>3
  <2>2. /\ down' \in [Conns -> Seq(Down)]
        /\ down'[c] = IF c \in written \ gone THEN Append(down[c], "retry") ELSE down[c]
    BY <1>1, <2>1, TellType DEF Down
  <2>3. ASSUME c \in written \ gone, coming[c] = 0, down[c] = <<>>, ~Making(c)
        PROVE  AnswerDue(c)' /\ OneAnswer(c)' /\ down'[c] # <<"cancelled">>
    <3>1. ~Making(c)' /\ coming'[c] = 0 /\ down'[c] = <<"retry">>
      BY <2>1, <2>2, <2>3 DEF Making
    <3> QED BY <3>1 DEF AnswerDue, OneAnswer
  <2> QED BY <1>1, <2>1, <2>2, <2>3
<1> QED BY <1>2, <1>3

\* Two players with a match coming, or one of them told to ask again.
LEMMA MatchInv ==
  ASSUME FifoInv, NEW second \in Agent, Match(second)
  PROVE  FifoInv'
<1> DEFINE e == second.conn
           a == first.conn
<1>1. /\ TakeSecond(second) /\ ~Same(a, e)
      /\ UNCHANGED <<clientVars, up, handlerVars, scoreVars, faults, causes>> /\ Observe
  BY DEF Match
<1>2. PICK written \in SUBSET {a, e} :
        /\ \A c \in {a, e} : Writable(c, c \in written)
        /\ IF written = {a, e}
           THEN making' = [making EXCEPT ![written] = @ + 1] /\ UNCHANGED down
           ELSE UNCHANGED making /\ Tell(written, "retry")
  BY DEF Match
<1>3. /\ sendq' \in Seq(Agent) /\ OneEach' /\ Worker' /\ first' = NoAgent
      /\ e \in Conns /\ a \in Conns /\ InChannel(e, second.cancel) /\ second.cancel \in BOOLEAN
      /\ first = [conn |-> a, cancel |-> first.cancel] /\ first.cancel \in BOOLEAN
      /\ \A c \in Conns, b \in BOOLEAN :
           first' # [conn |-> c, cancel |-> b] /\ (InChannel(c, b)' <=> c # e /\ InChannel(c, b))
  BY <1>1, TakeSecondInv
<1> HIDE DEF e, a
<1>4. a # e /\ {a, e} \in Parties /\ written \in SUBSET Conns /\ written \subseteq {a, e}
      /\ UNCHANGED coming
  BY <1>1, <1>3 DEF Same, Parties, handlerVars, scoreVars
<1>5. ASSUME NEW c \in Conns
      PROVE  /\ making' \in [Parties -> Nat] /\ down' \in [Conns -> Seq(Down)]
             /\ c \notin {a, e} => /\ down'[c] = down[c]
                                   /\ \A m \in Parties : c \in m => making'[m] = making[m]
             /\ c \in written \ gone /\ coming[c] = 0 /\ down[c] = <<>> /\ ~Making(c) =>
                  AnswerDue(c)' /\ OneAnswer(c)' /\ down'[c] # <<"cancelled">>
  <2> PICK pair \in Parties : pair = {a, e}
    BY <1>4
  <2>1. /\ written \in SUBSET Conns /\ written \subseteq pair /\ UNCHANGED coming
        /\ IF written = pair
           THEN making' = [making EXCEPT ![written] = @ + 1] /\ UNCHANGED down
           ELSE UNCHANGED making /\ Tell(written, "retry")
    BY ONLY <1>2, <1>4, pair = {a, e}
  <2>2. /\ making' \in [Parties -> Nat] /\ down' \in [Conns -> Seq(Down)]
        /\ c \notin pair => /\ down'[c] = down[c]
                            /\ \A m \in Parties : c \in m => making'[m] = making[m]
        /\ c \in written \ gone /\ coming[c] = 0 /\ down[c] = <<>> /\ ~Making(c) =>
             AnswerDue(c)' /\ OneAnswer(c)' /\ down'[c] # <<"cancelled">>
    BY ONLY <2>1, MatchAnswers, FifoInv, pair \in Parties, c \in Conns
  <2> QED BY ONLY <2>2, pair = {a, e}
<1>6. FifoTypeOK'
  <2>1. Sets'
    BY <1>1, ObserveType, TypeParts DEF FifoInv, Sets, handlerVars, scoreVars, clientVars
  <2>2. Tapped' /\ Notes'
    BY <1>1, TypeParts DEF FifoInv, Tapped, Notes, handlerVars, clientVars
  <2>3. Packets' /\ Score'
    BY <1>1, <1>3, <1>5, TypeParts DEF FifoInv, Packets, Score, handlerVars, scoreVars
  <2> QED BY <2>1, <2>2, <2>3, <1>3, PartsNext
<1>7. ASSUME NEW c \in {a, e}, Clean(c)'
      PROVE  Clean(c) /\ c \in Conns /\ c \in written \ gone
  <2>1. Clean(c) /\ c \notin gone /\ c \in Conns
    BY <1>1, <1>3, <1>7, CleanBefore DEF FifoInv, handlerVars, clientVars, Clean
  <2>2. c \in written
    BY <2>1, <1>2 DEF Writable
  <2> QED BY <2>1, <2>2
<1>8. ASSUME NEW c \in Conns PROVE View(c)'
  <2>1. CASE ~Clean(c)'
    BY <2>1 DEF View
  <2>2. CASE c \notin {a, e}
    BY <1>1, <1>5, <1>6, <2>2, OthersSecond DEF handlerVars, scoreVars, clientVars, e, a
  <2>3. CASE c = e /\ Clean(c)'
    <3>1. Clean(c) /\ c \in written \ gone
      BY <1>7, <2>3
    <3>2. coming[c] = 0 /\ down[c] = <<>> /\ ~Making(c)
      BY <1>3, <2>3, <3>1, InChannelView
    <3>3. first # [conn |-> c, cancel |-> FALSE]
      BY <1>4, <2>3 DEF a
    <3>4. AnswerDue(c)' /\ OneAnswer(c)' /\ down'[c] # <<"cancelled">>
      BY <1>5, <3>1, <3>2
    <3> QED BY <1>1, <1>6, <2>3, <3>1, <3>3, <3>4, SecondAnswered DEF handlerVars, scoreVars, clientVars, e
  <2>4. CASE c = a /\ Clean(c)'
    <3>1. Clean(c) /\ c \in written \ gone
      BY <1>7, <2>4
    <3>2. first = [conn |-> c, cancel |-> FALSE]
      <4>1. first # [conn |-> c, cancel |-> TRUE]
        BY <3>1 DEF FifoInv, View
      <4> QED BY <4>1, <1>3, <2>4
    <3>3. Queued(c)
      BY <3>2 DEF Queued
    <3>4. Asking(c) /\ coming[c] = 0 /\ down[c] = <<>> /\ ~Making(c)
      BY <3>1, <3>3, AskingOnly
    <3>5. AnswerDue(c)' /\ OneAnswer(c)' /\ down'[c] # <<"cancelled">>
      BY <1>5, <3>1, <3>4
    <3>6. ~RequestDue(c)'
      BY <1>1, <2>4, <3>5, NotBoth
    <3>7. ~RequestDue(c)
      <4>1. sendq' \in Seq(Agent) /\ up[c] = <<>> /\ ~Sending(c)' /\ c \notin cancelling
        BY <1>1, <1>3, <3>6 DEF RequestDue, Busy, handlerVars
      <4>2. ~InChannel(c, TRUE)' /\ ~InChannel(c, FALSE)'
        BY <4>1, HasAgent DEF InChannel, Sending
      <4>3. ~InChannel(c, TRUE) /\ ~InChannel(c, FALSE)
        BY <4>2, <1>3, <1>4, <2>4
      <4> QED BY <4>1, <4>3, OfConn DEF RequestDue, Busy
    <3>8. c \in search'
      BY <1>1, <3>1, <3>3, <3>7, QueuedSearches DEF handlerVars, clientVars
    <3>9. ~Queued(c)'
      BY <1>1, <1>3, <3>2, <3>4 DEF Asking, Queued, handlerVars, scoreVars
    <3> QED BY <1>1, <1>3, <2>4, <3>5, <3>8, <3>9, SearchAnswered
  <2> QED BY <2>1, <2>2, <2>3, <2>4
<1> QED BY <1>3, <1>6, <1>8 DEF FifoInv

-----------------------------------------------------------------------------
(* The battles.                                                            *)

\* A match on its way is the only answer its players wait for: now they are
\* told of it.
LEMMA ToldView ==
  ASSUME FifoInv, FifoTypeOK', NEW k \in Parties, making[k] > 0,
         making' = [making EXCEPT ![k] = @ - 1],
         NEW x \in {"matched", "later"}, Tell(k, x), Observe,
         UNCHANGED <<clientVars, up, handlerVars, matcherVars, scoreVars, causes>>,
         NEW c \in Conns
  PROVE  View(c)'
<1>1. making \in [Parties -> Nat] /\ Packets /\ k \in SUBSET Conns /\ x \in Down
  BY TypeParts DEF FifoInv, Score, Parties, Down
<1>2. /\ c \notin k => \A m \in Parties : c \in m => making'[m] = making[m]
      /\ c \in k => Making(c) /\ (OneMatch(c) => ~Making(c)')
  BY ONLY <1>1, OneLess, k \in Parties, making[k] > 0, c \in Conns,
     making' = [making EXCEPT ![k] = @ - 1]
<1>3. down'[c] = IF c \in k \ gone THEN Append(down[c], x) ELSE down[c]
  BY <1>1, TellType
<1>4. CASE ~Clean(c)'
  BY <1>4 DEF View
<1>5. CASE c \notin k
  BY <1>2, <1>3, <1>5, LeftAlone DEF handlerVars, clientVars, matcherVars, scoreVars
<1>6. CASE c \in k /\ Clean(c)'
  <2>1. Clean(c) /\ c \notin gone
    BY <1>6, CleanBefore DEF FifoInv, handlerVars, clientVars, Clean
  <2>2. AnswerDue(c)
    BY <1>2, <1>6 DEF AnswerDue, Making
  <2>3. Answered(c) /\ first # [conn |-> c, cancel |-> TRUE]
    BY <2>1, <2>2, AnswerOnly
  <2>4. coming[c] = 0 /\ down[c] = <<>> /\ OneMatch(c)
    BY <2>3, <1>2, <1>6 DEF Answered, OneAnswer
  <2>5. coming'[c] = 0 /\ down'[c] = <<x>> /\ ~Making(c)'
    BY <2>1, <2>4, <1>2, <1>3, <1>6 DEF handlerVars, scoreVars
  <2>6. AnswerDue(c)' /\ OneAnswer(c)' /\ down'[c] # <<"cancelled">>
    BY <2>5 DEF AnswerDue, OneAnswer
  <2>7. c \in search' /\ ~Queued(c)'
    BY <2>3, <2>4 DEF Answered, Queued, handlerVars, clientVars, matcherVars, scoreVars
  <2> QED BY <2>3, <2>6, <2>7, <1>6, SearchAnswered DEF handlerVars, matcherVars
<1> QED BY <1>4, <1>5, <1>6

\* A battle made is told to its players.
LEMMA BattleMadeInv ==
  ASSUME FifoInv, NEW m \in Parties, BattleMade(m)
  PROVE  FifoInv'
<1>1. /\ making[m] > 0 /\ making' = [making EXCEPT ![m] = @ - 1] /\ Tell(m, "matched")
      /\ UNCHANGED <<clientVars, up, handlerVars, matcherVars, scoreVars, faults, causes>> /\ Observe
  BY DEF BattleMade
<1>2. m \in SUBSET Conns /\ "matched" \in Down
  BY DEF Parties, Down
<1>3. FifoTypeOK'
  <2>1. down' \in [Conns -> Seq(Down)]
    BY <1>1, <1>2, TellType, TypeParts DEF FifoInv
  <2>2. Packets'
    BY <1>1, <2>1, TypeParts DEF FifoInv, Packets
  <2>3. making' \in [Parties -> Nat]
    BY <1>1, TypeParts DEF FifoInv, Score
  <2>4. Score'
    BY <1>1, <2>3, TypeParts DEF FifoInv, Score, handlerVars, scoreVars
  <2>5. Sets'
    BY <1>1, ObserveType, TypeParts DEF FifoInv, Sets, handlerVars, clientVars, scoreVars
  <2>6. sendq' \in Seq(Agent) /\ Worker' /\ Tapped' /\ Notes'
    BY <1>1, TypeParts DEF FifoInv, Worker, Tapped, Notes, handlerVars, clientVars, matcherVars
  <2> QED BY <2>2, <2>4, <2>5, <2>6, PartsNext
<1>4. \A c \in Conns : View(c)'
  BY <1>1, <1>3, ToldView
<1>5. OneEach'
  BY <1>1 DEF FifoInv, OneEach, handlerVars, matcherVars
<1> QED BY <1>3, <1>4, <1>5 DEF FifoInv

\* A battle that fails is told to its players.
LEMMA BattleFailsInv ==
  ASSUME FifoInv, NEW m \in Parties, BattleFails(m)
  PROVE  FifoInv'
<1>1. /\ making[m] > 0 /\ making' = [making EXCEPT ![m] = @ - 1] /\ Tell(m, "later")
      /\ UNCHANGED <<clientVars, up, handlerVars, matcherVars, scoreVars, causes>> /\ Observe /\ Fault
  BY DEF BattleFails
<1>2. m \in SUBSET Conns /\ "later" \in Down
  BY DEF Parties, Down
<1>3. FifoTypeOK'
  <2>1. down' \in [Conns -> Seq(Down)]
    BY <1>1, <1>2, TellType, TypeParts DEF FifoInv
  <2>2. Packets'
    BY <1>1, <2>1, TypeParts DEF FifoInv, Packets
  <2>3. making' \in [Parties -> Nat]
    BY <1>1, TypeParts DEF FifoInv, Score
  <2>4. Score'
    BY <1>1, <2>3, TypeParts DEF FifoInv, Score, handlerVars, scoreVars
  <2>5. Sets'
    BY <1>1, ObserveType, TypeParts DEF FifoInv, Sets, handlerVars, clientVars, scoreVars
  <2>6. sendq' \in Seq(Agent) /\ Worker' /\ Tapped'
    BY <1>1, TypeParts DEF FifoInv, Worker, Tapped, handlerVars, clientVars, matcherVars
  <2>7. Notes'
    BY <1>1, FaultType, TypeParts DEF FifoInv, Notes
  <2> QED BY <2>2, <2>4, <2>5, <2>6, <2>7, PartsNext
<1>4. \A c \in Conns : View(c)'
  BY <1>1, <1>3, ToldView
<1>5. OneEach'
  BY <1>1 DEF FifoInv, OneEach, handlerVars, matcherVars
<1> QED BY <1>3, <1>4, <1>5 DEF FifoInv

\* The player of a battle with a bot that fails is not told, and not held to
\* anything.
LEMMA BotFailsInv ==
  ASSUME FifoInv, NEW e \in Conns, BotFails(e)
  PROVE  FifoInv'
<1>1. /\ Fault /\ making[{e}] > 0 /\ making' = [making EXCEPT ![{e}] = @ - 1]
      /\ causes' = Spoilt({e}, "fault")
      /\ UNCHANGED <<clientVars, up, down, handlerVars, matcherVars, scoreVars>> /\ Observe
  BY DEF BotFails
<1>2. {e} \in Parties /\ making \in [Parties -> Nat]
  BY TypeParts DEF FifoInv, Score, Parties
<1>3. /\ causes' \in [Conns -> SUBSET {"fault", "later", "shared"}]
      /\ \A c \in Conns : causes[c] \subseteq causes'[c]
      /\ causes'[e] # {}
  BY <1>1, SpoiltType, TypeParts DEF FifoInv
<1>4. FifoTypeOK'
  <2>1. making' \in [Parties -> Nat]
    BY <1>1, <1>2
  <2>2. Score'
    BY <1>1, <2>1, TypeParts DEF FifoInv, Score, handlerVars, scoreVars
  <2>3. Sets'
    BY <1>1, ObserveType, TypeParts DEF FifoInv, Sets, handlerVars, clientVars, scoreVars
  <2>4. Packets' /\ sendq' \in Seq(Agent) /\ Worker' /\ Tapped'
    BY <1>1, TypeParts DEF FifoInv, Packets, Worker, Tapped, handlerVars, clientVars, matcherVars
  <2>5. Notes'
    BY <1>1, <1>3, FaultType, TypeParts DEF FifoInv, Notes
  <2> QED BY <2>2, <2>3, <2>4, <2>5, PartsNext
<1>5. ASSUME NEW c \in Conns PROVE View(c)'
  <2>1. CASE c = e
    BY <1>3, <2>1 DEF View, Clean
  <2>2. CASE c # e
    <3>1. c \notin {e}
      BY <2>2
    <3>2. making[{e}] > 0 /\ making' = [making EXCEPT ![{e}] = @ - 1]
      BY <1>1
    <3>3. \A m \in Parties : c \in m => making'[m] = making[m]
      BY ONLY <1>2, <3>1, <3>2, OneLess, c \in Conns
    <3> QED BY <3>3, <1>1, <1>3, <1>4, LeftAlone DEF handlerVars, clientVars, matcherVars, scoreVars
  <2> QED BY <2>1, <2>2
<1>6. OneEach'
  BY <1>1 DEF FifoInv, OneEach, handlerVars, matcherVars
<1> QED BY <1>4, <1>5, <1>6 DEF FifoInv

-----------------------------------------------------------------------------
(* The theorems.                                                           *)

\* Nothing changes when nothing happens.
LEMMA FifoStutterInv ==
  ASSUME FifoInv, UNCHANGED fifoVars
  PROVE  FifoInv'
<1>1. UNCHANGED <<search, taps, gone, up, down, shut, cancelling, sendq, worker, first, coming,
                  nearestMap, making, faults, crossed, causes>>
  BY DEF fifoVars, handlerVars, clientVars, matcherVars, scoreVars
<1>2. FifoTypeOK'
  BY <1>1 DEF FifoInv, FifoTypeOK
<1>3. OneEach'
  BY <1>1 DEF FifoInv, OneEach
<1>4. ASSUME NEW c \in Conns PROVE View(c)'
  <2>1. Still(c)
    BY <1>1 DEF Still, InChannel, Clean
  <2> QED BY <1>2, <2>1, StillView
<1> QED BY <1>2, <1>3, <1>4 DEF FifoInv

\* Every step keeps the invariant.
LEMMA FifoStepInv ==
  ASSUME FifoInv, FifoNext
  PROVE  FifoInv'
<1>1. CASE \E c \in Conns : Client(c)
  BY <1>1, OnlineInv, BackInv, ReadsInv, LeaveInv DEF Client
<1>2. CASE \E c \in Conns : Handler(c)
  BY <1>2, ResumedInv, GetFailsInv, HandleQueue2Inv, HandleQueue3Inv, HandleCancelInv,
     CancelAnsweredInv, CloseInv
     DEF Handler
<1>3. CASE \E c \in Conns : ScoreQueue(c)
  BY <1>3, EnterMapInv, NeverEntersInv, TakenInv, PartedInv DEF ScoreQueue
<1>4. CASE TakeFirst
  BY <1>4, TakeFirstInv
<1>5. CASE Push
  BY <1>5, PushInv
<1>6. CASE Pairing
  BY <1>6, CancelledInv, FlushedInv, MatchInv DEF Pairing
<1>7. CASE Battle
  BY <1>7, BattleMadeInv, BattleFailsInv, BotFailsInv DEF Battle
<1> QED BY <1>1, <1>2, <1>3, <1>4, <1>5, <1>6, <1>7 DEF FifoNext

\* FifoInv always holds: an agent of a connection is in the channel at most
\* once, and a connection whose requests have met no answer on its way, with no
\* failure, has one answer coming and nothing asked, or none coming and its
\* searches and cancels in turn.
THEOREM FifoInvariant == FifoSpec => []FifoInv
<1>1. FifoInit => FifoInv
  BY FifoInitInv
<1>2. FifoInv /\ [FifoNext]_fifoVars => FifoInv'
  BY FifoStepInv, FifoStutterInv
<1> QED BY <1>1, <1>2, PTL DEF FifoSpec

\* The clients, the two queues and matchWorker keep their types: c1 is nil
\* only while the worker waits for it, and a user is in the map at most once.
THEOREM FifoTypeCorrect == FifoSpec => []FifoTypeOK
<1>1. FifoInv => FifoTypeOK
  BY DEF FifoInv
<1> QED BY <1>1, FifoInvariant, PTL

\* At rest, the client and the match server agree on whether it searches, and no
\* cancel waits in matchWorker for a player to be matched with, for any number
\* of connections, users, taps and faults.
THEOREM ViewsStayTogether == FifoSpec => []ViewsAgree
<1>1. ASSUME FifoInv, NEW c \in Conns \ (gone \cup crossed), Settled(c), causes[c] = {}
      PROVE  /\ c \in search <=> Queued(c)
             /\ first # [conn |-> c, cancel |-> TRUE]
  <2>1. View(c) /\ Clean(c) /\ ~AnswerDue(c)
    BY <1>1 DEF FifoInv, Clean, Settled
  <2>2. Asking(c) /\ first # [conn |-> c, cancel |-> TRUE]
    BY ONLY <2>1 DEF View
  <2>3. up[c] = <<>> /\ ~InChannel(c, TRUE) /\ ~InChannel(c, FALSE) /\ c \notin cancelling
    BY <1>1, OfConn DEF Settled, RequestDue, Busy
  <2>4. Place(c) = IF Queued(c) THEN "in" ELSE "out"
    BY <2>3 DEF Place
  <2> QED BY <2>2, <2>3, <2>4 DEF Asking, PlaceAfter
<1>2. FifoInv => ViewsAgree
  BY <1>1 DEF ViewsAgree
<1> QED BY <1>2, FifoInvariant, PTL

-----------------------------------------------------------------------------
(* ScoreMatch: types.                                                      *)

USE OffersAssumption, TriesAssumption DEF OffersAssumption, TriesAssumption

\* A goroutine still in its loop has offers left, and one that is about to
\* join two agents was told of a match.
LoopBounded ==
  \A w \in Workers : pc[w] \notin {"timeout", "done"} => count[w] < MaxOffers
PairHasMatch ==
  \A w \in Workers : pc[w] \in {"matched", "pair"} => reply[w].kind = "matched"

Typed == TypeOK /\ LoopBounded /\ PairHasMatch

\* The start of both servers has values of their types.
LEMMA TypeInit == Init => Typed
BY DEF Init, Typed, TypeOK, LoopBounded, PairHasMatch, NoReply, Reply

\* The end of some goroutines keeps the types, if what else changes does.
LEMMA EndType ==
  ASSUME Typed, NEW ws \in SUBSET Workers,
         NEW o \in {"match", "bot", "retry", "silent", "cancelled", "dead"},
         EndAll(ws, o),
         UNCHANGED <<poolVars, requests, op, takenOut, unheard>>,
         nearest' \in SUBSET Users, failed' \in SUBSET Workers,
         broken' \in SUBSET Workers,
         user' \in [Workers -> Users \cup {None}],
         \A w \in Workers : w \notin ws => user'[w] = user[w],
         \A w \in ws : user'[w] # None,
         matches' \in SUBSET [worker : Workers, a : Entry, b : Entry],
         restarts' \in 0 .. MaxRestarts
  PROVE  Typed'
<1>1. NoReply \in Reply
  BY DEF NoReply, Reply
<1>2. reply' \in [Workers -> Reply]
  BY <1>1 DEF EndAll, Typed, TypeOK
<1>3. LoopBounded'
  BY DEF EndAll, Typed, TypeOK, LoopBounded
<1>4. PairHasMatch'
  BY DEF EndAll, Typed, TypeOK, PairHasMatch
<1>5. pc' \in [Workers -> {"free", "call", "replied", "matched", "pair",
                           "missing", "sleep", "timeout", "done"}]
  BY DEF EndAll, Typed, TypeOK
<1>6. outcome' \in [Workers -> {"none", "match", "bot", "retry", "silent",
                                "cancelled", "dead"}]
  BY DEF EndAll, Typed, TypeOK
<1>7. count' \in [Workers -> 0 .. MaxOffers]
  BY DEF EndAll, Typed, TypeOK
<1>8. tries' \in [Workers -> 0 .. MaxTries]
  BY DEF EndAll, Typed, TypeOK
<1>9. \A w \in Workers : user'[w] = None => pc'[w] = "free"
  BY DEF EndAll, Typed, TypeOK
<1> QED BY <1>2, <1>3, <1>4, <1>5, <1>6, <1>7, <1>8, <1>9
        DEF Typed, TypeOK, poolVars

\* A goroutine that goes on keeps the types, if what else changes does.
LEMMA GotoType ==
  ASSUME Typed, NEW w \in Workers, pc[w] \notin {"free", "timeout", "done"},
         NEW l \in {"matched", "pair", "missing", "sleep"}, Goto(w, l),
         l \in {"matched", "pair"} => reply[w].kind = "matched",
         UNCHANGED <<poolVars, requests, op, user, takenOut, unheard, matches,
                     restarts>>,
         nearest' \in SUBSET Users, failed' \in SUBSET Workers,
         broken' \in SUBSET Workers
  PROVE  Typed'
<1>1. LoopBounded' /\ PairHasMatch'
  BY DEF Goto, Typed, TypeOK, LoopBounded, PairHasMatch
<1>2. pc' \in [Workers -> {"free", "call", "replied", "matched", "pair",
                           "missing", "sleep", "timeout", "done"}]
      /\ \A x \in Workers : user'[x] = None => pc'[x] = "free"
  BY DEF Goto, Typed, TypeOK
<1> QED BY <1>1, <1>2 DEF Goto, Typed, TypeOK, poolVars

\* An answer keeps the types, if what else changes does.
LEMMA AnswerType ==
  ASSUME Typed, NEW m \in requests, NEW r \in Reply, Answer(m, r),
         pool' \in [Users -> Nat], entered' \in [Users -> Nat],
         {takenOut', unheard', failed'} \subseteq SUBSET Workers
  PROVE  Typed'
<1>1. m.worker \in Workers
  BY DEF Typed, TypeOK, Request
<1>2. requests' \in SUBSET Request
      /\ UNCHANGED <<nearest, op, user, count, tries, outcome, matches, broken,
                     restarts>>
  BY DEF Answer, Typed, TypeOK
<1>3. CASE Awaited(m)
  <2>1. /\ pc' = [pc EXCEPT ![m.worker] = "replied"]
        /\ reply' = [reply EXCEPT ![m.worker] = r]
        /\ pc[m.worker] = "call"
    BY <1>3 DEF Answer, Awaited
  <2>2. LoopBounded' /\ PairHasMatch'
    BY <1>1, <1>2, <2>1 DEF Typed, TypeOK, LoopBounded, PairHasMatch
  <2>3. pc' \in [Workers -> {"free", "call", "replied", "matched", "pair",
                             "missing", "sleep", "timeout", "done"}]
        /\ \A x \in Workers : user'[x] = None => pc'[x] = "free"
    BY <1>1, <1>2, <2>1 DEF Typed, TypeOK
  <2>4. reply' \in [Workers -> Reply]
    BY <1>1, <2>1 DEF Typed, TypeOK
  <2> QED BY <1>2, <2>2, <2>3, <2>4 DEF Typed, TypeOK
<1>4. CASE ~Awaited(m)
  <2>1. UNCHANGED <<pc, reply>>
    BY <1>4 DEF Answer
  <2> QED BY <1>2, <2>1 DEF Typed, TypeOK, LoopBounded, PairHasMatch
<1> QED BY <1>3, <1>4

\* The pool and the counts of entries after an offer stay what they are.
LEMMA PoolType ==
  ASSUME Typed, NEW u \in Users
  PROVE  /\ PoolWith(u) \in [Users -> Nat]
         /\ [entered EXCEPT ![u] = IF pool[u] = 0 THEN @ + 1 ELSE @]
              \in [Users -> Nat]
BY DEF Typed, TypeOK, PoolWith

\* Every step of the goroutines, of the leaderboard service and of the two
\* restarts keeps the types.
LEMMA TypeStep == Typed /\ [Next]_vars => Typed'
<1> SUFFICES ASSUME Typed, [Next]_vars PROVE Typed'
  OBVIOUS
<1>0. TypeOK /\ LoopBounded /\ PairHasMatch
  BY DEF Typed
<1>1. ASSUME NEW m \in requests, Serve(m) PROVE Typed'
  <2>1. m \in Request /\ m.user \in Users
    BY <1>0 DEF TypeOK, Request
  <2> DEFINE absent == [NoReply EXCEPT !.kind = "removed"]
  <2>2. absent \in Reply /\ NoReply \in Reply
    BY DEF NoReply, Reply
  <2>3. CASE AlreadyRemoved(m)
    <3>1. Answer(m, absent) /\ pool' = pool /\ entered' = entered
          /\ UNCHANGED <<takenOut, unheard, failed>>
      BY <2>3 DEF AlreadyRemoved, poolVars, excuseVars
    <3> HIDE DEF absent
    <3> QED BY <1>0, <2>2, <3>1, AnswerType DEF TypeOK
  <2>4. CASE Waits(m)
    <3>1. /\ Answer(m, NoReply) /\ pool' = PoolWith(m.user)
          /\ entered' = [entered EXCEPT ![m.user] =
                           IF pool[m.user] = 0 THEN @ + 1 ELSE @]
          /\ {takenOut', unheard', failed'} \subseteq SUBSET Workers
      BY <1>0, <2>4 DEF Waits, Enters, TypeOK
    <3> QED BY <1>0, <2>1, <2>2, <3>1, AnswerType, PoolType DEF TypeOK
  <2>5. CASE Deletes(m)
    <3>1. /\ Answer(m, absent) /\ pool' = [pool EXCEPT ![m.user] = 0]
          /\ entered' = entered /\ takenOut' = takenOut \cup QueuersOf({m.user})
          /\ UNCHANGED <<unheard, failed>>
      BY <2>5 DEF Deletes
    <3>2. /\ pool' \in [Users -> Nat]
          /\ {takenOut', unheard', failed'} \subseteq SUBSET Workers
      BY <1>0, <2>1, <3>1 DEF TypeOK, QueuersOf
    <3> HIDE DEF absent
    <3> QED BY <1>0, <2>2, <3>1, <3>2, AnswerType DEF TypeOK
  <2>6. ASSUME NEW v \in Users, Matches(m, v) PROVE Typed'
    <3> DEFINE in == PoolWith(m.user)
               r == [kind |-> "matched",
                     mine |-> [user |-> m.user, nr |-> in[m.user]],
                     theirs |-> [user |-> v, nr |-> pool[v]]]
    <3>1. in \in [Users -> Nat]
      BY <2>1, PoolType
    <3>2. r \in Reply
      BY <1>0, <2>1, <3>1 DEF Reply, Entry, TypeOK
    <3>3. /\ Answer(m, r)
          /\ pool' = [in EXCEPT ![m.user] = 0, ![v] = 0]
          /\ entered' = [entered EXCEPT ![m.user] =
                           IF pool[m.user] = 0 THEN @ + 1 ELSE @]
          /\ takenOut' = takenOut \cup (QueuersOf({m.user, v}) \ {m.worker})
          /\ unheard' = IF Awaited(m) THEN unheard ELSE unheard \cup {m.worker}
          /\ failed' = failed
      BY <2>6 DEF Matches, Enters, RemoveBoth
    <3> HIDE DEF in, r
    <3>4. pool' \in [Users -> Nat] /\ entered' \in [Users -> Nat]
      BY <2>1, <3>1, <3>3, PoolType
    <3>5. {takenOut', unheard', failed'} \subseteq SUBSET Workers
      BY <1>0, <2>1, <3>3 DEF TypeOK, QueuersOf, Request
    <3> QED BY <3>2, <3>3, <3>4, <3>5, AnswerType
  <2> QED BY <1>1, <2>3, <2>4, <2>5, <2>6 DEF Serve
<1>2. ASSUME NEW w \in Workers, NEW u \in Users,
             NEW o \in {"queue", "delete"}, Start(w, u, o)
      PROVE  Typed'
  <2>1. [worker |-> w, user |-> u, op |-> o, count |-> 0, tries |-> MaxTries]
          \in Request
    BY DEF Request
  <2>2. /\ requests' \in SUBSET Request
        /\ op' \in [Workers -> {"queue", "delete"}]
        /\ tries' \in [Workers -> 0 .. MaxTries]
    BY <1>0, <1>2, <2>1 DEF Start, TypeOK
  <2>3. /\ pc' = [pc EXCEPT ![w] = "call"] /\ user' = [user EXCEPT ![w] = u]
        /\ pc[w] = "free"
        /\ UNCHANGED <<poolVars, nearest, count, reply, outcome, historyVars,
                       restarts>>
    BY <1>2 DEF Start
  <2>4. /\ user' \in [Workers -> Users \cup {None}]
        /\ \A x \in Workers : user'[x] = None => pc'[x] = "free"
    BY <1>0, <2>3, NoneIsNobody DEF TypeOK, NoneIsNobody
  <2>5. LoopBounded' /\ PairHasMatch'
    BY <1>0, <2>3 DEF TypeOK, LoopBounded, PairHasMatch
  <2> QED BY <1>0, <2>2, <2>3, <2>4, <2>5 DEF Typed, TypeOK, poolVars, historyVars, excuseVars
<1>3. ASSUME NEW w \in Workers, NEW u \in Users, Queue3Defeated(w, u)
      PROVE  Typed'
  <2>1. /\ EndAll({w}, "bot") /\ user' = [user EXCEPT ![w] = u]
        /\ UNCHANGED <<poolVars, requests, nearest, op, historyVars, restarts>>
    BY <1>3 DEF Queue3Defeated, End
  <2>2. /\ user' \in [Workers -> Users \cup {None}]
        /\ \A x \in Workers : x \notin {w} => user'[x] = user[x]
        /\ \A x \in {w} : user'[x] # None
    BY <1>0, <2>1, NoneIsNobody DEF TypeOK, NoneIsNobody
  <2> QED BY <1>0, <2>1, <2>2, EndType DEF TypeOK, historyVars, excuseVars
<1>20. ASSUME NEW ws \in SUBSET {w \in Workers : pc[w] # "free"},
              UNCHANGED user
       PROVE  /\ user' \in [Workers -> Users \cup {None}]
              /\ \A x \in Workers : x \notin ws => user'[x] = user[x]
              /\ \A x \in ws : user'[x] # None
  BY <1>0, <1>20 DEF TypeOK
<1>4. ASSUME NEW w \in Workers, CallFails(w) PROVE Typed'
  <2>1. user[w] \in Users /\ pc[w] = "call"
    BY <1>0, <1>4 DEF CallFails, MayResend, TypeOK
  <2>2. UNCHANGED <<poolVars, nearest, op, user, matches, takenOut, unheard, restarts>>
        /\ broken' \in SUBSET Workers
    BY <1>0, <1>4 DEF CallFails, MayResend, TypeOK
  <2>3. CASE tries[w] > 0
    <3>1. tries[w] - 1 \in 0 .. MaxTries
      BY <1>0, <2>3 DEF TypeOK
    <3>2. RequestOf(w, count[w], tries[w] - 1) \in Request
      BY <1>0, <2>1, <3>1 DEF RequestOf, Request, TypeOK
    <3>3. /\ tries' = [tries EXCEPT ![w] = @ - 1]
          /\ requests' = requests \cup {RequestOf(w, count[w], tries[w] - 1)}
          /\ UNCHANGED <<pc, outcome, count, reply, failed>>
      BY <1>4, <2>3 DEF CallFails, MayResend
    <3>4. tries' \in [Workers -> 0 .. MaxTries]
      BY <1>0, <3>1, <3>3 DEF TypeOK
    <3> QED BY <1>0, <2>2, <3>2, <3>3, <3>4 DEF Typed, TypeOK, LoopBounded,
              PairHasMatch, poolVars
  <2>4. CASE ~(tries[w] > 0)
    <3>1. requests' = requests /\ failed' \in SUBSET Workers
      BY <1>0, <1>4, <2>4 DEF CallFails, MayResend, TypeOK
    <3>2. CASE op[w] = "queue"
      <4>1. Goto(w, "sleep")
        BY <1>4, <2>4, <3>2 DEF CallFails, MayResend
      <4> QED BY <1>0, <2>1, <2>2, <3>1, <4>1, GotoType DEF TypeOK
    <3>3. CASE op[w] # "queue"
      <4>1. EndAll({w}, "silent")
        BY <1>4, <2>4, <3>3 DEF CallFails, MayResend, End
      <4> QED BY <1>0, <1>20, <2>1, <2>2, <3>1, <4>1, EndType DEF TypeOK
    <3> QED BY <3>2, <3>3
  <2> QED BY <2>3, <2>4
<1>5. ASSUME NEW w \in Workers, OfferAnswered(w) PROVE Typed'
  <2>1. user[w] \in Users /\ pc[w] = "replied"
    BY <1>0, <1>5 DEF OfferAnswered, TypeOK
  <2>2. nearest' \in SUBSET Users
    BY <1>0, <1>5, <2>1 DEF OfferAnswered, TypeOK
  <2>3. UNCHANGED <<poolVars, requests, op, user, historyVars, restarts>>
    BY <1>5 DEF OfferAnswered
  <2>4. CASE reply[w].kind = "none" /\ Goto(w, "sleep")
    BY <1>0, <2>1, <2>2, <2>3, <2>4, GotoType DEF TypeOK, historyVars, excuseVars
  <2>5. CASE reply[w].kind = "matched" /\ Goto(w, "matched")
    BY <1>0, <2>1, <2>2, <2>3, <2>5, GotoType DEF TypeOK, historyVars, excuseVars
  <2>6. CASE reply[w].kind = "removed" /\ End(w, "silent")
    <3>1. EndAll({w}, "silent")
      BY <2>6 DEF End
    <3> QED BY <1>0, <1>20, <2>1, <2>2, <2>3, <3>1, EndType DEF TypeOK, historyVars, excuseVars
  <2> QED BY <1>5, <2>4, <2>5, <2>6 DEF OfferAnswered
<1>6. ASSUME NEW w \in Workers, DeleteAnswered(w) PROVE Typed'
  <2>1. /\ EndAll({w}, "cancelled") /\ pc[w] = "replied"
        /\ nearest' = nearest \ {user[w]}
        /\ UNCHANGED <<poolVars, requests, op, user, historyVars, restarts>>
    BY <1>6 DEF DeleteAnswered, End
  <2> QED BY <1>0, <1>20, <2>1, EndType DEF TypeOK, historyVars, excuseVars
<1>7. ASSUME NEW w \in Workers, LookUpAgents(w) PROVE Typed'
  <2>1. /\ Goto(w, "pair") \/ Goto(w, "missing")
        /\ pc[w] = "matched" /\ reply[w].kind = "matched"
        /\ UNCHANGED <<poolVars, requests, nearest, op, user, historyVars, restarts>>
    BY <1>0, <1>7 DEF LookUpAgents, PairHasMatch
  <2> QED BY <1>0, <2>1, GotoType DEF TypeOK, historyVars, excuseVars
<1>8. ASSUME NEW w \in Workers, Pair(w) PROVE Typed'
  <2>1. /\ EndAll({w}, "match") \/ EndAll({w}, "retry")
        /\ pc[w] = "pair"
    BY <1>8 DEF Pair, End
  <2>2. reply[w].mine \in Entry /\ reply[w].theirs \in Entry
    BY <1>0, <2>1 DEF PairHasMatch, TypeOK, Reply
  <2>3. matches' \in SUBSET [worker : Workers, a : Entry, b : Entry]
    BY <1>0, <1>8, <2>2 DEF Pair, TypeOK
  <2>4. nearest' \in SUBSET Users
    BY <1>0, <1>8 DEF Pair, TypeOK
  <2>5. UNCHANGED <<poolVars, requests, op, user, broken, takenOut, unheard, failed,
                    restarts>>
    BY <1>8 DEF Pair, excuseVars
  <2>6. /\ broken' \in SUBSET Workers /\ failed' \in SUBSET Workers
        /\ restarts' \in 0 .. MaxRestarts
        /\ {w} \in SUBSET {x \in Workers : pc[x] # "free"}
    BY <1>0, <2>1, <2>5 DEF TypeOK
  <2>7. /\ user' \in [Workers -> Users \cup {None}]
        /\ \A x \in Workers : x \notin {w} => user'[x] = user[x]
        /\ \A x \in {w} : user'[x] # None
    BY <1>20, <2>5, <2>6
  <2> QED BY <2>1, <2>3, <2>4, <2>5, <2>6, <2>7, EndType
<1>9. ASSUME NEW w \in Workers, NextOffer(w) PROVE Typed'
  <2>1. user[w] \in Users /\ count[w] < MaxOffers /\ pc[w] = "sleep"
    BY <1>0, <1>9 DEF NextOffer, TypeOK, LoopBounded
  <2>2. count[w] + 1 \in 0 .. MaxOffers /\ OffersMade(w) = count[w] + 1
    BY <1>0, <2>1 DEF TypeOK, OffersMade
  <2>3. RequestOf(w, OffersMade(w), MaxTries) \in Request
    BY <1>0, <2>1, <2>2 DEF RequestOf, Request, TypeOK
  <2>4. UNCHANGED <<poolVars, nearest, op, user, reply, outcome, historyVars,
                    restarts>>
        /\ count' = [count EXCEPT ![w] = OffersMade(w)]
    BY <1>9 DEF NextOffer
  <2>5. count' \in [Workers -> 0 .. MaxOffers]
    BY <1>0, <2>2, <2>4 DEF TypeOK
  <2>6. CASE OffersMade(w) < MaxOffers
    <3>1. /\ pc' = [pc EXCEPT ![w] = "call"]
          /\ tries' = [tries EXCEPT ![w] = MaxTries]
          /\ requests' = requests \cup {RequestOf(w, OffersMade(w), MaxTries)}
      BY <1>9, <2>6 DEF NextOffer
    <3>2. LoopBounded' /\ PairHasMatch'
      BY <1>0, <2>4, <2>6, <3>1 DEF TypeOK, LoopBounded, PairHasMatch
    <3>3. tries' \in [Workers -> 0 .. MaxTries] /\ requests' \in SUBSET Request
      BY <1>0, <2>3, <3>1 DEF TypeOK
    <3> QED BY <1>0, <2>1, <2>4, <2>5, <3>1, <3>2, <3>3
            DEF Typed, TypeOK, poolVars, historyVars, excuseVars
  <2>7. CASE ~(OffersMade(w) < MaxOffers)
    <3>1. /\ pc' = [pc EXCEPT ![w] = "timeout"]
          /\ UNCHANGED <<tries, requests>>
      BY <1>9, <2>7 DEF NextOffer
    <3>2. LoopBounded' /\ PairHasMatch'
      BY <1>0, <2>4, <3>1 DEF TypeOK, LoopBounded, PairHasMatch
    <3> QED BY <1>0, <2>1, <2>4, <2>5, <3>1, <3>2
            DEF Typed, TypeOK, poolVars, historyVars, excuseVars
  <2> QED BY <2>6, <2>7
<1>10. ASSUME NEW w \in Workers, BotMatch(w) PROVE Typed'
  <2>1. /\ EndAll({w}, "bot") /\ pc[w] \in {"timeout", "missing"}
        /\ nearest' = nearest \ {user[w]}
        /\ UNCHANGED <<poolVars, requests, op, user, historyVars, restarts>>
    BY <1>10 DEF BotMatch, End
  <2> QED BY <1>0, <1>20, <2>1, EndType DEF TypeOK, historyVars, excuseVars
<1>11. CASE RestartMatch
  <2> DEFINE ws == {w \in Workers : pc[w] \notin {"free", "done"}}
  <2>1. /\ EndAll(ws, "dead") /\ nearest' = {}
        /\ UNCHANGED <<poolVars, requests, op, user, historyVars>>
    BY <1>11 DEF RestartMatch
  <2>2. restarts' \in 0 .. MaxRestarts
    BY <1>0, <1>11 DEF RestartMatch, TypeOK
  <2>3. ws \in SUBSET {w \in Workers : pc[w] # "free"}
    OBVIOUS
  <2> HIDE DEF ws
  <2> QED BY <1>0, <1>20, <2>1, <2>2, <2>3, EndType DEF TypeOK, historyVars, excuseVars
<1>12. CASE RestartRank
  BY <1>0, <1>12 DEF RestartRank, Typed, TypeOK, LoopBounded, PairHasMatch,
     workerVars, QueuersOf
<1>13. CASE UNCHANGED vars
  BY <1>0, <1>13 DEF vars, poolVars, workerVars, historyVars, excuseVars, Typed, TypeOK,
     LoopBounded, PairHasMatch
<1> QED
  BY <1>1, <1>2, <1>3, <1>4, <1>5, <1>6, <1>7, <1>8, <1>9, <1>10, <1>11,
     <1>12, <1>13 DEF Next, Step, Queue3, CancelQueue

\* The variables always have their types.
THEOREM TypeCorrect == Spec => []TypeOK
<1>1. Typed => TypeOK
  BY DEF Typed
<1> QED BY <1>1, TypeInit, TypeStep, PTL DEF Spec

-----------------------------------------------------------------------------
(* No entry of the pool is used twice.  An entry that has left the pool in *)
(* a match is either in the hands of the goroutine that was told, or of    *)
(* nobody (nobody waited for the answer), or in a match created; the       *)
(* number of a new entry is above those of all before it.                  *)

Held(w) ==
  IF reply[w].kind = "matched" THEN {reply[w].mine, reply[w].theirs} ELSE {}

\* Entry e was in the pool and is not there any more.
Left(e) == e.nr <= entered[e.user] /\ pool[e.user] # e.nr

PoolNumbered == \A u \in Users : pool[u] <= entered[u]
HeldLeft == \A w \in Workers : \A e \in Held(w) : e.nr # 0 /\ Left(e)
MatchedLeft == \A x \in matches : \A e \in {x.a, x.b} : e.nr # 0 /\ Left(e)
HeldApart == \A w, x \in Workers : w # x => Held(w) \cap Held(x) = {}
HeldUnmatched ==
  \A w \in Workers, x \in matches : Held(w) \cap {x.a, x.b} = {}

Inv ==
  /\ Typed
  /\ PoolNumbered /\ HeldLeft /\ MatchedLeft
  /\ HeldApart /\ HeldUnmatched /\ EntryUsedOnce

\* At the start nobody holds or awaits an entry.
LEMMA InvInit == Init => Inv
<1> SUFFICES ASSUME Init PROVE Inv
  OBVIOUS
<1>1. \A w \in Workers : Held(w) = {}
  BY DEF Init, Held, NoReply
<1> QED BY <1>1, TypeInit
        DEF Init, Inv, PoolNumbered, HeldLeft, MatchedLeft, HeldApart,
            HeldUnmatched, EntryUsedOnce

\* Goroutines that hold no more than before, with the pool and the matches
\* as they were, keep the invariant.
LEMMA HoldLess ==
  ASSUME Inv, Typed', UNCHANGED <<pool, entered, matches>>,
         \A w \in Workers : Held(w)' \subseteq Held(w)
  PROVE  Inv'
BY DEF Inv, PoolNumbered, HeldLeft, Left, MatchedLeft, HeldApart, HeldUnmatched,
       EntryUsedOnce

\* So does the removal of entries from the pool.
LEMMA PoolShrinks ==
  ASSUME Inv, Typed', UNCHANGED <<entered, matches>>,
         \A u \in Users : pool'[u] \in {pool[u], 0},
         \A w \in Workers : Held(w)' \subseteq Held(w)
  PROVE  Inv'
<1>0. Typed /\ TypeOK
  BY DEF Inv, Typed
<1>1. PoolNumbered'
  BY <1>0 DEF Inv, PoolNumbered, TypeOK
<1>2. ASSUME NEW e \in Entry, e.nr # 0, Left(e) PROVE Left(e)'
  BY <1>0, <1>2 DEF Left, Entry, TypeOK
<1>3. \A w \in Workers : Held(w) \subseteq Entry
  BY <1>0 DEF Held, TypeOK, Reply
<1>4. \A x \in matches : {x.a, x.b} \subseteq Entry
  BY <1>0 DEF TypeOK
<1>5. HeldLeft'
  BY <1>2, <1>3 DEF Inv, HeldLeft
<1>6. MatchedLeft'
  BY <1>2, <1>4 DEF Inv, MatchedLeft
<1> QED BY <1>1, <1>5, <1>6 DEF Inv, HeldApart, HeldUnmatched, EntryUsedOnce

\* The answer to a request that is not a match gives nobody anything to hold.
LEMMA AnswerHolds ==
  ASSUME Typed, NEW m \in requests, NEW r \in Reply, r.kind # "matched",
         Answer(m, r)
  PROVE  \A w \in Workers : Held(w)' \subseteq Held(w)
<1>1. CASE Awaited(m)
  BY <1>1 DEF Answer, Held, Typed, TypeOK, Request
<1>2. CASE ~Awaited(m)
  BY <1>2 DEF Answer, Held
<1> QED BY <1>1, <1>2

\* Every step keeps entries in one place only: in the pool, in one match, or gone.
LEMMA InvStep == Inv /\ [Next]_vars => Inv'
<1> SUFFICES ASSUME Inv, [Next]_vars PROVE Inv'
  OBVIOUS
<1>0. Typed /\ TypeOK /\ Typed' /\ TypeOK'
  BY TypeStep DEF Inv, Typed
<1>1. ASSUME NEW m \in requests, AlreadyRemoved(m) PROVE Inv'
  <2> DEFINE absent == [NoReply EXCEPT !.kind = "removed"]
  <2>1. absent \in Reply /\ absent.kind # "matched"
    BY DEF NoReply, Reply
  <2>2. Answer(m, absent) /\ pool' = pool /\ entered' = entered
        /\ matches' = matches
    BY <1>1 DEF AlreadyRemoved, poolVars, Answer
  <2> HIDE DEF absent
  <2> QED BY <1>0, <2>1, <2>2, AnswerHolds, HoldLess
<1>2. ASSUME NEW m \in requests, Deletes(m) PROVE Inv'
  <2> DEFINE absent == [NoReply EXCEPT !.kind = "removed"]
  <2>1. absent \in Reply /\ absent.kind # "matched"
    BY DEF NoReply, Reply
  <2>2. Answer(m, absent) /\ entered' = entered /\ matches' = matches
    BY <1>2 DEF Deletes, Answer
  <2>3. \A u \in Users : pool'[u] \in {pool[u], 0}
    BY <1>0, <1>2 DEF Deletes, TypeOK
  <2> HIDE DEF absent
  <2> QED BY <1>0, <2>1, <2>2, <2>3, AnswerHolds, PoolShrinks
<1>3. ASSUME NEW m \in requests, Enters(m),
             NEW rest, rest = PoolWith(m.user)
      PROVE  /\ rest \in [Users -> Nat] /\ entered' \in [Users -> Nat]
             /\ \A u \in Users : entered[u] <= entered'[u]
             /\ \A u \in Users : rest[u] <= entered'[u]
             /\ rest[m.user] # 0
             /\ \A u \in Users : rest[u] \in {pool[u], entered[u] + 1}
  BY <1>0, <1>3 DEF Enters, PoolWith, Inv, PoolNumbered, TypeOK, Request
\* An entry that has left the pool does not come back by an offer.
<1>4. ASSUME NEW m \in requests, Enters(m),
             \A u \in Users : pool'[u] \in {PoolWith(m.user)[u], 0},
             NEW e \in Entry, e.nr # 0, Left(e)
      PROVE  /\ Left(e)'
             /\ \A u \in Users : PoolWith(m.user)[u] # 0 =>
                  e # [user |-> u, nr |-> PoolWith(m.user)[u]]
  <2> DEFINE rest == PoolWith(m.user)
  <2>1. /\ rest \in [Users -> Nat] /\ entered' \in [Users -> Nat]
        /\ \A u \in Users : entered[u] <= entered'[u]
        /\ \A u \in Users : rest[u] \in {pool[u], entered[u] + 1}
    BY <1>3, <1>4
  <2>2. rest[e.user] # e.nr
    BY <1>0, <1>4, <2>1 DEF Left, Entry, TypeOK
  <2>3. \A u \in Users : e # [user |-> u, nr |-> rest[u]]
    BY <2>2
  <2>4. Left(e)'
    <3>1. pool'[e.user] # e.nr
      BY <1>4, <2>2 DEF Entry
    <3>2. e.nr <= entered'[e.user]
      BY <1>0, <1>4, <2>1 DEF Left, Entry, TypeOK
    <3> QED BY <3>1, <3>2 DEF Left
  <2> QED BY <2>3, <2>4
<1>5. \A w \in Workers : Held(w) \subseteq Entry
  BY <1>0 DEF Held, TypeOK, Reply
<1>6. \A x \in matches : {x.a, x.b} \subseteq Entry
  BY <1>0 DEF TypeOK
<1>7. ASSUME NEW m \in requests, Waits(m) PROVE Inv'
  <2>1. NoReply \in Reply /\ NoReply.kind # "matched"
    BY DEF NoReply, Reply
  <2>2. Enters(m) /\ Answer(m, NoReply) /\ pool' = PoolWith(m.user)
        /\ matches' = matches
    BY <1>7 DEF Waits, Answer
  <2>3. \A w \in Workers : Held(w)' \subseteq Held(w)
    BY <1>0, <2>1, <2>2, AnswerHolds
  <2>4. PoolNumbered'
    BY <1>3, <2>2 DEF PoolNumbered
  <2>5. ASSUME NEW e \in Entry, e.nr # 0, Left(e) PROVE Left(e)'
    BY <1>4, <2>2, <2>5
  <2>6. HeldLeft'
    BY <1>5, <2>3, <2>5 DEF Inv, HeldLeft
  <2>7. MatchedLeft'
    BY <1>6, <2>2, <2>5 DEF Inv, MatchedLeft
  <2> QED BY <1>0, <2>2, <2>3, <2>4, <2>6, <2>7
          DEF Inv, HeldApart, HeldUnmatched, EntryUsedOnce
<1>8. ASSUME NEW m \in requests, NEW v \in Users, Matches(m, v) PROVE Inv'
  <2> DEFINE in == PoolWith(m.user)
             mine == [user |-> m.user, nr |-> in[m.user]]
             theirs == [user |-> v, nr |-> pool[v]]
             r == [kind |-> "matched", mine |-> mine, theirs |-> theirs]
  <2>1. m.user \in Users /\ m.worker \in Workers
    BY <1>0 DEF TypeOK, Request
  <2>2. /\ Enters(m) /\ v # m.user /\ pool[v] # 0
        /\ pool' = [in EXCEPT ![m.user] = 0, ![v] = 0]
        /\ Answer(m, r) /\ matches' = matches
    BY <1>8 DEF Matches, RemoveBoth, Answer
  <2>3. /\ in \in [Users -> Nat] /\ entered' \in [Users -> Nat]
        /\ \A u \in Users : in[u] <= entered'[u]
        /\ in[m.user] # 0
    BY <1>3, <2>2
  <2>4. in[v] = pool[v]
    BY <1>0, <2>1, <2>2 DEF PoolWith, TypeOK
  <2>5. /\ pool'[m.user] = 0 /\ pool'[v] = 0
        /\ \A u \in Users : pool'[u] \in {in[u], 0}
    BY <2>1, <2>2, <2>3
  <2>6. PoolNumbered'
    BY <2>3, <2>5 DEF PoolNumbered
  <2>7. ASSUME NEW e \in Entry, e.nr # 0, Left(e)
        PROVE  Left(e)' /\ e # mine /\ e # theirs
    <3>1. /\ Left(e)'
          /\ \A u \in Users : in[u] # 0 => e # [user |-> u, nr |-> in[u]]
      BY <1>4, <2>2, <2>5, <2>7
    <3> QED BY <2>1, <2>2, <2>3, <2>4, <3>1
  <2>8. ASSUME NEW e \in {mine, theirs} PROVE e.nr # 0 /\ Left(e)'
    BY <2>1, <2>2, <2>3, <2>4, <2>5, <2>8 DEF Left
  <2>9. \A w \in Workers : Held(w)' = Held(w) \/
          (w = m.worker /\ Held(w)' = {mine, theirs})
    <3>1. CASE Awaited(m)
      <4>1. reply' = [reply EXCEPT ![m.worker] = r]
        BY <2>2, <3>1 DEF Answer
      <4>2. /\ reply'[m.worker] = r
            /\ \A w \in Workers \ {m.worker} : reply'[w] = reply[w]
        BY <1>0, <2>1, <4>1 DEF TypeOK
      <4>3. r.kind = "matched" /\ r.mine = mine /\ r.theirs = theirs
        OBVIOUS
      <4> HIDE DEF r, mine, theirs
      <4> QED BY <4>2, <4>3 DEF Held
    <3>2. CASE ~Awaited(m)
      BY <2>2, <3>2 DEF Answer, Held
    <3> QED BY <3>1, <3>2
  <2> HIDE DEF mine, theirs, in, r
  <2>10. HeldLeft'
    <3> SUFFICES ASSUME NEW w \in Workers, NEW e \in Held(w)'
                 PROVE  e.nr # 0 /\ Left(e)'
      BY DEF HeldLeft
    <3> QED BY <1>5, <2>7, <2>8, <2>9 DEF Inv, HeldLeft
  <2>11. MatchedLeft'
    BY <1>6, <2>2, <2>7 DEF Inv, MatchedLeft
  <2>12. \A w \in Workers : Held(w) \cap {mine, theirs} = {}
    BY <1>5, <2>7 DEF Inv, HeldLeft
  <2>13. HeldApart'
    <3> SUFFICES ASSUME NEW w \in Workers, NEW x \in Workers, w # x
                 PROVE  Held(w)' \cap Held(x)' = {}
      BY DEF HeldApart
    <3> QED BY <2>9, <2>12 DEF Inv, HeldApart
  <2>14. \A x \in matches : {x.a, x.b} \cap {mine, theirs} = {}
    BY <1>6, <2>7 DEF Inv, MatchedLeft
  <2>15. HeldUnmatched'
    BY <2>2, <2>9, <2>14 DEF Inv, HeldUnmatched
  <2> QED BY <1>0, <2>2, <2>6, <2>10, <2>11, <2>13, <2>15 DEF Inv, EntryUsedOnce
<1>9. ASSUME NEW ws \in SUBSET Workers, NEW o, EndAll(ws, o),
             UNCHANGED <<pool, entered, matches>>
      PROVE  Inv'
  <2>1. \A w \in Workers : Held(w)' \subseteq Held(w)
    BY <1>9 DEF EndAll, Held, NoReply
  <2> QED BY <1>0, <1>9, <2>1, HoldLess
<1>10. ASSUME UNCHANGED <<reply, pool, entered, matches>> PROVE Inv'
  <2>1. \A w \in Workers : Held(w)' = Held(w)
    BY <1>10 DEF Held
  <2> QED BY <1>0, <1>10, <2>1, HoldLess
<1>11. ASSUME NEW w \in Workers, Pair(w) PROVE Inv'
  <2>1. CASE matches' = matches
    BY <1>9, <1>11, <2>1 DEF Pair, End, poolVars
  <2>2. CASE matches' # matches
    <3> DEFINE new == [worker |-> w, a |-> reply[w].mine, b |-> reply[w].theirs]
    <3>1. /\ EndAll({w}, "match") /\ matches' = matches \cup {new}
          /\ UNCHANGED <<pool, entered>> /\ pc[w] = "pair"
      BY <1>11, <2>2 DEF Pair, End, poolVars
    <3>2. {new.a, new.b} = Held(w)
      BY <1>0, <3>1 DEF Held, Typed, PairHasMatch
    <3>3. /\ Held(w)' = {}
          /\ \A x \in Workers : x # w => Held(x)' = Held(x)
      BY <3>1 DEF EndAll, Held, NoReply
    <3> HIDE DEF new
    <3>4. HeldLeft'
      BY <3>1, <3>3 DEF Inv, HeldLeft, Left
    <3>5. MatchedLeft'
      BY <3>1, <3>2 DEF Inv, HeldLeft, MatchedLeft, Left
    <3>6. HeldApart'
      BY <3>3 DEF Inv, HeldApart
    <3>7. HeldUnmatched'
      BY <3>1, <3>2, <3>3 DEF Inv, HeldApart, HeldUnmatched
    <3>8. EntryUsedOnce'
      BY <3>1, <3>2 DEF Inv, HeldUnmatched, EntryUsedOnce
    <3> QED BY <1>0, <3>1, <3>4, <3>5, <3>6, <3>7, <3>8 DEF Inv, PoolNumbered
  <2> QED BY <2>1, <2>2
<1>12. ASSUME NEW w \in Workers, NEW l, Goto(w, l),
              UNCHANGED <<pool, entered, matches>>
       PROVE  Inv'
  BY <1>10, <1>12 DEF Goto
<1>13. ASSUME NEW w \in Workers, CallFails(w) PROVE Inv'
  BY <1>9, <1>10, <1>12, <1>13 DEF CallFails, MayResend, End, poolVars
<1>14. ASSUME NEW w \in Workers, OfferAnswered(w) PROVE Inv'
  BY <1>9, <1>12, <1>14 DEF OfferAnswered, End, poolVars, historyVars, excuseVars
<1>15. ASSUME NEW w \in Workers, LookUpAgents(w) PROVE Inv'
  BY <1>12, <1>15 DEF LookUpAgents, poolVars, historyVars, excuseVars
<1>16. ASSUME NEW w \in Workers, NextOffer(w) PROVE Inv'
  BY <1>10, <1>16 DEF NextOffer, poolVars, historyVars, excuseVars
<1>17. ASSUME NEW w \in Workers, DeleteAnswered(w) \/ BotMatch(w) PROVE Inv'
  BY <1>9, <1>17 DEF DeleteAnswered, BotMatch, End, poolVars, historyVars, excuseVars
<1>18. ASSUME NEW w \in Workers, NEW u \in Users, Queue3Defeated(w, u) PROVE Inv'
  BY <1>9, <1>18 DEF Queue3Defeated, End, poolVars, historyVars, excuseVars
<1>19. ASSUME NEW w \in Workers, NEW u \in Users,
              NEW o \in {"queue", "delete"}, Start(w, u, o)
       PROVE  Inv'
  BY <1>10, <1>19 DEF Start, poolVars, historyVars, excuseVars
<1>20. CASE RestartMatch
  BY <1>9, <1>20 DEF RestartMatch, poolVars, historyVars, excuseVars
<1>21. CASE RestartRank
  <2>1. \A u \in Users : pool'[u] \in {pool[u], 0}
    BY <1>21 DEF RestartRank
  <2>2. \A w \in Workers : Held(w)' = Held(w)
    BY <1>21 DEF RestartRank, workerVars, Held
  <2> QED BY <1>0, <1>21, <2>1, <2>2, PoolShrinks DEF RestartRank
<1>22. CASE UNCHANGED vars
  BY <1>10, <1>22 DEF vars, workerVars, poolVars, historyVars, excuseVars
<1> QED
  BY <1>1, <1>2, <1>7, <1>8, <1>11, <1>13, <1>14, <1>15, <1>16, <1>17, <1>18,
     <1>19, <1>20, <1>21, <1>22 DEF Next, Serve, Step, Queue3, CancelQueue

\* No entry of the match pool is used by two 1 vs 1 matches, however often an
\* offer is sent or served and whenever agents are looked up: an answer that
\* tells of a match is given once, about entries that are gone for good.
THEOREM NoEntryUsedTwice == Spec => []EntryUsedOnce
<1>1. Inv => EntryUsedOnce
  BY DEF Inv
<1> QED BY <1>1, InvInit, InvStep, PTL DEF Spec
-----------------------------------------------------------------------------
(* Whoever is in the pool is served, and no offer is forgotten.  What a    *)
(* request late in coming can do is bounded by who can have sent it: a     *)
(* goroutine that waits for it, or one whose connection broke or that died.*)

\* A goroutine has an outcome only at its end, and before its start neither
\* a broken connection nor offers.
FreshUntilEnd ==
  \A w \in Workers :
    /\ pc[w] # "done" => outcome[w] = "none"
    /\ pc[w] = "free" => w \notin broken /\ count[w] = 0

\* A request is its goroutine's: one it waits for, or one that a broken
\* connection or a dead match-server left behind.
Owned(m) ==
  /\ pc[m.worker] # "free" /\ user[m.worker] = m.user /\ op[m.worker] = m.op
  /\ Awaited(m) \/ m.worker \in broken \/ outcome[m.worker] = "dead"
RequestsOwned == \A m \in requests : Owned(m)

\* The reply w has got tells it to go on.
Waiting(w) == pc[w] = "replied" /\ reply[w].kind = "none"

\* Goroutine w will make another offer or has left an entry behind: not one
\* that has been told of a match or a removal.
Serving(w) ==
  /\ op[w] = "queue" /\ pc[w] # "free"
  /\ \/ pc[w] \in {"call", "sleep", "timeout"} \/ Waiting(w)
     \/ w \in broken \/ outcome[w] \in {"bot", "dead"}
PoolServed ==
  \A u \in Users : pool[u] # 0 => \E w \in Workers : user[w] = u /\ Serving(w)

\* Goroutine w may be told that its user is not in the pool.
Excused(w) == w \in takenOut \cup unheard \cup failed

\* Goroutine w has made an offer and was told to go on.
Offered(w) == pc[w] = "sleep" \/ (pc[w] = "call" /\ count[w] > 0) \/ Waiting(w)

\* Once a goroutine has made an offer its user is in the pool, or there is a
\* reason; a goroutine that is told that its user is not there has one.
Remembered(w) ==
  op[w] = "queue" =>
    /\ Offered(w) => pool[user[w]] # 0 \/ Excused(w)
    /\ pc[w] = "replied" /\ reply[w].kind = "removed" => Excused(w)
    /\ outcome[w] = "silent" => Excused(w)
OffersRemembered == \A w \in Workers : Remembered(w)

ServeInv ==
  /\ Typed
  /\ FreshUntilEnd /\ RequestsOwned /\ PoolServed /\ OffersRemembered


\* At the start there is nobody to serve.
LEMMA ServeInit == Init => ServeInv
BY TypeInit DEF Init, ServeInv, FreshUntilEnd, RequestsOwned, PoolServed,
   OffersRemembered, Remembered, Offered, Waiting, NoReply

\* An answer is a step of the goroutine that waits for it, and of no other.
LEMMA AnswerIsOwn ==
  ASSUME ServeInv, NEW m \in requests, NEW r \in Reply, Answer(m, r)
  PROVE  /\ m.worker \in Workers /\ user[m.worker] = m.user
         /\ op[m.worker] = m.op
         /\ UNCHANGED <<op, user, count, outcome, broken>>
         /\ \A w \in Workers :
              IF w = m.worker /\ Awaited(m)
              THEN pc'[w] = "replied" /\ reply'[w] = r
              ELSE pc'[w] = pc[w] /\ reply'[w] = reply[w]
         /\ \/ m.worker \in broken \/ outcome[m.worker] = "dead"
            \/ pc'[m.worker] = "replied" /\ reply'[m.worker] = r
         /\ FreshUntilEnd' /\ RequestsOwned'
<1>1. /\ m.worker \in Workers /\ user[m.worker] = m.user
      /\ op[m.worker] = m.op
      /\ Awaited(m) \/ m.worker \in broken \/ outcome[m.worker] = "dead"
  BY DEF ServeInv, Typed, TypeOK, Request, RequestsOwned, Owned
<1>2. /\ requests' = requests \ {m}
      /\ UNCHANGED <<op, user, count, tries, outcome, broken>>
  BY DEF Answer
<1>3. CASE Awaited(m)
  <2>1. pc' = [pc EXCEPT ![m.worker] = "replied"]
        /\ reply' = [reply EXCEPT ![m.worker] = r] /\ pc[m.worker] = "call"
    BY <1>3 DEF Answer, Awaited
  <2>2. /\ pc'[m.worker] = "replied" /\ reply'[m.worker] = r
        /\ \A w \in Workers \ {m.worker} : pc'[w] = pc[w] /\ reply'[w] = reply[w]
    BY <1>1, <2>1 DEF ServeInv, Typed, TypeOK
  <2>3. FreshUntilEnd'
    BY <1>1, <1>2, <2>1, <2>2 DEF ServeInv, FreshUntilEnd
  <2>4. ASSUME NEW n \in requests' PROVE Awaited(n)' \/ ~Awaited(n)
    <3>1. n \in Request /\ m \in Request /\ n # m
      BY <1>2 DEF ServeInv, Typed, TypeOK
    <3>2. CASE n.worker # m.worker
      BY <1>2, <2>2, <3>1, <3>2 DEF Awaited, Request
    <3>3. CASE n.worker = m.worker /\ Awaited(n)
      <4>1. n.count = m.count /\ n.tries = m.tries
        BY <1>3, <3>3 DEF Awaited
      <4>2. n.user = m.user /\ n.op = m.op
        BY <1>2, <3>3 DEF ServeInv, RequestsOwned, Owned
      <4> QED BY <3>1, <3>3, <4>1, <4>2 DEF Request
    <3> QED BY <3>2, <3>3
  <2>5. RequestsOwned'
    <3> SUFFICES ASSUME NEW n \in requests'
                 PROVE  /\ pc'[n.worker] # "free" /\ user'[n.worker] = n.user
                        /\ op'[n.worker] = n.op
                        /\ \/ Awaited(n)' \/ n.worker \in broken'
                           \/ outcome'[n.worker] = "dead"
      BY DEF RequestsOwned, Owned
    <3>1. n \in requests /\ n.worker \in Workers
      BY <1>2 DEF ServeInv, Typed, TypeOK, Request
    <3> QED BY <1>2, <2>2, <2>4, <3>1 DEF ServeInv, RequestsOwned, Owned
  <2> QED BY <1>1, <1>2, <1>3, <2>2, <2>3, <2>5
<1>4. CASE ~Awaited(m)
  <2>1. UNCHANGED <<pc, reply>>
    BY <1>4 DEF Answer
  <2>2. FreshUntilEnd' /\ RequestsOwned'
    BY <1>2, <2>1 DEF ServeInv, FreshUntilEnd, RequestsOwned, Owned, Awaited
  <2> QED BY <1>1, <1>2, <1>4, <2>1, <2>2
<1> QED BY <1>3, <1>4

\* A goroutine that nothing changes for serves its user, and has made offers,
\* as before.
LEMMA OthersServe ==
  ASSUME NEW w, UNCHANGED <<op, user, count, outcome, broken>>,
         pc'[w] = pc[w], reply'[w] = reply[w]
  PROVE  /\ Serving(w)' <=> Serving(w)
         /\ Offered(w)' <=> Offered(w)
BY DEF Serving, Offered, Waiting

\* The answers of rank-server: a user it leaves in the pool has a goroutine
\* that is told to go on, and a user it removes is taken out.
LEMMA AnswerServes ==
  ASSUME ServeInv, Typed', NEW m \in requests, Serve(m)
  PROVE  ServeInv'
<1>1. m.user \in Users /\ TypeOK
  BY DEF ServeInv, Typed, TypeOK, Request
<1> DEFINE absent == [NoReply EXCEPT !.kind = "removed"]
<1>2. absent \in Reply /\ NoReply \in Reply /\ absent.kind = "removed"
      /\ NoReply.kind = "none"
  BY DEF NoReply, Reply
<1> HIDE DEF absent
\* What is left to show of any of the four answers.
<1>3. ASSUME NEW r \in Reply, Answer(m, r),
             \A w \in Workers :
               Excused(w) => \/ Excused(w)'
                             \/ w = m.worker /\ Awaited(m) /\ r.kind = "none",
             \A w \in Workers :
               Queueing(w) /\ pool[user[w]] # 0 /\ pool'[user[w]] = 0 =>
                 \/ Excused(w)'
                 \/ w = m.worker /\ Awaited(m),
             \A u \in Users : pool'[u] # 0 =>
               \/ pool[u] # 0 /\ (u # m.user \/ m.op = "delete")
               \/ u = m.user /\ m.op = "queue" /\ r.kind = "none",
             m.op = "queue" /\ r.kind = "none" => pool'[m.user] # 0,
             m.op = "queue" /\ r.kind = "removed" =>
               m.count > 0 /\ pool[m.user] = 0
      PROVE  ServeInv'
  <2>1. /\ m.worker \in Workers /\ user[m.worker] = m.user
        /\ op[m.worker] = m.op
        /\ UNCHANGED <<op, user, count, outcome, broken>>
        /\ \A w \in Workers :
             IF w = m.worker /\ Awaited(m)
             THEN pc'[w] = "replied" /\ reply'[w] = r
             ELSE pc'[w] = pc[w] /\ reply'[w] = reply[w]
        /\ \/ m.worker \in broken \/ outcome[m.worker] = "dead"
           \/ pc'[m.worker] = "replied" /\ reply'[m.worker] = r
        /\ FreshUntilEnd' /\ RequestsOwned'
    BY <1>3, AnswerIsOwn
  <2>2. PoolServed'
    <3> SUFFICES ASSUME NEW u \in Users, pool'[u] # 0
                 PROVE  \E w \in Workers : user'[w] = u /\ Serving(w)'
      BY DEF PoolServed
    <3>1. CASE u = m.user /\ m.op = "queue" /\ r.kind = "none"
      <4>1. Serving(m.worker)'
        <5>1. pc'[m.worker] # "free"
          BY <2>1 DEF ServeInv, RequestsOwned, Owned
        <5> QED BY <2>1, <3>1, <5>1 DEF Serving, Waiting
      <4> QED BY <2>1, <3>1, <4>1
    <3>2. CASE pool[u] # 0 /\ (u # m.user \/ m.op = "delete")
      <4>1. PICK w \in Workers : user[w] = u /\ Serving(w)
        BY <3>2 DEF ServeInv, PoolServed
      <4>2. w # m.worker
        BY <2>1, <3>2, <4>1 DEF Serving
      <4>3. Serving(w)'
        BY <2>1, <4>1, <4>2, OthersServe
      <4> QED BY <2>1, <4>1, <4>3
    <3> QED BY <1>3, <3>1, <3>2
  <2>3. OffersRemembered'
    <3> SUFFICES ASSUME NEW w \in Workers, op'[w] = "queue"
                 PROVE  /\ Offered(w)' => pool'[user'[w]] # 0 \/ Excused(w)'
                        /\ pc'[w] = "replied" /\ reply'[w].kind = "removed"
                             => Excused(w)'
                        /\ outcome'[w] = "silent" => Excused(w)'
      BY DEF OffersRemembered, Remembered
    <3>1. /\ Offered(w) => pool[user[w]] # 0 \/ Excused(w)
          /\ pc[w] = "replied" /\ reply[w].kind = "removed" => Excused(w)
          /\ outcome[w] = "silent" => Excused(w)
      BY <2>1 DEF ServeInv, OffersRemembered, Remembered
    <3>2. Excused(w) => Excused(w)' \/ (w = m.worker /\ Awaited(m) /\ r.kind = "none")
      BY <1>3
    <3>3. CASE ~(w = m.worker /\ Awaited(m))
      <4>1. Offered(w)' <=> Offered(w)
        BY <2>1, <3>3, OthersServe
      <4>2. Offered(w) => Queueing(w)
        BY <2>1 DEF Offered, Waiting, Queueing
      <4>3. Offered(w)' => pool'[user'[w]] # 0 \/ Excused(w)'
        BY <1>3, <2>1, <3>1, <3>2, <3>3, <4>1, <4>2
      <4> QED BY <2>1, <3>1, <3>2, <3>3, <4>3
    <3>4. CASE w = m.worker /\ Awaited(m)
      <4>1. m.op = "queue"
        BY <2>1, <3>4
      <4>2. Offered(w)' => pool'[user'[w]] # 0
        BY <1>3, <2>1, <3>4, <4>1 DEF Offered, Waiting
      <4>4. outcome[w] = "none"
        BY <3>4 DEF Awaited, ServeInv, FreshUntilEnd
      <4>3. r.kind = "removed" => Excused(w)
        <5>1. pc[w] = "call" /\ count[w] = m.count /\ user[w] = m.user
          BY <2>1, <3>4 DEF Awaited
        <5> QED BY <1>3, <3>1, <4>1, <5>1 DEF Offered
      <4> QED BY <2>1, <3>2, <3>4, <4>2, <4>3, <4>4
    <3> QED BY <3>3, <3>4
  <2> QED BY <2>1, <2>2, <2>3 DEF ServeInv
<1>4. CASE AlreadyRemoved(m)
  <2>1. /\ Answer(m, absent) /\ pool' = pool /\ UNCHANGED excuseVars
        /\ m.op = "queue" /\ m.count > 0 /\ pool[m.user] = 0
    BY <1>4 DEF AlreadyRemoved, poolVars, absent
  <2>2. \A w \in Workers : Excused(w) => Excused(w)'
    BY <2>1 DEF Excused, excuseVars
  <2> QED BY <1>2, <1>3, <2>1, <2>2
<1>5. CASE Waits(m)
  <2>1. /\ Answer(m, NoReply) /\ pool' = PoolWith(m.user)
        /\ m.op = "queue"
    BY <1>5 DEF Waits, Enters
  <2>3. \A w \in Workers :
          Excused(w) => Excused(w)' \/ (w = m.worker /\ Awaited(m))
    BY <1>5 DEF Waits, Excused
  <2>4. \A w \in Workers : pool[user[w]] # 0 => pool'[user[w]] # 0 \/ user[w] \notin Users
    BY <1>1, <2>1 DEF PoolWith, TypeOK
  <2>5. \A w \in Workers : Queueing(w) => user[w] \in Users
    BY <1>1 DEF Queueing, TypeOK
  <2>2. /\ pool'[m.user] # 0
        /\ \A u \in Users : u # m.user => pool'[u] = pool[u]
    BY <1>1, <2>1 DEF PoolWith, TypeOK
  <2> QED BY <1>2, <1>3, <2>1, <2>2, <2>3, <2>4, <2>5
<1>6. CASE Deletes(m)
  <2>1. /\ Answer(m, absent) /\ takenOut' = takenOut \cup QueuersOf({m.user})
        /\ UNCHANGED <<unheard, failed>>
        /\ m.op = "delete" /\ pool' = [pool EXCEPT ![m.user] = 0]
    BY <1>6 DEF Deletes, absent
  <2>2. /\ pool'[m.user] = 0
        /\ \A u \in Users : u # m.user => pool'[u] = pool[u]
    BY <1>1, <2>1 DEF TypeOK
  <2>3. ASSUME NEW w \in Workers
        PROVE  /\ Excused(w) => Excused(w)'
               /\ Queueing(w) /\ pool[user[w]] # 0 /\ pool'[user[w]] = 0 => Excused(w)'
    <3>1. Queueing(w) => user[w] \in Users
      BY <1>1 DEF Queueing, TypeOK
    <3> QED BY <2>1, <2>2, <3>1 DEF Excused, QueuersOf
  <2> QED BY <1>2, <1>3, <2>1, <2>2, <2>3
<1>7. ASSUME NEW v \in Users, Matches(m, v) PROVE ServeInv'
  <2> DEFINE in == PoolWith(m.user)
             r == [kind |-> "matched",
                   mine |-> [user |-> m.user, nr |-> in[m.user]],
                   theirs |-> [user |-> v, nr |-> pool[v]]]
  <2>1. in \in [Users -> Nat] /\ \A u \in Users : u # m.user => in[u] = pool[u]
    BY <1>1, PoolType DEF PoolWith, TypeOK, ServeInv
  <2>2. r \in Reply /\ r.kind = "matched"
    BY <1>1, <2>1 DEF Reply, Entry, TypeOK
  <2>3. /\ Answer(m, r) /\ failed' = failed
        /\ takenOut' = takenOut \cup (QueuersOf({m.user, v}) \ {m.worker})
        /\ unheard' = IF Awaited(m) THEN unheard ELSE unheard \cup {m.worker}
        /\ m.op = "queue" /\ pool' = [in EXCEPT ![m.user] = 0, ![v] = 0]
    BY <1>7 DEF Matches, Enters, RemoveBoth
  <2> HIDE DEF in, r
  <2>4. /\ pool'[m.user] = 0 /\ pool'[v] = 0
        /\ \A u \in Users : u \notin {m.user, v} => pool'[u] = pool[u]
    BY <1>1, <2>1, <2>3
  <2>5. ASSUME NEW w \in Workers
        PROVE  /\ Excused(w) => Excused(w)'
               /\ Queueing(w) /\ pool[user[w]] # 0 /\ pool'[user[w]] = 0 =>
                    Excused(w)' \/ (w = m.worker /\ Awaited(m))
    <3>1. Queueing(w) => user[w] \in Users
      BY <1>1 DEF Queueing, TypeOK
    <3>2. CASE w = m.worker
      BY <2>3, <3>2 DEF Excused
    <3>3. CASE w # m.worker
      BY <2>3, <2>4, <3>1, <3>3 DEF Excused, QueuersOf
    <3> QED BY <3>2, <3>3
  <2> QED BY <1>3, <2>2, <2>3, <2>4, <2>5
<1> QED BY <1>4, <1>5, <1>6, <1>7 DEF Serve

\* The step is nothing to goroutine x.
Untouched(x) ==
  /\ pc'[x] = pc[x] /\ op'[x] = op[x] /\ user'[x] = user[x]
  /\ count'[x] = count[x] /\ tries'[x] = tries[x]
  /\ reply'[x] = reply[x] /\ outcome'[x] = outcome[x]
  /\ (x \in broken') <=> (x \in broken)
  /\ (x \in failed') <=> (x \in failed)

\* Goroutine w has started, serves its user if it did, and remembers it.
KeepsServing(w) ==
  /\ pc'[w] # "free" /\ (pc'[w] # "done" => outcome'[w] = "none")
  /\ Serving(w) => Serving(w)' /\ user'[w] = user[w]
  /\ Remembered(w)'

\* A step of goroutines ws that leaves the pool alone keeps users served and
\* offers remembered, if these goroutines do.
LEMMA OwnStepServes ==
  ASSUME ServeInv, Typed', NEW ws \in SUBSET Workers,
         UNCHANGED <<pool, takenOut, unheard>>,
         \A x \in Workers \ ws : Untouched(x),
         \A w \in ws : KeepsServing(w),
         \A m \in requests' :
           IF m.worker \in ws THEN Owned(m)' ELSE m \in requests
  PROVE  ServeInv'
<1> USE DEF Untouched, KeepsServing
<1>1. FreshUntilEnd'
  <2> SUFFICES ASSUME NEW w \in Workers
               PROVE  /\ pc'[w] # "done" => outcome'[w] = "none"
                      /\ pc'[w] = "free" => w \notin broken' /\ count'[w] = 0
    BY DEF FreshUntilEnd
  <2>1. CASE w \in ws
    BY <2>1
  <2>2. CASE w \notin ws
    BY <2>2 DEF ServeInv, FreshUntilEnd
  <2> QED BY <2>1, <2>2
<1>2. RequestsOwned'
  <2> SUFFICES ASSUME NEW m \in requests' PROVE Owned(m)'
    BY DEF RequestsOwned
  <2>1. m.worker \in Workers
    BY DEF Typed, TypeOK, Request
  <2>2. CASE m.worker \notin ws
    <3>1. Owned(m)
      BY <2>2 DEF ServeInv, RequestsOwned
    <3> QED BY <2>1, <2>2, <3>1 DEF Owned, Awaited
  <2> QED BY <2>2
<1>3. PoolServed'
  <2> SUFFICES ASSUME NEW u \in Users, pool'[u] # 0
               PROVE  \E w \in Workers : user'[w] = u /\ Serving(w)'
    BY DEF PoolServed
  <2>1. PICK w \in Workers : user[w] = u /\ Serving(w)
    BY DEF ServeInv, PoolServed
  <2>2. CASE w \notin ws
    BY <2>1, <2>2 DEF Serving, Waiting
  <2> QED BY <2>1, <2>2
<1>4. OffersRemembered'
  <2> SUFFICES ASSUME NEW w \in Workers PROVE Remembered(w)'
    BY DEF OffersRemembered
  <2>1. CASE w \notin ws
    <3>1. Remembered(w)
      BY DEF ServeInv, OffersRemembered
    <3> QED BY <2>1, <3>1 DEF Remembered, Offered, Waiting, Excused
  <2> QED BY <2>1
<1> QED BY <1>1, <1>2, <1>3, <1>4 DEF ServeInv

\* So does the end of goroutines: in a bot match or by the death of the
\* process whatever they did, otherwise if they did not serve anybody or sent
\* an offer twice; and without a word only for a reason.
LEMMA EndServes ==
  ASSUME ServeInv, Typed', NEW ws \in SUBSET Workers, NEW o,
         EndAll(ws, o), UNCHANGED <<pool, takenOut, unheard, op, requests>>,
         broken \subseteq broken', failed \subseteq failed',
         \A x \in Workers \ ws :
           /\ user'[x] = user[x]
           /\ (x \in broken') <=> (x \in broken)
           /\ (x \in failed') <=> (x \in failed),
         \A w \in ws :
           /\ Serving(w) => user'[w] = user[w]
                              /\ (w \in broken' \/ o \in {"bot", "dead"})
           /\ o = "silent" /\ op[w] = "queue" => Excused(w)'
           /\ \A m \in requests : m.worker = w =>
                /\ user'[w] = user[w]
                /\ pc[w] = "call" => w \in broken' \/ o = "dead"
                /\ pc[w] # "done" \/ o = "dead"
  PROVE  ServeInv'
<1>0. /\ \A w \in ws : pc'[w] = "done" /\ outcome'[w] = o
                       /\ reply'[w] = NoReply
      /\ \A x \in Workers \ ws :
           /\ pc'[x] = pc[x] /\ count'[x] = count[x] /\ tries'[x] = tries[x]
           /\ reply'[x] = reply[x] /\ outcome'[x] = outcome[x]
  BY DEF EndAll
<1>1. ASSUME NEW w \in ws
      PROVE  /\ Serving(w) => Serving(w)' /\ user'[w] = user[w]
             /\ Remembered(w)'
  <2>1. Serving(w) => Serving(w)' /\ user'[w] = user[w]
    BY <1>0 DEF Serving
  <2>2. Remembered(w)'
    BY <1>0 DEF Remembered, Offered, Waiting
  <2> QED BY <2>1, <2>2
<1>2. ASSUME NEW m \in requests', m.worker \in ws PROVE Owned(m)'
  <2>1. m \in requests /\ Owned(m)
    BY DEF ServeInv, RequestsOwned
  <2>2. m.worker \in broken' \/ o = "dead"
    BY <1>2, <2>1 DEF Owned, Awaited, ServeInv, FreshUntilEnd
  <2> QED BY <1>0, <1>2, <2>1, <2>2 DEF Owned
<1> QED BY <1>0, <1>1, <1>2, OwnStepServes DEF Untouched, KeepsServing

\* Every step leaves whoever is in the pool served, and no offer forgotten.
LEMMA ServeStep == ServeInv /\ [Next]_vars => ServeInv'
<1> SUFFICES ASSUME ServeInv, [Next]_vars PROVE ServeInv'
  OBVIOUS
<1>0. Typed /\ TypeOK /\ Typed' /\ TypeOK'
  BY TypeStep DEF ServeInv, Typed
<1>1. \A w \in Workers :
        /\ pc[w] # "done" => outcome[w] = "none"
        /\ pc[w] = "free" => w \notin broken /\ count[w] = 0
        /\ Remembered(w)
        /\ \A m \in requests : m.worker = w => Owned(m)
  BY DEF ServeInv, FreshUntilEnd, OffersRemembered, RequestsOwned
<1>2. ASSUME NEW m \in requests, Serve(m) PROVE ServeInv'
  BY <1>0, <1>2, AnswerServes
<1>3. ASSUME NEW w \in Workers, NEW u \in Users,
             NEW o \in {"queue", "delete"}, Start(w, u, o)
      PROVE  ServeInv'
  <2>1. /\ pc[w] = "free" /\ pc' = [pc EXCEPT ![w] = "call"]
        /\ op' = [op EXCEPT ![w] = o] /\ user' = [user EXCEPT ![w] = u]
        /\ tries' = [tries EXCEPT ![w] = MaxTries]
        /\ requests' = requests \cup
             {[worker |-> w, user |-> u, op |-> o, count |-> 0,
               tries |-> MaxTries]}
        /\ UNCHANGED <<pool, takenOut, unheard, count, reply, outcome, broken, failed>>
    BY <1>3 DEF Start, poolVars, historyVars, excuseVars
  <2>2. /\ pc'[w] = "call" /\ op'[w] = o /\ user'[w] = u
        /\ tries'[w] = MaxTries /\ count'[w] = 0 /\ outcome'[w] = "none"
        /\ \A x \in Workers \ {w} :
             /\ pc'[x] = pc[x] /\ op'[x] = op[x] /\ user'[x] = user[x]
             /\ tries'[x] = tries[x]
    BY <1>0, <1>1, <2>1 DEF TypeOK
  <2>3. ~Serving(w) /\ \A m \in requests : m.worker # w
    BY <1>1, <2>1 DEF Serving, Owned
  <2>4. Remembered(w)'
    BY <2>2 DEF Remembered, Offered, Waiting
  <2>5. \A m \in requests' :
          IF m.worker \in {w} THEN Owned(m)' ELSE m \in requests
    BY <2>1, <2>2, <2>3 DEF Owned, Awaited
  <2>6. \A x \in Workers \ {w} : Untouched(x)
    BY <2>1, <2>2 DEF Untouched
  <2>7. KeepsServing(w)
    BY <2>2, <2>3, <2>4 DEF KeepsServing
  <2>8. UNCHANGED <<pool, takenOut, unheard>>
    BY <2>1
  <2> QED BY <1>0, <2>5, <2>6, <2>7, <2>8, OwnStepServes
<1>4. ASSUME NEW w \in Workers, NEW u \in Users, Queue3Defeated(w, u)
      PROVE  ServeInv'
  <2>1. /\ pc[w] = "free" /\ EndAll({w}, "bot")
        /\ user' = [user EXCEPT ![w] = u]
        /\ UNCHANGED <<pool, takenOut, unheard, op, requests, broken, failed>>
    BY <1>4 DEF Queue3Defeated, End, poolVars, historyVars, excuseVars
  <2>2. ~Serving(w) /\ \A m \in requests : m.worker # w
    BY <1>1, <2>1 DEF Serving, Owned
  <2>3. \A x \in Workers \ {w} : user'[x] = user[x]
    BY <1>0, <2>1 DEF TypeOK
  <2> QED BY <1>0, <2>1, <2>2, <2>3, EndServes
<1>5. ASSUME NEW w \in Workers, NEW l, Goto(w, l), pc[w] \notin {"free", "done"},
             UNCHANGED <<pool, takenOut, unheard, op, user, requests>>,
             broken \subseteq broken', failed \subseteq failed',
             l \notin {"free", "call", "replied", "done"},
             \A x \in Workers \ {w} : /\ (x \in broken') <=> (x \in broken)
                                      /\ (x \in failed') <=> (x \in failed),
             pc[w] = "call" => w \in broken',
             Serving(w) => w \in broken' \/ l = "sleep",
             l = "sleep" /\ op[w] = "queue" => Offered(w) \/ w \in failed'
      PROVE  ServeInv'
  <2>1. /\ pc'[w] = l /\ \A x \in Workers \ {w} : pc'[x] = pc[x]
        /\ UNCHANGED <<outcome, count, tries, reply>> /\ outcome[w] = "none"
    BY <1>0, <1>1, <1>5 DEF Goto, TypeOK
  <2>2. Serving(w) => Serving(w)'
    BY <1>5, <2>1 DEF Serving
  <2>3. Remembered(w)'
    BY <1>1, <1>5, <2>1 DEF Remembered, Offered, Waiting, Excused
  <2>4. \A m \in requests' :
          IF m.worker \in {w} THEN Owned(m)' ELSE m \in requests
    BY <1>1, <1>5, <2>1 DEF Owned, Awaited
  <2>5. \A x \in Workers \ {w} : Untouched(x)
    BY <1>5, <2>1 DEF Untouched
  <2>6. KeepsServing(w)
    BY <1>5, <2>1, <2>2, <2>3 DEF KeepsServing
  <2> QED BY <1>0, <1>5, <2>4, <2>5, <2>6, OwnStepServes
<1>6. ASSUME NEW w \in Workers, CallFails(w) PROVE ServeInv'
  <2>1. /\ pc[w] = "call" /\ broken' = broken \cup {w}
        /\ UNCHANGED <<pool, takenOut, unheard, op, user>>
    BY <1>6 DEF CallFails, poolVars
  <2>2. CASE tries[w] > 0
    <3>1. /\ tries' = [tries EXCEPT ![w] = @ - 1]
          /\ requests' = requests \cup {RequestOf(w, count[w], tries[w] - 1)}
          /\ UNCHANGED <<pc, outcome, count, reply, failed>>
      BY <1>6, <2>2 DEF CallFails, MayResend
    <3>2. Serving(w) => Serving(w)'
      BY <2>1, <3>1 DEF Serving
    <3>3. Remembered(w)' /\ pc'[w] # "free" /\ outcome'[w] = "none"
      BY <1>1, <2>1, <3>1 DEF Remembered, Offered, Waiting, Excused
    <3>4. \A m \in requests' :
            IF m.worker \in {w} THEN Owned(m)' ELSE m \in requests
      BY <1>1, <2>1, <3>1 DEF Owned, RequestOf
    <3>5. \A x \in Workers \ {w} : Untouched(x)
      BY <1>0, <2>1, <3>1 DEF TypeOK, Untouched
    <3>6. KeepsServing(w)
      BY <2>1, <3>2, <3>3 DEF KeepsServing
    <3> QED BY <1>0, <2>1, <3>4, <3>5, <3>6, OwnStepServes
  <2>3. CASE ~(tries[w] > 0)
    <3>1. /\ requests' = requests
          /\ failed' = IF op[w] = "queue" /\ count[w] = 0 THEN failed \cup {w} ELSE failed
      BY <1>6, <2>3 DEF CallFails, MayResend
    <3>4. op[w] = "queue" => Offered(w) \/ w \in failed'
      BY <1>0, <2>1, <3>1 DEF Offered, TypeOK
    <3>2. CASE op[w] = "queue"
      <4>1. Goto(w, "sleep")
        BY <1>6, <2>3, <3>2 DEF CallFails, MayResend
      <4> QED BY <1>5, <2>1, <3>1, <3>4, <4>1
    <3>3. CASE op[w] # "queue"
      <4>1. EndAll({w}, "silent")
        BY <1>6, <2>3, <3>3 DEF CallFails, MayResend, End
      <4> QED BY <1>0, <2>1, <3>1, <3>3, <4>1, EndServes
    <3> QED BY <3>2, <3>3
  <2> QED BY <2>2, <2>3
<1>7. ASSUME NEW w \in Workers, OfferAnswered(w) PROVE ServeInv'
  <2>1. /\ pc[w] = "replied" /\ op[w] = "queue" /\ outcome[w] = "none"
        /\ UNCHANGED <<pool, takenOut, unheard, requests, op, user, broken, failed>>
    BY <1>1, <1>7 DEF OfferAnswered, poolVars, historyVars, excuseVars
  <2>2. CASE reply[w].kind = "none" /\ Goto(w, "sleep")
    BY <1>5, <2>1, <2>2 DEF Offered, Waiting
  <2>3. CASE reply[w].kind = "matched" /\ Goto(w, "matched")
    BY <1>5, <2>1, <2>3 DEF Serving, Waiting
  <2>4. CASE reply[w].kind = "removed" /\ End(w, "silent")
    <3>1. EndAll({w}, "silent")
      BY <2>4 DEF End
    <3>2. Serving(w) => w \in broken'
      BY <2>1, <2>4 DEF Serving, Waiting
    <3>3. Excused(w)'
      BY <1>1, <2>1, <2>4 DEF Remembered, Excused
    <3> QED BY <1>0, <2>1, <3>1, <3>2, <3>3, EndServes
  <2> QED BY <1>7, <2>2, <2>3, <2>4 DEF OfferAnswered
<1>8. ASSUME NEW w \in Workers, DeleteAnswered(w) PROVE ServeInv'
  <2>1. /\ pc[w] = "replied" /\ op[w] = "delete" /\ EndAll({w}, "cancelled")
        /\ UNCHANGED <<pool, takenOut, unheard, requests, op, user, broken, failed>>
    BY <1>8 DEF DeleteAnswered, End, poolVars, historyVars, excuseVars
  <2>2. ~Serving(w)
    BY <2>1 DEF Serving
  <2> QED BY <1>0, <2>1, <2>2, EndServes
<1>9. ASSUME NEW w \in Workers, LookUpAgents(w) PROVE ServeInv'
  <2>1. /\ pc[w] = "matched" /\ outcome[w] = "none"
        /\ Goto(w, "pair") \/ Goto(w, "missing")
        /\ UNCHANGED <<pool, takenOut, unheard, requests, op, user, broken, failed>>
    BY <1>1, <1>9 DEF LookUpAgents, poolVars, historyVars, excuseVars
  <2>2. Serving(w) => w \in broken'
    BY <2>1 DEF Serving, Waiting
  <2> QED BY <1>5, <2>1, <2>2
<1>10. ASSUME NEW w \in Workers, Pair(w) PROVE ServeInv'
  <2>1. /\ pc[w] = "pair" /\ outcome[w] = "none"
        /\ EndAll({w}, "match") \/ EndAll({w}, "retry")
        /\ UNCHANGED <<pool, takenOut, unheard, requests, op, user, broken, failed>>
    BY <1>1, <1>10 DEF Pair, End, poolVars, excuseVars
  <2>2. Serving(w) => w \in broken'
    BY <2>1 DEF Serving, Waiting
  <2> QED BY <1>0, <2>1, <2>2, EndServes
<1>11. ASSUME NEW w \in Workers, NextOffer(w) PROVE ServeInv'
  <2>1. /\ pc[w] = "sleep" /\ outcome[w] = "none"
        /\ count' = [count EXCEPT ![w] = @ + 1] /\ OffersMade(w) = count[w] + 1
        /\ UNCHANGED <<pool, takenOut, unheard, op, user, reply, outcome, broken, failed>>
    BY <1>0, <1>1, <1>11 DEF NextOffer, OffersMade, poolVars, historyVars, excuseVars, TypeOK
  <2>2. Remembered(w)
    BY <1>1
  <2>3. CASE OffersMade(w) < MaxOffers
    <3>1. /\ pc' = [pc EXCEPT ![w] = "call"]
          /\ tries' = [tries EXCEPT ![w] = MaxTries]
          /\ requests' = requests \cup {RequestOf(w, count[w] + 1, MaxTries)}
      BY <1>11, <2>1, <2>3 DEF NextOffer
    <3>2. /\ pc'[w] = "call" /\ tries'[w] = MaxTries /\ count'[w] = count[w] + 1
          /\ \A x \in Workers \ {w} :
               pc'[x] = pc[x] /\ tries'[x] = tries[x] /\ count'[x] = count[x]
      BY <1>0, <2>1, <3>1 DEF TypeOK
    <3>3. Serving(w) => Serving(w)'
      BY <2>1, <3>2 DEF Serving
    <3>4. Remembered(w)'
      BY <2>1, <2>2, <3>2 DEF Remembered, Offered, Waiting, Excused
    <3>5. \A m \in requests' :
            IF m.worker \in {w} THEN Owned(m)' ELSE m \in requests
      BY <1>1, <2>1, <3>1, <3>2 DEF Owned, Awaited, RequestOf
    <3>6. \A x \in Workers \ {w} : Untouched(x)
      BY <2>1, <3>2 DEF Untouched
    <3>7. KeepsServing(w)
      BY <2>1, <3>2, <3>3, <3>4 DEF KeepsServing
    <3> QED BY <1>0, <2>1, <3>5, <3>6, <3>7, OwnStepServes
  <2>4. CASE ~(OffersMade(w) < MaxOffers)
    <3>1. pc' = [pc EXCEPT ![w] = "timeout"] /\ UNCHANGED <<tries, requests>>
      BY <1>11, <2>4 DEF NextOffer
    <3>2. /\ pc'[w] = "timeout"
          /\ \A x \in Workers \ {w} : pc'[x] = pc[x] /\ count'[x] = count[x]
      BY <1>0, <2>1, <3>1 DEF TypeOK
    <3>3. Serving(w) => Serving(w)'
      BY <2>1, <3>2 DEF Serving
    <3>4. Remembered(w)'
      BY <2>1, <2>2, <3>2 DEF Remembered, Offered, Waiting, Excused
    <3>5. \A m \in requests' :
            IF m.worker \in {w} THEN Owned(m)' ELSE m \in requests
      BY <1>1, <2>1, <3>1, <3>2 DEF Owned, Awaited
    <3>6. \A x \in Workers \ {w} : Untouched(x)
      BY <2>1, <3>1, <3>2 DEF Untouched
    <3>7. KeepsServing(w)
      BY <2>1, <3>2, <3>3, <3>4 DEF KeepsServing
    <3> QED BY <1>0, <2>1, <3>5, <3>6, <3>7, OwnStepServes
  <2> QED BY <2>3, <2>4
<1>12. ASSUME NEW w \in Workers, BotMatch(w) PROVE ServeInv'
  <2>1. /\ pc[w] \in {"timeout", "missing"} /\ EndAll({w}, "bot")
        /\ UNCHANGED <<pool, takenOut, unheard, requests, op, user, broken, failed>>
    BY <1>12 DEF BotMatch, End, poolVars, historyVars, excuseVars
  <2> QED BY <1>0, <2>1, EndServes
<1>13. CASE RestartMatch
  <2> DEFINE ws == {w \in Workers : pc[w] \notin {"free", "done"}}
  <2>1. /\ EndAll(ws, "dead")
        /\ UNCHANGED <<pool, takenOut, unheard, requests, op, user, broken, failed>>
    BY <1>13 DEF RestartMatch, poolVars, historyVars, excuseVars
  <2> QED BY <1>0, <2>1, EndServes
<1>14. CASE RestartRank
  <2>1. /\ pool' = [u \in Users |-> 0] /\ requests' = {}
        /\ takenOut' = takenOut \cup QueuersOf(Users)
        /\ UNCHANGED <<pc, op, user, count, reply, outcome, broken, unheard, failed>>
    BY <1>14 DEF RestartRank, workerVars
  <2>2. FreshUntilEnd' /\ RequestsOwned' /\ PoolServed'
    BY <2>1 DEF ServeInv, FreshUntilEnd, RequestsOwned, PoolServed
  <2>3. ASSUME NEW w \in Workers PROVE Remembered(w)'
    <3>1. Excused(w) => Excused(w)'
      BY <2>1 DEF Excused
    <3>2. Offered(w)' <=> Offered(w)
      BY <2>1, OthersServe
    <3>3. Offered(w) /\ op[w] = "queue" => Queueing(w) /\ user[w] \in Users
      BY <1>0 DEF Offered, Waiting, Queueing, TypeOK
    <3>4. Offered(w) /\ op[w] = "queue" => Excused(w)'
      BY <1>1, <2>1, <3>1, <3>3 DEF Remembered, Excused, QueuersOf
    <3> QED BY <1>1, <2>1, <3>1, <3>2, <3>4 DEF Remembered
  <2> QED BY <1>0, <2>2, <2>3 DEF ServeInv, OffersRemembered
<1>15. CASE UNCHANGED vars
  BY <1>0, <1>15 DEF vars, poolVars, workerVars, historyVars, excuseVars, ServeInv,
     FreshUntilEnd, RequestsOwned, Owned, Awaited, PoolServed, Serving, Waiting,
     OffersRemembered, Remembered, Offered, Excused
<1> QED
  BY <1>2, <1>3, <1>4, <1>6, <1>7, <1>8, <1>9, <1>10, <1>11, <1>12, <1>13,
     <1>14, <1>15 DEF Next, Step, Queue3, CancelQueue

\* A user waiting in the pool is being queued, or one of its goroutines sent
\* an offer twice, died, or gave up: matches and cancels, whenever they are
\* served, leave no user behind.
THEOREM PoolIsServed == Spec => []PoolEntryServed
<1>1. ServeInv => PoolEntryServed
  <2> SUFFICES ASSUME ServeInv, NEW u \in Users, pool[u] # 0
               PROVE  \E w \in Workers :
                        /\ user[w] = u
                        /\ \/ Queueing(w) \/ w \in broken
                           \/ outcome[w] \in {"bot", "dead"}
    BY DEF PoolEntryServed
  <2>1. PICK w \in Workers : user[w] = u /\ Serving(w)
    BY DEF ServeInv, PoolServed
  <2> QED BY <2>1 DEF Serving, Waiting, Queueing
<1> QED BY <1>1, ServeInit, ServeStep, PTL DEF Spec

\* A goroutine that ends without a word has, since the pool last told it to
\* wait, lost its user's entry to another goroutine's request or to a restart,
\* or has been matched in an answer that was lost; or its first offer failed.
THEOREM SilenceHasReason == Spec => []SilentEndHasReason
<1>1. ServeInv => SilentEndHasReason
  BY DEF ServeInv, OffersRemembered, Remembered, Excused, SilentEndHasReason
<1> QED BY <1>1, ServeInit, ServeStep, PTL DEF Spec
=============================================================================
