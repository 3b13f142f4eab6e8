----------------------------- MODULE FifoMatch ------------------------------
(***************************************************************************)
(* Searching for an opponent, between the button of the client and the     *)
(* match server's two queues.  Each connection has a goroutine that        *)
(* handles its requests one by one.  QUEUE3 is for the nearest-score queue *)
(* (ScoreMatch; here a request is in the map until it is taken), QUEUE2    *)
(* for the FIFO queue: an unbuffered channel and the one goroutine behind  *)
(* it, matchWorker, that pairs what comes out of it.  CANCELQUEUE is       *)
(* answered from the map if its user is in it, and goes through the        *)
(* channel otherwise.  Clients send QUEUE3, and QUEUE2 when the server     *)
(* tells them to try again (RETRYQUEUE); older ones send QUEUE2 at once.   *)
(*                                                                         *)
(* How a battle is made or fails, and which players have one to come back  *)
(* to, is BattlePool's; QUEUEOK and MAYBEMATCHED change nothing in the     *)
(* client and are left out.                                                *)
(***************************************************************************)
EXTENDS Integers, Sequences, FiniteSets

CONSTANTS
  Conns,       \* connections of clients to the match server
  UserOf(_),   \* the player behind each
  NoAgent,     \* no request
  MaxTaps(_),  \* bound: searches started and broken off, for each connection
  MaxFaults    \* bound: calls that fail, connections that end

ASSUME FifoAssumption ==
  /\ IsFiniteSet(Conns) /\ (\A c \in Conns : MaxTaps(c) \in Nat) /\ MaxFaults \in Nat
  /\ NoAgent \notin [conn : Conns, cancel : BOOLEAN]

VARIABLES
  \* The clients.
  search,   \* those whose game_state is LPGS_SEARCHING
  taps,     \* of the user, so far
  up, down, \* packets to the server and to the client
  gone,     \* connections the client has ended
  \* The match server.
  shut,     \* connections it has closed
  cancelling, \* those whose goroutine is in DeleteFromQueue
  sendq,    \* goroutines that wait to send into matchQueue, with what they send
  worker,   \* where matchWorker is
  first,    \* c1
  coming,   \* queueToScoreMatch goroutines that have not entered the map yet
  nearestMap, \* NearestMatchMap: the connections of the users in it
  making,   \* how many matches of whom are on their way to MATCHED2
  faults,
  \* What became of it.
  crossed,  \* requests have crossed with the answers to earlier ones
  causes    \* what else may have gone wrong for a connection

clientVars == <<search, taps, gone>>
handlerVars == <<shut, cancelling>>
matcherVars == <<sendq, worker, first>>
scoreVars == <<coming, nearestMap>>
fifoVars == <<clientVars, up, down, handlerVars, matcherVars, scoreVars, making, faults,
             crossed, causes>>

Agent == [conn : Conns, cancel : BOOLEAN]
Parties == (SUBSET Conns) \ {{}}
Same(c, d) == UserOf(c) = UserOf(d)

FifoTypeOK ==
  /\ {search, gone, shut, cancelling, nearestMap, crossed} \subseteq SUBSET Conns
  /\ taps \in [Conns -> Nat] /\ \A c \in Conns : taps[c] <= MaxTaps(c)
  /\ up \in [Conns -> Seq({"queue2", "queue3", "cancel"})]
  /\ down \in [Conns -> Seq({"retry", "retry3", "matched", "later", "cancelled"})]
  /\ sendq \in Seq(Agent)
  /\ worker \in {"first", "push", "second"}
  /\ first \in Agent \cup {NoAgent} /\ (first = NoAgent <=> worker = "first")
  /\ coming \in [Conns -> Nat]
  /\ \A c, d \in nearestMap : Same(c, d) => c = d
  /\ making \in [Parties -> Nat]
  /\ faults \in 0 .. MaxFaults
  /\ causes \in [Conns -> SUBSET {"fault", "later", "shared"}]

FifoInit ==
  /\ search = {} /\ gone = {} /\ shut = {} /\ cancelling = {} /\ nearestMap = {}
  /\ taps = [c \in Conns |-> 0] /\ coming = [c \in Conns |-> 0]
  /\ up = [c \in Conns |-> <<>>] /\ down = [c \in Conns |-> <<>>]
  /\ sendq = <<>> /\ worker = "first" /\ first = NoAgent
  /\ making = [m \in Parties |-> 0] /\ faults = 0
  /\ crossed = {} /\ causes = [c \in Conns |-> {}]

Fault == faults < MaxFaults /\ faults' = faults + 1
Spoilt(S, why) == [c \in Conns |-> IF c \in S THEN causes[c] \cup {why} ELSE causes[c]]

\* Answers to those of S who are still there.
Tell(S, reply) ==
  down' = [c \in Conns |-> IF c \in S \ gone THEN Append(down[c], reply) ELSE down[c]]
Asks(c, request) == up' = [up EXCEPT ![c] = Append(@, request)]

Sending(c) == \E i \in DOMAIN sendq : sendq[i].conn = c
\* The goroutine of connection c waits: it reads nothing.
Busy(c) == Sending(c) \/ c \in cancelling

\* A request of connection c has not been handled; what came of one has not
\* reached the map or the client.
RequestDue(c) == up[c] # <<>> \/ Busy(c)
AnswerDue(c) ==
  coming[c] > 0 \/ down[c] # <<>> \/ \E m \in Parties : c \in m /\ making[m] > 0

Observe == crossed' = crossed \cup {c \in Conns : (RequestDue(c) /\ AnswerDue(c))'}

-----------------------------------------------------------------------------
(* The clients.                                                            *)

\* The user starts a search, or breaks it off.
Tap(c) == c \notin gone /\ taps[c] < MaxTaps(c) /\ taps' = [taps EXCEPT ![c] = @ + 1]

\* online_button
Online(c) ==
  /\ Tap(c) /\ c \notin search /\ search' = search \cup {c}
  /\ Asks(c, "queue3") \/ Asks(c, "queue2")
  /\ UNCHANGED <<gone, down, handlerVars, matcherVars, scoreVars, making, faults, causes>> /\ Observe

\* back_button
Back(c) ==
  /\ Tap(c) /\ c \in search /\ search' = search \ {c}
  /\ Asks(c, "cancel")
  /\ UNCHANGED <<gone, down, handlerVars, matcherVars, scoreVars, making, faults, causes>>
  /\ Observe

\* parse_recv_packets.  RETRYQUEUE and RETRYQUEUE2 are answered, whatever the
\* user has done; RETRYQUEUELATER leaves the client in LPGS_SEARCHING.
Reads(c) ==
  /\ down[c] # <<>> /\ down' = [down EXCEPT ![c] = Tail(@)]
  /\ LET reply == Head(down[c])
     IN  /\ \/ reply = "retry" /\ Asks(c, "queue2")
            \/ reply = "retry3" /\ Asks(c, "queue3")
            \/ reply \notin {"retry", "retry3"} /\ UNCHANGED up
         /\ search' = IF reply = "matched" THEN search \ {c} ELSE search
         /\ causes' = IF reply = "later" THEN Spoilt({c}, "later") ELSE causes
  /\ UNCHANGED <<gone, taps, handlerVars, matcherVars, scoreVars, making, faults>> /\ Observe

\* The app or its connection ends.
Leave(c) ==
  /\ Fault /\ c \notin gone /\ gone' = gone \cup {c} /\ search' = search \ {c}
  /\ down' = [down EXCEPT ![c] = <<>>]
  /\ UNCHANGED <<taps, up, handlerVars, matcherVars, scoreVars, making, causes>> /\ Observe

-----------------------------------------------------------------------------
(* The match server: handleRequest.                                        *)

\* Fault: a goroutine whose client has gone handles no more.
ReadableThere(c) == c \notin gone /\ ~Busy(c) /\ up[c] # <<>>
Readable(c) == c \notin shut /\ ~Busy(c) /\ up[c] # <<>>

Handles(c, request) ==
  /\ Readable(c) /\ Head(up[c]) = request /\ up' = [up EXCEPT ![c] = Tail(@)]

SendsAgent(c, cancel) == sendq' = Append(sendq, [conn |-> c, cancel |-> cancel])

\* The user has a battle to go back to (BattlePool): MATCHED2.
Resumed(c) ==
  /\ Handles(c, "queue2") \/ Handles(c, "queue3")
  /\ Tell({c}, "matched")
  /\ UNCHANGED <<clientVars, handlerVars, matcherVars, scoreVars, making, faults, causes>> /\ Observe

\* Db.Get fails: there is no answer.
GetFails(c) ==
  /\ Fault /\ (Handles(c, "queue2") \/ Handles(c, "queue3") \/ Handles(c, "cancel"))
  /\ causes' = Spoilt({c}, "fault")
  /\ UNCHANGED <<clientVars, down, handlerVars, matcherVars, scoreVars, making>> /\ Observe

HandleQueue2(c) ==
  /\ Handles(c, "queue2") /\ SendsAgent(c, FALSE)
  /\ UNCHANGED <<clientVars, down, handlerVars, worker, first, scoreVars, making, faults, causes>>
  /\ Observe

InMap(c) == \E d \in nearestMap : Same(c, d)
\* c and the other connection of its user that is in the map, if there is one.
Sharing(c) ==
  UNION {{c, d} : d \in {e \in nearestMap \ {c} : Same(c, e)}}

\* A user who is in the map already is not answered; who lost the last battle
\* gets a bot; for anyone else there is a goroutine.
HandleQueue3(c) ==
  /\ Handles(c, "queue3")
  /\ \/ InMap(c) /\ UNCHANGED <<coming, making>>
     \/ ~InMap(c) /\ making' = [making EXCEPT ![{c}] = @ + 1] /\ UNCHANGED coming
     \/ ~InMap(c) /\ coming' = [coming EXCEPT ![c] = @ + 1] /\ UNCHANGED making
  /\ causes' = Spoilt(Sharing(c), "shared")
  /\ UNCHANGED <<clientVars, down, handlerVars, matcherVars, nearestMap, faults>> /\ Observe

\* Fault: the handler takes any user in the map for its own.
KnownAny(c) == nearestMap # {}
Known(c) == InMap(c)

\* DeleteFromQueue, or a message like any other.
HandleCancel(c) ==
  /\ Handles(c, "cancel")
  /\ IF Known(c)
     THEN cancelling' = cancelling \cup {c} /\ UNCHANGED sendq
     ELSE SendsAgent(c, TRUE) /\ UNCHANGED cancelling
  /\ causes' = IF Known(c) THEN Spoilt(Sharing(c), "shared") ELSE causes
  /\ UNCHANGED <<clientVars, down, shut, worker, first, scoreVars, making, faults>> /\ Observe

\* The call of DeleteFromQueue has ended.  What is in the map for the user now
\* is taken out, unless the call has failed.
CancelAnswered(c) ==
  /\ c \in cancelling /\ cancelling' = cancelling \ {c}
  /\ \/ /\ nearestMap' = {d \in nearestMap : ~Same(c, d)}
        /\ causes' = Spoilt(Sharing(c), "shared")
        /\ UNCHANGED faults
     \/ Fault /\ causes' = Spoilt({c}, "fault") /\ UNCHANGED nearestMap
  /\ UNCHANGED <<clientVars, up, down, shut, matcherVars, coming, making>> /\ Observe

Close(c) ==
  /\ c \in gone \ shut /\ ~Busy(c) /\ up[c] = <<>> /\ shut' = shut \cup {c}
  /\ UNCHANGED <<cancelling, clientVars, up, down, matcherVars, scoreVars, making, faults, causes>>
  /\ Observe

-----------------------------------------------------------------------------
(* The match server: the nearest-score queue, as far as it concerns this.  *)

\* Fault: the map is one of connections.
EnteredConn(c) == nearestMap \cup {c}
Entered(c) == {d \in nearestMap : ~Same(c, d)} \cup {c}

EnterMap(c) ==
  /\ coming[c] > 0 /\ coming' = [coming EXCEPT ![c] = @ - 1]
  /\ nearestMap' = Entered(c)
  /\ causes' = Spoilt(Sharing(c), "shared")
  /\ UNCHANGED <<clientVars, up, down, handlerVars, matcherVars, making, faults>> /\ Observe

\* The first offer fails, so that the goroutine enters nothing.  It offers on, until
\* the user is matched in the pool by somebody (and nothing is said), or it gives up.
NeverEnters(c) ==
  /\ Fault /\ coming[c] > 0 /\ coming' = [coming EXCEPT ![c] = @ - 1]
  /\ \/ /\ causes' = Spoilt({c}, "fault") /\ UNCHANGED <<nearestMap, making>>
     \/ /\ nearestMap' = {d \in nearestMap : ~Same(c, d)}
        /\ making' = [making EXCEPT ![{c}] = @ + 1]
        /\ causes' = [Spoilt(Sharing(c), "shared") EXCEPT ![c] = @ \cup {"fault"}]
  /\ UNCHANGED <<clientVars, up, down, handlerVars, matcherVars>> /\ Observe

\* A match with somebody, or with a bot.
Taken(c) ==
  /\ c \in nearestMap /\ nearestMap' = nearestMap \ {c}
  /\ making' = [making EXCEPT ![{c}] = @ + 1]
  /\ UNCHANGED <<clientVars, up, down, handlerVars, matcherVars, coming, faults, causes>> /\ Observe

\* Create1vs1Match cannot tell d: RETRYQUEUE2 for c, and neither is in the map.
Parted(c, d) ==
  /\ {c, d} \subseteq nearestMap /\ c # d /\ d \in gone
  /\ nearestMap' = nearestMap \ {c, d} /\ Tell({c}, "retry3")
  /\ UNCHANGED <<clientVars, up, handlerVars, matcherVars, coming, making, faults, causes>> /\ Observe

-----------------------------------------------------------------------------
(* The match server: matchWorker.  Channels serve their senders in order.  *)

TakeFirst ==
  /\ worker = "first" /\ sendq # <<>>
  /\ first' = Head(sendq) /\ sendq' = Tail(sendq) /\ worker' = "push"
  /\ UNCHANGED <<clientVars, up, down, handlerVars, scoreVars, making, faults, causes>> /\ Observe

\* "... provokes you!": the call to the push server ends, one way or another.
Push ==
  /\ worker = "push" /\ worker' = "second"
  /\ UNCHANGED <<clientVars, up, down, handlerVars, sendq, first, scoreVars, making, faults, causes>>
  /\ Observe

\* The second agent comes, and the queue is empty again.
TakeSecond(second) ==
  /\ worker = "second" /\ sendq # <<>> /\ second = Head(sendq)
  /\ sendq' = Tail(sendq) /\ worker' = "first" /\ first' = NoAgent

OwnCancel(a, b) == a.conn = b.conn /\ b.cancel

Cancelled(second) ==
  /\ TakeSecond(second) /\ OwnCancel(first, second)
  /\ Tell({second.conn}, "cancelled")
  /\ UNCHANGED <<clientVars, up, handlerVars, scoreVars, making, faults, causes>> /\ Observe

\* Twice the same connection or user: the later one is told to try again.
Flushed(second) ==
  /\ TakeSecond(second) /\ ~OwnCancel(first, second) /\ Same(first.conn, second.conn)
  /\ Tell({second.conn}, "retry")
  /\ causes' = IF first.conn = second.conn THEN causes ELSE Spoilt({first.conn}, "shared")
  /\ UNCHANGED <<clientVars, up, handlerVars, scoreVars, making, faults>> /\ Observe

\* The connections a write to succeeds: one that has ended may not be noticed.
Writable(c, ok) == (ok => c \notin shut) /\ (~ok => c \in gone)

\* Create1vs1Match, of players and of cancels.
Match(second) ==
  /\ TakeSecond(second) /\ ~Same(first.conn, second.conn)
  /\ \E written \in SUBSET {first.conn, second.conn} :
       /\ \A c \in {first.conn, second.conn} : Writable(c, c \in written)
       /\ IF written = {first.conn, second.conn}
          THEN making' = [making EXCEPT ![written] = @ + 1] /\ UNCHANGED down
          ELSE UNCHANGED making /\ Tell(written, "retry")
  /\ UNCHANGED <<clientVars, up, handlerVars, scoreVars, faults, causes>> /\ Observe

\* createBattleInstance and OkWorker.
BattleMade(m) ==
  /\ making[m] > 0 /\ making' = [making EXCEPT ![m] = @ - 1] /\ Tell(m, "matched")
  /\ UNCHANGED <<clientVars, up, handlerVars, matcherVars, scoreVars, faults, causes>> /\ Observe

BattleFails(m) ==
  /\ Fault /\ making[m] > 0 /\ making' = [making EXCEPT ![m] = @ - 1] /\ Tell(m, "later")
  /\ UNCHANGED <<clientVars, up, handlerVars, matcherVars, scoreVars, causes>> /\ Observe

\* CreateBotMatch: there is no user for the bot, and the player is not told.
BotFails(c) ==
  /\ Fault /\ making[{c}] > 0 /\ making' = [making EXCEPT ![{c}] = @ - 1]
  /\ causes' = Spoilt({c}, "fault")
  /\ UNCHANGED <<clientVars, up, down, handlerVars, matcherVars, scoreVars>> /\ Observe

-----------------------------------------------------------------------------
Client(c) == Online(c) \/ Back(c) \/ Reads(c) \/ Leave(c)
Handler(c) ==
  \/ Resumed(c) \/ GetFails(c) \/ HandleQueue2(c) \/ HandleQueue3(c) \/ HandleCancel(c)
  \/ CancelAnswered(c) \/ Close(c)
ScoreQueue(c) == EnterMap(c) \/ NeverEnters(c) \/ Taken(c) \/ \E d \in Conns : Parted(c, d)
Pairing == \E second \in Agent : Cancelled(second) \/ Flushed(second) \/ Match(second)
Battle ==
  \/ \E m \in Parties : BattleMade(m) \/ BattleFails(m)
  \/ \E c \in Conns : BotFails(c)

FifoNext ==
  \/ \E c \in Conns : Client(c) \/ Handler(c) \/ ScoreQueue(c)
  \/ TakeFirst \/ Push \/ Pairing \/ Battle

FifoSpec == FifoInit /\ [][FifoNext]_fifoVars

\* What the programs do without the user.
Running ==
  \/ \E c \in Conns : Reads(c) \/ Handler(c) \/ ScoreQueue(c)
  \/ TakeFirst \/ Push \/ Pairing \/ Battle

\* As long as a goroutine or a client can go on, one does: a call to another
\* server ends, and a client reads what it is sent.
FifoFairSpec == FifoSpec /\ WF_fifoVars(Running)

-----------------------------------------------------------------------------
\* Nothing of connection c is on its way.
Settled(c) == ~RequestDue(c) /\ ~AnswerDue(c)
Queued(c) == c \in nearestMap \/ first = [conn |-> c, cancel |-> FALSE]

\* At rest, a client searches if and only if the match server has it in one of
\* its queues, and no cancel is left there as a player: unless a request of his has
\* met what came of an earlier one on its way, he uses two connections, or a
\* call failed.
ViewsAgree ==
  \A c \in Conns \ (gone \cup crossed) :
    Settled(c) /\ causes[c] = {} =>
      /\ c \in search <=> Queued(c)
      /\ first # [conn |-> c, cancel |-> TRUE]

\* When the user lets it be, every request is handled and every answer comes: a
\* goroutine that waits for matchWorker is served, and a server that tells
\* clients to ask again does not go on for ever.
ComesToRest == \A c \in Conns : ~Settled(c) ~> Settled(c)
=============================================================================
