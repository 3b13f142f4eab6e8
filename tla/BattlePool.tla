----------------------------- MODULE BattlePool -----------------------------
(***************************************************************************)
(* A battle between the match server that asks for it, the battle server's *)
(* admin thread that puts it into the pool, and the players who come back  *)
(* to it.  The pool is an array of Capacity slots; a battle's id is its    *)
(* slot, and the slots are handed out in turn, whatever is in them.  The   *)
(* match server remembers each player's last battle in ongoingBattleMap:   *)
(* only OkWorker writes it, from an unbuffered channel, and the handlers   *)
(* of QUEUE2 and QUEUE3 read it.  A player whose battle CHECKBATTLEVALID   *)
(* finds valid is sent back to it, anyone else is queued.                  *)
(*                                                                         *)
(* Battles are numbered in the order they are made: the number stands for  *)
(* the tokens, which no two battles share.  Who is matched with whom is    *)
(* left open (ScoreMatch has the details), and a bot's entry in the map,   *)
(* which nobody looks up, is left out.                                     *)
(***************************************************************************)
EXTENDS Integers, FiniteSets, Functions

CONSTANTS
  Sessions,    \* connections of clients to the match server
  UserOf(_),   \* the player behind each
  Capacity,    \* LW_PUCK_GAME_POOL_CAPACITY (512)
  MaxBattles,  \* bound: battles made in a behaviour
  MaxCrashes,  \* bound: crashes of the battle server
  MaxExits,    \* bound: exits of the match server
  MaxRequests  \* bound: requests to be queued, all connections together

ASSUME PoolAssumption ==
  /\ IsFiniteSet(Sessions)
  /\ Capacity \in Nat /\ Capacity > 1
  /\ MaxBattles \in Nat /\ MaxCrashes \in Nat /\ MaxExits \in Nat /\ MaxRequests \in Nat

Users == {UserOf(s) : s \in Sessions}
Battles == 1 .. MaxBattles
NoBattle == 0
MaybeBattle == Battles \cup {NoBattle}
Slots == 0 .. Capacity - 1

VARIABLES
  \* The battle server.
  pool,      \* puck_game_pool
  counter,   \* battle_counter
  made,      \* battles made so far
  slotOf,    \* the slot of each, its id less 1
  over,      \* the battles that have finished
  lost,      \* the battles of a battle server that has crashed
  up,        \* the battle server is running
  admin,     \* what tcp_admin_server_entry is doing
  crashes,
  \* The match server.
  ongoing,   \* ongoingBattleMap
  ses,       \* what the handler or the client of each connection is doing
  creators,  \* the createBattleInstance goroutines
  worker,    \* what OkWorker is doing
  exits,
  requests,  \* requests sent so far
  \* The clients.
  told,      \* the battle of the last MATCHED2 each client received
  \* Since the match server started:
  crowded,   \* players with a request on two connections at a time
  unreached, \* whose battle went on, but a handler of theirs had no connection for it
  displaced  \* whose battle went on, but lost its entry for another battle

battleVars == <<pool, counter, made, slotOf, over, lost, up, admin, crashes>>
matchVars == <<ongoing, ses, creators, worker, exits, requests>>
historyVars == <<crowded, unreached, displaced>>
vars == <<battleVars, matchVars, told, historyVars>>

Idle == [pc |-> "idle"]
Creator == [s : Sessions, t : Sessions,
            pc : {"dial", "create", "broken"}, game : {NoBattle}]
             \cup [s : Sessions, t : Sessions, pc : {"send"}, game : Battles]

TypeOK ==
  /\ pool \in [Slots -> MaybeBattle]
  /\ counter \in Slots
  /\ made \in 0 .. MaxBattles
  /\ slotOf \in [Battles -> Slots]
  /\ over \in SUBSET Battles /\ lost \in SUBSET Battles
  /\ up \in BOOLEAN
  /\ admin \in {Idle} \cup [pc : {"reply", "advance"}, s : Sessions]
  /\ crashes \in 0 .. MaxCrashes
  /\ ongoing \in [Users -> MaybeBattle]
  /\ ses \in [Sessions -> [pc : {"idle", "look", "connect", "ask", "broken",
                                 "resume", "remove", "queued", "matched"},
                           game : MaybeBattle]]
  /\ creators \in SUBSET Creator
  /\ worker \in {Idle} \cup [pc : {"first", "second", "tell"}, of : Creator]
                  \cup [pc : {"delete"}, user : Users, game : MaybeBattle]
  /\ exits \in 0 .. MaxExits
  /\ requests \in 0 .. MaxRequests
  /\ told \in [Sessions -> MaybeBattle]
  /\ crowded \in SUBSET Users
  /\ unreached \in SUBSET (Users \X Battles)
  /\ displaced \in SUBSET (Users \X Battles)

InitPool == [i \in Slots |-> NoBattle]
InitSes == [s \in Sessions |-> [pc |-> "idle", game |-> NoBattle]]

Init ==
  /\ pool = InitPool /\ counter = 0 /\ made = 0
  /\ slotOf = [b \in Battles |-> 0]
  /\ over = {} /\ lost = {} /\ up = TRUE /\ admin = Idle /\ crashes = 0
  /\ ongoing = [u \in Users |-> NoBattle]
  /\ ses = InitSes /\ creators = {} /\ worker = Idle /\ exits = 0 /\ requests = 0
  /\ told = [s \in Sessions |-> NoBattle]
  /\ crowded = {} /\ unreached = {} /\ displaced = {}

\* Battle b goes on: it is where its id says, and unfinished.
Alive(b) == pool[slotOf[b]] = b /\ b \notin over
Going(b) == IF b \in Battles /\ Alive(b) THEN {b} ELSE {}

\* Session s goes on at pc, with battle b.
Goes(s, pc, b) == ses' = [ses EXCEPT ![s] = [pc |-> pc, game |-> b]]

-----------------------------------------------------------------------------
(* The match server: HandleQueue2, HandleQueue3 and CheckOngoingBattle.    *)

\* A client that waits for nothing sends QUEUE2 or QUEUE3.
Queue(s) ==
  /\ ses[s].pc = "idle" /\ Goes(s, "look", NoBattle)
  /\ requests < MaxRequests /\ requests' = requests + 1
  /\ crowded' = crowded \cup {UserOf(t) : t \in {x \in Sessions \ {s} :
                                 UserOf(x) = UserOf(s) /\ ses[x].pc # "idle"}}
  /\ UNCHANGED <<battleVars, ongoing, creators, worker, exits, told, unreached, displaced>>

\* Db.Get fails: the client is left without an answer.
GetFails(s) ==
  /\ ses[s].pc = "look" /\ Goes(s, "idle", NoBattle)
  /\ UNCHANGED <<battleVars, ongoing, creators, worker, exits, requests, told, historyVars>>

Look(s) ==
  /\ ses[s].pc = "look"
  /\ LET b == ongoing[UserOf(s)]
     IN  Goes(s, IF b = NoBattle THEN "queued" ELSE "connect", b)
  /\ UNCHANGED <<battleVars, ongoing, creators, worker, exits, requests, told, historyVars>>

\* No connection to the battle server, up or not: the entry is to be removed.
Connect(s) ==
  /\ ses[s].pc = "connect"
  /\ \/ up /\ Goes(s, "ask", ses[s].game) /\ UNCHANGED unreached
     \/ /\ Goes(s, "remove", ses[s].game)
        /\ unreached' = unreached \cup ({UserOf(s)} \X Going(ses[s].game))
  /\ UNCHANGED <<battleVars, ongoing, creators, worker, exits, requests, told, crowded, displaced>>

\* WaitForReply fails: the player is queued, the entry stays.
AskFails(s) ==
  /\ ses[s].pc = "broken" /\ Goes(s, "queued", NoBattle)
  /\ UNCHANGED <<battleVars, ongoing, creators, worker, exits, requests, told, historyVars>>

\* QUEUEOK, MAYBEMATCHED and MATCHED2.
Resume(s) ==
  /\ ses[s].pc = "resume" /\ Goes(s, "idle", NoBattle)
  /\ told' = [told EXCEPT ![s] = ses[s].game]
  /\ UNCHANGED <<battleVars, ongoing, creators, worker, exits, requests, historyVars>>

\* Creations the battle server may still carry out.
Pending == {c \in creators : c.pc \in {"dial", "create"}}

\* Two players in the queue are matched.
Match(s, t) ==
  /\ made + Cardinality(Pending) < MaxBattles
  /\ ses[s].pc = "queued" /\ ses[t].pc = "queued" /\ UserOf(s) # UserOf(t)
  /\ ses' = [ses EXCEPT ![s].pc = "matched", ![t].pc = "matched"]
  /\ creators' = creators \cup
       {[s |-> s, t |-> t, pc |-> "dial", game |-> NoBattle]}
  /\ UNCHANGED <<battleVars, ongoing, worker, exits, requests, told, historyVars>>

-----------------------------------------------------------------------------
(* The match server: createBattleInstance.                                 *)

\* Fault: only the first player is told.
RetryFirst(c) ==
  /\ creators' = creators \ {c}
  /\ ses' = [ses EXCEPT ![c.s].pc = "idle"]
\* RETRYQUEUELATER to both.
RetryLater(c) ==
  /\ creators' = creators \ {c}
  /\ ses' = [ses EXCEPT ![c.s].pc = "idle", ![c.t].pc = "idle"]

Dial(c) ==
  /\ c.pc = "dial"
  /\ \/ /\ up
        /\ creators' = (creators \ {c}) \cup {[c EXCEPT !.pc = "create"]}
        /\ UNCHANGED ses
     \/ RetryLater(c)
  /\ UNCHANGED <<battleVars, ongoing, worker, exits, requests, told, historyVars>>

\* The connection broke before the reply.
CreateFails(c) ==
  /\ c.pc = "broken" /\ RetryLater(c)
  /\ UNCHANGED <<battleVars, ongoing, worker, exits, requests, told, historyVars>>

\* It broke before CREATEBATTLE was written: log.Fatalf ends the match server.
\* It starts anew and its clients connect again; a reply on its way is lost.
Exit(c) ==
  /\ c.pc = "broken" /\ exits < MaxExits
  /\ exits' = exits + 1
  /\ ongoing' = [u \in Users |-> NoBattle]
  /\ ses' = InitSes /\ creators' = {} /\ worker' = Idle
  /\ told' = [s \in Sessions |-> NoBattle]
  /\ crowded' = {} /\ unreached' = {} /\ displaced' = {}
  /\ admin' = IF admin.pc = "reply" THEN [admin EXCEPT !.pc = "advance"] ELSE admin
  /\ UNCHANGED <<pool, counter, made, slotOf, over, lost, up, crashes, requests>>

-----------------------------------------------------------------------------
(* The match server: OkWorker.  Its senders wait until it receives.        *)

ReceiveOk(c) ==
  /\ worker.pc = "idle" /\ c.pc = "send"
  /\ worker' = [pc |-> "first", of |-> c]
  /\ creators' = creators \ {c}
  /\ UNCHANGED <<battleVars, ongoing, ses, exits, requests, told, historyVars>>

\* The sender goes on: its player is queued.
ReceiveRemove(s) ==
  /\ worker.pc = "idle" /\ ses[s].pc = "remove"
  /\ worker' = [pc |-> "delete", user |-> UserOf(s), game |-> ses[s].game]
  /\ Goes(s, "queued", NoBattle)
  /\ UNCHANGED <<battleVars, ongoing, creators, exits, requests, told, historyVars>>

\* Player u's entry is of a battle that went on, and becomes another's.
Displaces(u) == displaced' = displaced \cup ({u} \X Going(ongoing[u]))

\* The map has one entry after the other, ...
EnterFirst ==
  /\ worker.pc = "first"
  /\ ongoing' = [ongoing EXCEPT ![UserOf(worker.of.s)] = worker.of.game]
  /\ Displaces(UserOf(worker.of.s))
  /\ worker' = [worker EXCEPT !.pc = "second"]
  /\ UNCHANGED <<battleVars, ses, creators, exits, requests, told, crowded, unreached>>

\* Fault: only the first player's entry is made.
EnterSecondSkipped ==
  /\ worker.pc = "second"
  /\ worker' = [worker EXCEPT !.pc = "tell"]
  /\ UNCHANGED <<battleVars, ongoing, ses, creators, exits, requests, told, historyVars>>
EnterSecond ==
  /\ worker.pc = "second"
  /\ ongoing' = [ongoing EXCEPT ![UserOf(worker.of.t)] = worker.of.game]
  /\ Displaces(UserOf(worker.of.t))
  /\ worker' = [worker EXCEPT !.pc = "tell"]
  /\ UNCHANGED <<battleVars, ses, creators, exits, requests, told, crowded, unreached>>

\* ... and then both clients are sent MATCHED2.
Tell ==
  /\ worker.pc = "tell" /\ worker' = Idle
  /\ LET c == worker.of
     IN  /\ told' = [told EXCEPT ![c.s] = c.game, ![c.t] = c.game]
         /\ ses' = [ses EXCEPT ![c.s].pc = "idle", ![c.t].pc = "idle"]
  /\ UNCHANGED <<battleVars, ongoing, creators, exits, requests, historyVars>>

\* Whatever entry the player has now is removed.
Delete ==
  /\ worker.pc = "delete" /\ worker' = Idle
  /\ ongoing' = [ongoing EXCEPT ![worker.user] = NoBattle]
  /\ IF ongoing[worker.user] = worker.game THEN UNCHANGED displaced ELSE Displaces(worker.user)
  /\ UNCHANGED <<battleVars, ses, creators, exits, requests, told, crowded, unreached>>

-----------------------------------------------------------------------------
(* The battle server.                                                      *)

\* CHECKBATTLEVALID knows a battle by its id, not by a token.
\* Fault: a battle that has finished is valid still.
ValidUnfinished(i) == pool[i] # NoBattle
Valid(i) == pool[i] # NoBattle /\ pool[i] \notin over

AdminCheck(s) ==
  /\ up /\ admin.pc = "idle" /\ ses[s].pc = "ask"
  /\ LET b == ses[s].game
     IN  Goes(s, IF Valid(slotOf[b]) THEN "resume" ELSE "remove", b)
  /\ UNCHANGED <<battleVars, ongoing, creators, worker, exits, requests, told, historyVars>>

\* CREATEBATTLE: the next slot is given the new battle, whatever was in it, ...
AdminCreate(c) ==
  /\ up /\ admin.pc = "idle" /\ c.pc = "create" /\ made < MaxBattles
  /\ made' = made + 1
  /\ pool' = [pool EXCEPT ![counter] = made + 1]
  /\ slotOf' = [slotOf EXCEPT ![made + 1] = counter]
  /\ admin' = [pc |-> "reply", s |-> c.s]
  /\ UNCHANGED <<counter, over, lost, up, crashes, matchVars, told, historyVars>>

\* ... the match server is told, ...
AdminReply ==
  /\ admin.pc = "reply" /\ admin' = [admin EXCEPT !.pc = "advance"]
  /\ creators' = {IF c.pc = "create" /\ c.s = admin.s
                  THEN [c EXCEPT !.pc = "send", !.game = made] ELSE c
                  : c \in creators}
  /\ UNCHANGED <<pool, counter, made, slotOf, over, lost, up, crashes,
                 ongoing, ses, worker, exits, requests, told, historyVars>>

\* Fault: the counter starts again one slot early.
NextSlotEarly(i) == IF i + 2 < Capacity THEN i + 1 ELSE 0
NextSlot(i) == IF i + 1 < Capacity THEN i + 1 ELSE 0

\* ... and the counter moves on.  When it wraps, the first slot is freed.
AdminAdvance ==
  /\ admin.pc = "advance" /\ admin' = Idle
  /\ counter' = NextSlot(counter)
  /\ pool' = IF counter' = 0 THEN [pool EXCEPT ![0] = NoBattle] ELSE pool
  /\ UNCHANGED <<made, slotOf, over, lost, up, crashes, matchVars, told, historyVars>>

\* The main thread finishes a battle.
Finish ==
  /\ up
  /\ \E b \in Range(pool) \ (over \cup {NoBattle}) : over' = over \cup {b}
  /\ UNCHANGED <<pool, counter, made, slotOf, lost, up, admin, crashes,
                 matchVars, told, historyVars>>

Crash ==
  /\ up /\ crashes < MaxCrashes
  /\ up' = FALSE /\ crashes' = crashes + 1
  /\ pool' = InitPool /\ counter' = 0 /\ admin' = Idle /\ lost' = 1 .. made
  /\ ses' = [s \in Sessions |->
               IF ses[s].pc = "ask" THEN [ses[s] EXCEPT !.pc = "broken"] ELSE ses[s]]
  /\ creators' = {IF c.pc = "create" THEN [c EXCEPT !.pc = "broken"] ELSE c
                  : c \in creators}
  /\ UNCHANGED <<made, slotOf, over, ongoing, worker, exits, requests, told, historyVars>>

Restart ==
  /\ ~up /\ up' = TRUE
  /\ UNCHANGED <<pool, counter, made, slotOf, over, lost, admin, crashes,
                 matchVars, told, historyVars>>

-----------------------------------------------------------------------------
Session(s) ==
  GetFails(s) \/ Look(s) \/ Connect(s) \/ AskFails(s) \/ Resume(s)
Create(c) == Dial(c) \/ CreateFails(c) \/ Exit(c)
OkWorker == EnterFirst \/ EnterSecond \/ Tell \/ Delete
Admin == AdminReply \/ AdminAdvance

Next ==
  \/ \E s \in Sessions :
       Queue(s) \/ Session(s) \/ ReceiveRemove(s) \/ AdminCheck(s)
  \/ \E s, t \in Sessions : Match(s, t)
  \/ \E c \in creators : Create(c) \/ ReceiveOk(c) \/ AdminCreate(c)
  \/ OkWorker \/ Admin \/ Finish \/ Crash \/ Restart

\* The next step for the client of connection s.
Handled(s) ==
  \/ Session(s) \/ AdminCheck(s) \/ ReceiveRemove(s)
  \/ \E c \in creators : c.s = s /\ (Create(c) \/ AdminCreate(c) \/ ReceiveOk(c))

Spec == Init /\ [][Next]_vars

\* The goroutines and the admin thread run; the channel and the backlog of
\* the listening socket serve whoever came first.  Neither a battle's end nor
\* a restart of the battle server is promised.
FairSpec ==
  /\ Spec
  /\ WF_vars(OkWorker) /\ WF_vars(Admin)
  /\ \A s \in Sessions : SF_vars(Handled(s))

-----------------------------------------------------------------------------
\* A battle stays in the pool while there are Capacity - 1 later ones at most
\* in it: until then its players' packets and CHECKBATTLEVALID find it.
BattleKept ==
  \A b \in 1 .. made :
    b \notin lost /\ made - b < Capacity - 1 => pool[slotOf[b]] = b

\* A player is sent back to a battle that goes on, as long as the pool has
\* not come round to its slot since and the battle server has not crashed.
ResumedWithinRound ==
  [][\A s \in Sessions :
       LET b == ses[s].game
       IN  /\ ses[s].pc = "ask" /\ ses'[s].pc = "resume"
           /\ b \notin lost /\ made - b < Capacity - 1
           => Alive(b)]_vars

\* A client that was told of a battle that goes on finds it again: its entry is
\* in the map, but for two cases.  A handler found no way to the battle server; or
\* the player had requests on two connections at a time, and the entry made way
\* for that of another battle of his, or a handler that had asked about another
\* battle had it removed (a crash of either server ends the claim).
ToldIsResumable ==
  \A s \in Sessions :
    LET u == UserOf(s)
    IN  told[s] # NoBattle /\ Alive(told[s]) =>
          \/ ongoing[u] = told[s]
          \/ <<u, told[s]>> \in unreached
          \/ u \in crowded /\ <<u, told[s]>> \in displaced

\* No handler, goroutine or channel keeps a client for ever, whichever server
\* fails: who asks to be queued is queued or has an answer, and who is matched
\* has MATCHED2 or RETRYQUEUELATER.
Served ==
  \A s \in Sessions :
    ses[s].pc \notin {"idle", "queued"} ~> ses[s].pc \in {"idle", "queued"}
=============================================================================
